------------------------------ MODULE GoapLoop ------------------------------
(***************************************************************************)
(* The compiled LangGraph of GoapGraph: planner -> executor -> observer,   *)
(* and the observer's Command back to the planner, back to the executor or *)
(* to END. The variables are the channels of GoapState that decide where   *)
(* the run goes; a channel a node does not return keeps its value.         *)
(*                                                                         *)
(* Definitions introduced as a plausible bug are what the next one would be*)
(* with that bug; no specification uses them.                              *)
(*                                                                         *)
(* Each node is one step, as LangGraph commits one super-step at a time.   *)
(* Two nodes are cut in two where something outside the graph answers:     *)
(* the planner while its stuck handlers are asked ("stuck"), the executor  *)
(* while a human is asked ("waiting").                                     *)
(***************************************************************************)
EXTENDS GoapDomain

CONSTANTS
  MaxRetries,      \* ActionSpec.max_retries
  Fallible,        \* actions whose execution may raise
  Outcomes,        \* world updates an action's execution may leave behind
  Accepts,         \* states after an action its effect_validator accepts
  Guarded,         \* actions some BLOCK guard may reject
  NeedsApproval,   \* actions with require_human_approval
  SensorReadings,  \* what one pass over the sensors may write
  Resolved,        \* what the condition resolvers answer for absent keys
  MaxStuck,        \* max_stuck_iterations; 0: no stuck handler configured
  StuckUpdates,    \* state_updates a stuck handler may return
  StuckGoals,      \* new_goal values a stuck handler may return
  InitialWorlds,   \* world states a run may be invoked with
  InitialGoals,    \* goals a run may be invoked with
  MayTerminate,    \* whether termination policies are configured
  NoAction         \* the "<none>" of a failed record without an action

Strategies == {"never", "every_action", "on_deviation"}

GoalSpec == [conditions : World, strategy : Strategies, max_replans : Nat]

\* One GoalSpec ("single") or a MultiGoal, which is never empty; "none" when the
\* state carries no goal.
Modes == {"none", "single", "sequential", "any"}
Goals == {g \in [mode : Modes, goals : Seq(GoalSpec)] :
            /\ g.mode = "single" => Len(g.goals) = 1
            /\ g.mode = "none" \/ Len(g.goals) > 0}

ASSUME LoopAssumption ==
  /\ MaxRetries \in [Actions -> Nat]
  /\ Outcomes \in [Actions -> SUBSET World]
  /\ Accepts \in [Actions -> SUBSET World]
  /\ SensorReadings \subseteq World
  /\ Resolved \in World
  /\ MaxStuck \in Nat
  /\ StuckUpdates \subseteq World
  /\ StuckGoals \subseteq Goals
  /\ InitialWorlds \subseteq World
  /\ InitialGoals \subseteq Goals
  /\ MayTerminate \in BOOLEAN
  /\ NoAction \notin Actions

VARIABLES
  pc,           \* where the run is
  world,        \* world_state
  goal,         \* goal
  subgoal,      \* current_subgoal_index, counted from 1
  plan,         \* plan
  step,         \* current_step: actions of the plan already done
  status,       \* status
  replanCount,  \* replan_count
  blacklist,    \* blacklisted_actions
  failures,     \* action_failure_counts, 0 for a missing entry
  explained,    \* whether no_plan_explanation is set
  lastFailed,   \* execution_history: the last failed record's action
  succeeded,    \* execution_history: actions with a successful record
  draft         \* the planner's locals while stuck handlers are asked

vars == <<pc, world, goal, subgoal, plan, step, status, replanCount,
          blacklist, failures, explained, lastFailed, succeeded, draft>>

Places == {"planner", "stuck", "executor", "waiting", "observer", "end", "raised"}
Statuses == {"", "executing", "no_plan", "action_failed", "error",
             "goal_achieved", "failed", "terminated"}

NoFailures == [a \in Actions |-> 0]

NoGoal == [mode |-> "none", goals |-> <<>>]
NoDraft == [sensed |-> Nothing, world |-> Nothing, goal |-> NoGoal,
            subgoal |-> 1, tries |-> 0]

Init ==
  /\ pc = "planner"
  /\ world \in InitialWorlds
  /\ goal \in InitialGoals
  /\ subgoal = 1
  /\ plan = NoPlan
  /\ step = 0
  /\ status = ""
  /\ replanCount = 0
  /\ blacklist = {}
  /\ failures = NoFailures
  /\ explained = FALSE
  /\ lastFailed = NoAction
  /\ succeeded = {}
  /\ draft = NoDraft
-----------------------------------------------------------------------------
(* The planner node. *)

\* What the planner plans from: resolvers fill in absent keys of the actions.
View(w) == [k \in Keys |-> IF w[k] = Absent /\ k \in ActionKeys
                             THEN Resolved[k] ELSE w[k]]

\* Plausible bug: the execution history is not consulted.
BlacklistOnly == blacklist

\* Barred from the search: blacklisted, or single-use and already done.
Barred == blacklist \cup (SingleUse \cap succeeded)

SubgoalSearch(w, g, i) == Search(w, g.goals[i].conditions, Barred)

\* Best effort: the first sub-goal from the current one on that is neither
\* satisfied nor infeasible; the last one when there is none.
SequentialOutcomes(w, g) ==
  LET last == Len(g.goals)
      skips(i) == \/ Satisfies(w, g.goals[i].conditions)
                  \/ NoPlan \in SubgoalSearch(w, g, i)
      plans(i) == IF Satisfies(w, g.goals[i].conditions)
                    THEN {} ELSE SubgoalSearch(w, g, i) \ {NoPlan}
      lands(i) == \A j \in subgoal .. i - 1 : skips(j)
  IN  (UNION {{[plan |-> p, subgoal |-> i] : p \in plans(i)} :
                i \in {j \in subgoal .. last : lands(j)}})
      \cup (IF lands(last + 1) THEN {[plan |-> NoPlan, subgoal |-> last]} ELSE {})

\* Any sub-goal with a plan may win: which one is a matter of costs.
AnyOutcomes(w, g) ==
  (UNION {{[plan |-> p, subgoal |-> i] : p \in SubgoalSearch(w, g, i) \ {NoPlan}} :
            i \in DOMAIN g.goals})
  \cup (IF \A i \in DOMAIN g.goals : NoPlan \in SubgoalSearch(w, g, i)
          THEN {[plan |-> NoPlan, subgoal |-> subgoal]} ELSE {})

SingleOutcomes(w, g) ==
  {[plan |-> p, subgoal |-> subgoal] : p \in SubgoalSearch(w, g, 1)}

\* What _plan_core may come to for goal g in world w.
CoreOutcomes(w, g) ==
  CASE g.mode = "single" -> SingleOutcomes(w, g)
    [] g.mode = "sequential" -> SequentialOutcomes(w, g)
    [] g.mode = "any" -> AnyOutcomes(w, g)

\* goals[current_subgoal_index] is out of range.
IndexRaises(g) == g.mode = "sequential" /\ subgoal > Len(g.goals)

\* Plausible bugs: the index is not written back; a replan starts over.
ForgetIndex(r) == UNCHANGED subgoal
RestartOnReplan(r) == subgoal' = IF plan = NoPlan THEN r.subgoal ELSE 1

\* The sub-goal the planner landed on.
MoveIndex(r) == subgoal' = r.subgoal

\* Plausible bug: replans are not counted.
CountNoRound(r) == UNCHANGED replanCount

\* A plan is on the state already: this round is a replan.
CountRound(r) == replanCount' = IF plan = NoPlan THEN replanCount ELSE replanCount + 1

\* Plausible bug: the blacklist survives a plan that ignores it.
ForgetNothing(r) == UNCHANGED <<blacklist, failures>>

\* A plan that needs a barred action clears the blacklist and the counts.
ForgetIfReused(r) ==
  IF r.plan # NoPlan /\ ActionsOf(r.plan) \cap Barred # {}
    THEN blacklist' = {} /\ failures' = NoFailures
    ELSE UNCHANGED <<blacklist, failures>>

\* The planner returns outcome r, writing world w and goal g.
Return(r, w, g) ==
  /\ pc' = "executor"
  /\ world' = w
  /\ goal' = g
  /\ plan' = r.plan
  /\ MoveIndex(r)
  /\ step' = 0
  /\ status' = IF r.plan = NoPlan THEN "no_plan" ELSE "executing"
  /\ CountRound(r)
  /\ ForgetIfReused(r)
  /\ draft' = NoDraft
  /\ UNCHANGED <<lastFailed, succeeded>>

\* Plausible bug: only a single goal is explained.
ExplainSingle(r, g) ==
  explained' = IF r.plan # NoPlan THEN FALSE
               ELSE IF g.mode = "single" THEN TRUE ELSE explained

\* The branch for "any" returns before an explanation is built.
Explain(r, g) ==
  explained' = IF r.plan # NoPlan THEN FALSE
               ELSE IF g.mode = "any" THEN explained ELSE TRUE

Raise == pc' = "raised" /\ UNCHANGED <<world, goal, subgoal, plan, step, status,
  replanCount, blacklist, failures, explained, lastFailed, succeeded, draft>>

PlanWithoutGoal ==
  /\ pc = "planner" /\ goal.mode = "none"
  /\ \E reading \in SensorReadings : world' = Apply(world, reading)
  /\ pc' = "executor" /\ plan' = NoPlan /\ status' = "error" /\ step' = 0
  /\ UNCHANGED <<goal, subgoal, replanCount, blacklist, failures, explained,
                 lastFailed, succeeded, draft>>

PlanRaises == pc = "planner" /\ goal.mode # "none" /\ IndexRaises(goal) /\ Raise

PlanRound ==
  /\ pc = "planner" /\ goal.mode # "none" /\ ~IndexRaises(goal)
  /\ \E reading \in SensorReadings :
       LET sensed == Apply(world, reading) IN
       \E r \in CoreOutcomes(View(sensed), goal) :
         IF r.plan = NoPlan /\ MaxStuck > 0
           THEN /\ pc' = "stuck"
                /\ draft' = [sensed |-> sensed, world |-> View(sensed), goal |-> goal,
                             subgoal |-> r.subgoal, tries |-> 0]
                /\ UNCHANGED <<world, goal, subgoal, plan, step, status, replanCount,
                               blacklist, failures, explained, lastFailed, succeeded>>
           ELSE Return(r, sensed, goal) /\ Explain(r, goal)

\* No handler resolves: the last attempt's no_plan stands.
HandlersGiveUp ==
  /\ pc = "stuck"
  /\ LET r == [plan |-> NoPlan, subgoal |-> draft.subgoal]
     IN  Return(r, draft.sensed, goal) /\ Explain(r, draft.goal)

HandlerRaisesIndex ==
  /\ pc = "stuck"
  /\ \E g \in StuckGoals : IndexRaises(g)
  /\ Raise

\* Plausible bug: the iterations are not counted.
AskAgainUncounted(r, w, g) ==
  /\ draft' = [draft EXCEPT !.world = w, !.goal = g, !.subgoal = r.subgoal]
  /\ UNCHANGED <<pc, world, goal, subgoal, plan, step, status, replanCount,
                 blacklist, failures, explained, lastFailed, succeeded>>

\* Still no plan: the next handler is asked from the patched state.
AskAgain(r, w, g) ==
  /\ draft' = [draft EXCEPT !.world = w, !.goal = g, !.subgoal = r.subgoal,
                            !.tries = draft.tries + 1]
  /\ UNCHANGED <<pc, world, goal, subgoal, plan, step, status, replanCount,
                 blacklist, failures, explained, lastFailed, succeeded>>

\* A handler answers REPLAN: plan again from the patched copy of the state. A
\* plan found before the last iteration takes the patched world and goal along.
HandlerReplans ==
  /\ pc = "stuck"
  /\ \E update \in StuckUpdates, g \in {draft.goal} \cup StuckGoals :
       LET patched == Apply(draft.world, update)
           isLast == draft.tries + 1 = MaxStuck
       IN  /\ g.mode # "none" /\ ~IndexRaises(g)
           /\ \E r \in CoreOutcomes(patched, g) :
                \/ /\ r.plan # NoPlan /\ ~isLast
                   /\ Return(r, patched, g) /\ Explain(r, g)
                \/ /\ isLast
                   /\ Return(r, draft.sensed, goal) /\ Explain(r, g)
                \/ /\ r.plan = NoPlan /\ ~isLast
                   /\ AskAgain(r, patched, g)

Planner == PlanWithoutGoal \/ PlanRaises \/ PlanRound
Handlers == HandlersGiveUp \/ HandlerRaisesIndex \/ HandlerReplans
-----------------------------------------------------------------------------
(* The executor node. *)

HasActionLeft == plan # NoPlan /\ step < Len(plan.actions)

Current == plan.actions[step + 1]

\* Nothing to run: the planner found no plan, or the goal already holds.
NothingToDo == status = "no_plan" \/ (plan # NoPlan /\ Len(plan.actions) = 0)

SkipExecution ==
  /\ pc = "executor" /\ NothingToDo
  /\ pc' = "observer"
  /\ UNCHANGED <<world, goal, subgoal, plan, step, status, replanCount,
                 blacklist, failures, explained, lastFailed, succeeded, draft>>

NothingToExecute ==
  /\ pc = "executor" /\ ~NothingToDo /\ ~HasActionLeft
  /\ pc' = "observer" /\ status' = "error" /\ lastFailed' = NoAction
  /\ UNCHANGED <<world, goal, subgoal, plan, step, replanCount, blacklist,
                 failures, explained, succeeded, draft>>

Ready == pc = "executor" /\ ~NothingToDo /\ HasActionLeft

\* interrupt(): the run is suspended until a human resumes it.
AskHuman ==
  /\ Ready /\ Current \in NeedsApproval
  /\ pc' = "waiting"
  /\ UNCHANGED <<world, goal, subgoal, plan, step, status, replanCount,
                 blacklist, failures, explained, lastFailed, succeeded, draft>>

\* Past the guards and past the human. Resuming runs the node from its start.
Performing == (Ready /\ Current \notin NeedsApproval) \/ pc = "waiting"

\* Plausible bug: a failure leaves no record in the history.
FailUnrecorded ==
  /\ pc' = "observer" /\ status' = "action_failed"
  /\ UNCHANGED <<world, goal, subgoal, plan, step, replanCount, blacklist,
                 explained, lastFailed, succeeded, draft>>

\* A failed record for the current action; the world stays as it was.
Fail ==
  /\ pc' = "observer" /\ status' = "action_failed" /\ lastFailed' = Current
  /\ UNCHANGED <<world, goal, subgoal, plan, step, replanCount, blacklist,
                 explained, succeeded, draft>>

\* action_failure_counts = {action: max_retries + 1}, in place of the old dict.
PinFailures ==
  failures' = [a \in Actions |-> IF a = Current THEN MaxRetries[a] + 1 ELSE 0]

GuardBlocks ==
  /\ Ready \/ pc = "waiting"
  /\ Current \in Guarded
  /\ Fail /\ PinFailures

HumanDenies == pc = "waiting" /\ Fail /\ PinFailures

ActionRaises ==
  /\ Performing /\ Current \in Fallible
  /\ Fail /\ UNCHANGED failures

Rejects(a, after) == after \notin Accepts[a]

ValidatorRejects ==
  /\ Performing
  /\ \E update \in Outcomes[Current] : Rejects(Current, Apply(world, update))
  /\ Fail /\ UNCHANGED failures

ActionSucceeds ==
  /\ Performing
  /\ \E update \in Outcomes[Current] :
       /\ ~Rejects(Current, Apply(world, update))
       /\ world' = Apply(world, update)
  /\ step' = step + 1
  /\ succeeded' = succeeded \cup {Current}
  /\ pc' = "observer"
  /\ UNCHANGED <<goal, subgoal, plan, status, replanCount, blacklist, failures,
                 explained, lastFailed, draft>>

Executor ==
  \/ SkipExecution \/ NothingToExecute \/ AskHuman
  \/ GuardBlocks \/ HumanDenies
  \/ ActionRaises \/ ValidatorRejects \/ ActionSucceeds
-----------------------------------------------------------------------------
(* The observer node: its tests in the order of _route. *)

PastLastSubgoal == goal.mode \in {"sequential", "any"} /\ subgoal > Len(goal.goals)

Active == IF goal.mode = "single" THEN goal.goals[1] ELSE goal.goals[subgoal]

ActiveHolds == Satisfies(world, Active.conditions)

\* Plausible bug: off by one.
MoreAfterNext == goal.mode = "sequential" /\ subgoal + 1 < Len(goal.goals)

MoreSubgoals == goal.mode = "sequential" /\ subgoal < Len(goal.goals)

Observing == pc = "observer" /\ goal.mode # "none"

Finish(outcome) ==
  /\ pc' = "end" /\ status' = outcome
  /\ UNCHANGED <<world, goal, subgoal, plan, step, replanCount, blacklist,
                 failures, explained, lastFailed, succeeded, draft>>

GoTo(node) ==
  /\ pc' = node
  /\ UNCHANGED <<world, goal, subgoal, plan, step, status, replanCount,
                 blacklist, failures, explained, lastFailed, succeeded, draft>>

PolicyTerminates == pc = "observer" /\ MayTerminate /\ Finish("terminated")

GoalMissing == pc = "observer" /\ goal.mode = "none" /\ Finish("error")

\* Plausible bugs: a sub-goal's plan carried out is taken for the sub-goal
\* achieved; the replan count is carried into the next sub-goal.
AdvanceOnPlanDone ==
  /\ Observing /\ MoreSubgoals /\ (ActiveHolds \/ ~HasActionLeft)
  /\ pc' = "planner"
  /\ subgoal' = subgoal + 1
  /\ plan' = NoPlan /\ step' = 0
  /\ replanCount' = 0 /\ blacklist' = {} /\ failures' = NoFailures
  /\ UNCHANGED <<world, goal, status, explained, lastFailed, succeeded, draft>>

AdvanceKeepingCount ==
  /\ Observing /\ MoreSubgoals /\ ActiveHolds
  /\ pc' = "planner"
  /\ subgoal' = subgoal + 1
  /\ plan' = NoPlan /\ step' = 0
  /\ blacklist' = {} /\ failures' = NoFailures
  /\ UNCHANGED <<world, goal, status, replanCount, explained, lastFailed,
                 succeeded, draft>>

SubgoalAchieved ==
  /\ Observing /\ MoreSubgoals /\ ActiveHolds
  /\ pc' = "planner"
  /\ subgoal' = subgoal + 1
  /\ plan' = NoPlan /\ step' = 0
  /\ replanCount' = 0 /\ blacklist' = {} /\ failures' = NoFailures
  /\ UNCHANGED <<world, goal, status, explained, lastFailed, succeeded, draft>>

\* Plausible bug: a plan carried out is taken for a goal achieved.
PlanDoneIsAchieved ==
  /\ Observing
  /\ PastLastSubgoal \/ (~MoreSubgoals /\ ~HasActionLeft)
  /\ Finish("goal_achieved")

GoalAchieved ==
  /\ Observing
  /\ PastLastSubgoal \/ (ActiveHolds /\ ~MoreSubgoals)
  /\ Finish("goal_achieved")

Pursuing == Observing /\ ~PastLastSubgoal /\ ~ActiveHolds

OutOfReplans == Active.max_replans > 0 /\ replanCount >= Active.max_replans

\* Plausible bug: the limit is tested before the goal.
GiveUpFirst ==
  Observing /\ ~PastLastSubgoal /\ OutOfReplans /\ Finish("failed")

GiveUpReplanning == Pursuing /\ OutOfReplans /\ Finish("failed")

Undecided == Pursuing /\ ~OutOfReplans

\* Plausible bug: the planner's word is taken before the goal is tested.
NoPlanFirst == Observing /\ status = "no_plan" /\ Finish("no_plan")

NoPlanFound == Undecided /\ status = "no_plan" /\ Finish("no_plan")

AbandonAfterFailure ==
  /\ Undecided /\ status = "action_failed" /\ Active.strategy = "never"
  /\ Finish("failed")

\* Plausible bugs: one failure too late; missed when a count jumps past it.
ExhaustedLate(a, count) == count > MaxRetries[a] + 1
ExhaustedExactly(a, count) == count = MaxRetries[a] + 1

Exhausted(a, count) == count > MaxRetries[a]

\* One more failure of the action; past its retries it is blacklisted.
ReplanAfterFailure ==
  /\ Undecided /\ status = "action_failed" /\ Active.strategy # "never"
  /\ failures' = [failures EXCEPT ![lastFailed] = @ + 1]
  /\ blacklist' = IF Exhausted(lastFailed, failures'[lastFailed])
                    THEN blacklist \cup {lastFailed} ELSE blacklist
  /\ pc' = "planner"
  /\ UNCHANGED <<world, goal, subgoal, plan, step, status, replanCount,
                 explained, lastFailed, succeeded, draft>>

Advancing == Undecided /\ status \notin {"no_plan", "action_failed"}

ReplanEveryAction ==
  Advancing /\ Active.strategy = "every_action" /\ GoTo("planner")

\* Plausible bug: the state after the first action is not compared.
DeviatedLater ==
  /\ Active.strategy = "on_deviation" /\ plan # NoPlan
  /\ step > 1 /\ step \in DOMAIN plan.expected
  /\ \E k \in PlanningKeys(Active.conditions) : world[k] # plan.expected[step][k]

\* The world is not the one predicted after the last action of the plan.
Deviated ==
  /\ Active.strategy = "on_deviation" /\ plan # NoPlan
  /\ step \in DOMAIN plan.expected
  /\ \E k \in PlanningKeys(Active.conditions) : world[k] # plan.expected[step][k]

ReplanOnDeviation == Advancing /\ Deviated /\ GoTo("planner")

OnPlan == Advancing /\ Active.strategy # "every_action" /\ ~Deviated

ContinuePlan == OnPlan /\ HasActionLeft /\ GoTo("executor")

PlanExhausted == OnPlan /\ ~HasActionLeft /\ Active.strategy # "never" /\ GoTo("planner")

AbandonExhausted ==
  OnPlan /\ ~HasActionLeft /\ Active.strategy = "never" /\ Finish("failed")

Observer ==
  \/ PolicyTerminates \/ GoalMissing
  \/ SubgoalAchieved \/ GoalAchieved
  \/ GiveUpReplanning \/ NoPlanFound
  \/ AbandonAfterFailure \/ ReplanAfterFailure
  \/ ReplanEveryAction \/ ReplanOnDeviation
  \/ ContinuePlan \/ PlanExhausted \/ AbandonExhausted
-----------------------------------------------------------------------------
Finished == pc \in {"end", "raised"} /\ UNCHANGED vars

Next == Planner \/ Handlers \/ Executor \/ Observer \/ Finished

Spec == Init /\ [][Next]_vars

\* LangGraph keeps scheduling the next node. Nobody owes a suspended run an
\* answer, so a step out of "waiting" is not promised.
Progress == (pc # "waiting" /\ (Planner \/ Executor \/ Observer)) \/ Handlers

FairSpec == Spec /\ WF_vars(Progress)
-----------------------------------------------------------------------------
(* Invariants. *)

\* Types of the channels. A suspended run has an action to ask about, and the
\* status "action_failed" always comes with a failed record of a real action.
TypeOK ==
  /\ pc \in Places
  /\ world \in World
  /\ goal \in Goals
  /\ subgoal \in Nat \ {0}
  /\ plan \in Plan \cup {NoPlan}
  /\ step \in Nat
  /\ status \in Statuses
  /\ replanCount \in Nat
  /\ blacklist \subseteq Actions
  /\ failures \in [Actions -> Nat]
  /\ explained \in BOOLEAN
  /\ lastFailed \in Actions \cup {NoAction}
  /\ succeeded \subseteq Actions
  /\ draft \in [sensed : World, world : World, goal : Goals,
               subgoal : Nat \ {0}, tries : Nat]
  /\ pc = "waiting" => HasActionLeft
  /\ status = "action_failed" => lastFailed \in Actions

\* The executor tests no precondition (nodes/executor.py): that an action only
\* starts where its preconditions hold rests on the planner's simulation and on
\* the observer's comparison with expected_states after every earlier step.
PreconditionsHold ==
  pc \in {"executor", "waiting"} /\ HasActionLeft /\ Active.strategy # "never"
    => Satisfies(world, Pre[Current])

\* The plan being executed leads to the sub-goal the observer will test, though
\* index and plan are written by different nodes and skip, advance and reset.
PlanServesActiveGoal ==
  pc \in {"executor", "waiting"} /\ HasActionLeft
    => Satisfies(plan.expected[Len(plan.expected)], Active.conditions)

\* The executor is never handed a plan with a blacklisted action: falling back to
\* one clears the blacklist in the same planner step.
PlanAvoidsBlacklist ==
  pc \in {"executor", "waiting"} /\ plan # NoPlan
    => ActionsOf(plan) \cap blacklist = {}

\* When the planner runs, an action with more counted failures than its retries
\* is on the blacklist, however counts and blacklist were replaced or cleared.
ExhaustedAreBlacklisted ==
  pc = "planner" => \A a \in Actions : failures[a] > MaxRetries[a] => a \in blacklist

\* "goal_achieved" is reported only of a world the active goal holds in.
AchievedMeansSatisfied ==
  pc = "end" /\ status = "goal_achieved" => ~PastLastSubgoal /\ ActiveHolds

\* A run that reports no_plan had none: no blacklist and no record of a success
\* hides a plan, within the search's reach, for the goal it ended on.
NoPlanIsHonest ==
  pc = "end" /\ status = "no_plan" =>
    \A i \in IF goal.mode = "sequential" THEN {subgoal} ELSE DOMAIN goal.goals :
      \A p \in PlansOver(View(world), goal.goals[i].conditions, Actions) :
        ~InReach(View(world), Actions, p)

\* A run that reports no_plan carries the explanation of it (goals of mode "any"
\* never get one), although rounds that find a plan clear it again.
NoPlanIsExplained ==
  pc = "end" /\ status = "no_plan" /\ goal.mode # "any" => explained
-----------------------------------------------------------------------------
(* Action properties. *)

\* An action declared can_rerun=False that has succeeded is not run again.
SingleUseRunsOnce ==
  [][step' = step + 1 => Current \notin SingleUse \cap succeeded]_vars

\* Sequential sub-goals are left behind for good.
SubgoalsMoveForward ==
  [][goal.mode = "sequential" /\ goal' = goal => subgoal' >= subgoal]_vars
-----------------------------------------------------------------------------
(* Liveness. *)

\* With a replan budget, the loop neither spins nor stalls: it ends, unless it
\* stays suspended on a human who never answers.
Settles == <>[](pc \in {"end", "raised", "waiting"})

\* When some plan survives everything that can go wrong, the goal is reached.
GoalReached == <>(pc = "end" /\ status = "goal_achieved")
-----------------------------------------------------------------------------
(* The loop implements AgentRun. *)

HasActive == goal.mode # "none" /\ ~PastLastSubgoal

Run == INSTANCE AgentRun WITH
  outcome <- CASE pc = "end" -> status [] pc = "raised" -> "raised" [] OTHER -> "running",
  holds   <- HasActive /\ ActiveHolds,
  rounds  <- replanCount,
  budget  <- IF HasActive THEN Active.max_replans ELSE 0

\* Every step of planner, executor and observer is a step of the contract: at
\* most max_replans replans per goal, none forgotten, and a truthful outcome.
ImplementsAgentRun == Run!Spec
=============================================================================
