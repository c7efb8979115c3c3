# LangGOAP in TLA+

LangGOAP turns a goal, a set of actions with preconditions and effects, and a
world state into a LangGraph graph that plans, acts, observes and replans until
the goal holds or there is a reason to stop. These modules specify that program:
what its nodes do to the channels of `GoapState`, what a caller may rely on, and
what can go wrong in between. TLC checks the specifications on small instances;
TLAPS proves their safety properties for every instance.

- [The system](#the-system)
- [Modules and how they correspond to the code](#modules-and-how-they-correspond-to-the-code)
- [Runs](#runs)
- [Bounds](#bounds)
- [Fairness](#fairness)
- [Proofs](#proofs)
- [Where code and documentation part](#where-code-and-documentation-part)
- [Not modelled](#not-modelled)
- [Possible extensions](#possible-extensions)

Paths are relative to `src/langgoap/` unless they say otherwise.

## The system

```
            goal, world_state
                   |
                   v
  sensors -->  planner  <-- resolvers, stuck handlers
                 |  ^
          plan   |  | replan: failure, deviation, every action, plan used up,
                 v  |         next sub-goal
  guards --> executor  <-- human approval, action, validator
                 |  ^
                 v  | next action of the plan
               observer  --> END: goal_achieved | failed | no_plan | error | terminated
                 ^
                 '-- termination policies
```

| Component | State it keeps | Operations | What makes it correct |
|---|---|---|---|
| **Domain** (`state.py`, `goals.py`, `actions.py`, `planner/types.py`) | none: immutable values | `satisfies`, `apply`, applicability, goal selection | a plan's expected states follow from its effects |
| **A\* planner** (`planner/astar.py`) | one search's open and closed sets | `plan`, `_search`, backward and forward optimisation | a returned plan leads from start to goal; a plan is not missed |
| **Planner node** (`graph/nodes/planner.py`) | `plan`, `current_step`, `replan_count`, `current_subgoal_index`, `blacklisted_actions`, `action_failure_counts`, `no_plan_explanation` | one planner round; sub-goal selection; stuck recovery | index and plan belong together; a plan that reuses barred actions clears the blacklist |
| **Executor node** (`graph/nodes/executor.py`, `_execution.py`) | `world_state`, `current_step`, `status`, `execution_history` | one action: guards, approval, QoS, validation, effects | the action can start; failure leaves the world alone |
| **Observer node** (`graph/nodes/observer.py`) | `current_subgoal_index`, `blacklisted_actions`, `action_failure_counts`, `status` | routing, in a fixed order of tests | a truthful outcome; bounded replanning; a broken action is put out of the way |
| **Checkpointed thread** (`graph/builder.py`) | all channels, between invocations | `compile`, `invoke`, resume | what one run leaves behind does not mislead the next |
| **Stuck handlers** (`stuck.py`) | none | `handle_stuck`, multicast | patched world and goal reach the plan's execution |
| **Sensors, resolvers** (`sensors.py`, `conditions.py`) | none | `sense`, `resolve` | what was planned with is what is executed in |
| **Guards, approval** (`guards.py`, `_execution.py`) | none | check, block, warn; approve or deny | a blocked action does not run and is not tried again |
| **Termination policies** (`termination.py`) | clock, usage | `should_terminate` | final |
| **Parallel wave executor** (`graph/nodes/parallel_executor.py`) | as the executor | a wave of independent actions, sync and async | no update lost, no action skipped or repeated |
| **Action QoS** (`qos.py`) | attempts | timeout, retry with backoff | the number of attempts |
| **CSP and two-phase pipeline** (`planner/csp.py`, `planner/pipeline.py`, `constraints.py`, `planner/metrics.py`) | one solve | dependency graph, schedule, choice among candidates, Pareto front | the schedule respects dependencies; the choice is feasible |
| **Execution history** (`history.py`) | a store: records and bounded index lists | `record`, `query_by_goal`, `query_failures` | index and records agree; newest first |
| **MCTS** (`planner/mcts.py`, `planner/transitions.py`) | search tree, subtree carried over | select, expand, roll out, back up, advance the root | a plan taken from the tree can be followed |
| **Repair, anytime, lazy, utility, router** (`planner/repair.py`, `strategy.py`, `utility.py`, `router.py`, `agents.py`) | none | wrap another strategy | the wrapped strategy's contract |
| **Reflexion, interpreter** (`reflexion.py`, `interpreter.py`) | bounded reflections in a store | reflect, load, persist; text to goal | no reflection lost |
| **Tracing** (`tracing/`, `callbacks.py`) | a bounded event buffer; token counts | notify; flush | never in the way of a run |
| **Serialisation** (`serde.py`), **scores** (`score.py`), **explanations** (`planner/explain.py`) | none | encode; compare; report | data properties |
| **Integrations, CLI, visualisation** (`integrations/`, `cli/`, `viz/`) | none | adapters and output | - |

How the parts interact: the three nodes never call each other. They share the
channels of `GoapState` (`graph/state.py:51-117`); LangGraph runs one node,
commits what it returned, and runs the node the graph's edges or the observer's
`Command` name. A channel a node does not return keeps its value, and
only `execution_history` has a reducer (it is appended to); every other channel
is replaced. What happens inside a planner round (sensors, resolvers, stuck
handlers) and inside an executor round (guards, a human, the action, its
validator) are calls of user code that may answer anything their interface
allows.

The hard behaviours: three nodes writing the same bookkeeping channels;
failures, deviations, sub-goals and handlers that all lead back to the planner;
a search that falls back on what it was told to avoid; values that exist in the
planner's copy of the state only; a suspended executor that starts over when it
is resumed; a thread that carries twelve channels into the next invocation; members of a
wave that work on copies of one world; recorders and tracers that read, wait and
write back what others write, too; a search tree carried over to a call with
another goal.
`PROJECT.json` lists the hazards with the line where each bites.

## Modules and how they correspond to the code

### `GoapDomain`: states, goals, actions, plans

A world state is a function from `Keys` to `Values` or `Absent`; a goal's
conditions, an action's preconditions and effects and a sensor's reading are the
same kind of function, where `Absent` means "not mentioned". `Satisfies` is
`PlanningState.satisfies`, `Apply` is `PlanningState.apply`.

The A\* search is specified by what it may return. `Paths(start, allowed)` are
the action sequences that can be carried out from `start`, and `PlansOver` those
that end in the goal, each with the `expected` states the search stores along
the way. `Search` returns one of them, first around the barred actions and, when
that finds nothing, over all actions (`astar.py:498-513`). Costs are left out,
so every plan that some costs would make the cheapest may be returned. One
detail of the search does matter: it keeps one path per state
(`astar.py:395-402`) although with single-use actions the actions already used
decide what is still possible. `InReach` says which plans are certain to survive
that, and `Search` may return no plan when only others exist.

Costs, soft goals, constraints, callable goals and effects computed at run time
are abstracted. An action's execution is not bound to its declared effects: the
constant `Outcomes` says what each may really do.

### `GoapLoop`: the compiled graph

The variables are the channels that decide where a run goes, `pc` is the node
LangGraph runs next. The constants are everything user code may answer.

| Variable | Channel |
|---|---|
| `world`, `goal`, `plan`, `step`, `status` | `world_state`, `goal`, `plan`, `current_step`, `status` |
| `subgoal` | `current_subgoal_index`, from 1 |
| `replanCount`, `blacklist`, `failures` | `replan_count`, `blacklisted_actions`, `action_failure_counts` |
| `explained` | whether `no_plan_explanation` is set |
| `lastFailed`, `succeeded` | what is read of `execution_history` |
| `draft` | locals of `_plan_with_stuck_recovery` while a handler is asked |

| Actions | Code |
|---|---|
| `PlanWithoutGoal`, `PlanRaises`, `PlanRound` | `GoapPlanner.__call__` and `_plan_core`, with sensors and resolvers |
| `HandlersGiveUp`, `HandlerRaisesIndex`, `HandlerReplans` | `_plan_with_stuck_recovery` |
| `SkipExecution`, `NothingToExecute` | `_prepare_execution` |
| `AskHuman`, `HumanDenies` | `_check_human_approval` and its `interrupt()` |
| `GuardBlocks` | `_build_guard_block` |
| `ActionRaises`, `ValidatorRejects`, `ActionSucceeds` | `GoapExecutor.__call__`, `_build_failure`, `_build_success` |
| `PolicyTerminates` ... `AbandonExhausted` | the branches of `GoapObserver._route`, in its order |

Each node is one atomic step, as LangGraph commits one super-step at a time. Two
nodes are cut where somebody outside the graph answers: `stuck` between two
questions to stuck handlers, `waiting` while a human is asked. A resumed
executor runs from its start, so from `waiting` the guards are run once more
before the action.

The planner's three ways with a goal (`SingleOutcomes`, `SequentialOutcomes`,
`AnyOutcomes`) are sets of records `[plan, subgoal]`; `Return` writes one of
them to the channels with everything `_plan_core` does on the way: counting the
replan, resetting the step, clearing blacklist and counts when the plan reuses a
barred action, setting or clearing the explanation.

### `AgentRun`: what a caller may rely on

The contract of one invocation in four variables: how the run ended, whether the
active goal holds, the replanning rounds spent on it and its budget. At most
`max_replans` rounds per goal; the count starts again only when a goal has been
reached; the outcome is decided once, is `goal_achieved` only if the active goal
holds then, is never `failed` or `no_plan` if it does, and is final. `GoapLoop`
implements it under the mapping `Run` (`ImplementsAgentRun`).

### `GoapAudit`: an independent record

`GoapLoop` with three history variables that record what happened: the sub-goals
that ever held, the replanning rounds spent on the current sub-goal, the
failures of each action. The loop's own counters are channels that several nodes
replace or clear; the audit says what they ought to have counted.

### `GoapThread`: one thread, several invocations

`GoapGraph.invoke` writes `goal` and `world_state`; all other channels are what
the last run on the thread left, finished, raised or suspended. `Invoke` is that
step.

### `WaveLoop`: the parallel executor

`GoapLoop`'s planner and observer with the executor of
`graph/nodes/parallel_executor.py` in the middle. `Wave` is
`_find_parallel_group` over the dependency graph of `csp.py` (`DependsOn`: the
closest producer of each precondition). `StartWave` gives each member the world
it starts from; a member is blocked, denied, asks a human, returns (`done` or
`rejected`) or raises and is retried as its `ActionQos` says, on the dictionary
the failed attempt wrote to. `WaveAborts` and `WaveCommits` are the two ways the
node returns. The variable `entry` says how the graph is run: by `invoke` the
members run one after another on one dictionary, by `ainvoke` concurrently on
copies of their own, merged in plan order (`Merged`).

Faults: `Crash` loses everything a node has not returned yet; `MemberAsks` does
the same, as `interrupt()` leaves the node, and the answer is known when it runs
again. Five variables are audits that restrict nothing: `done` and `refused` are the steps of
the plan that were really carried out and those carried out but rejected; `ran` is what was
carried out since the node was last left half-way, and `again` what was then carried out once
more; `smooth` says whether everything so far went as declared.

### `AStarSearch`: the search in detail

`planner/astar.py` step by step: `NotReachable` (the quick test for producible
conditions), `PopGoal`, `PopStale`, `PopAndExpand` over an open list of paths and
the best cost per state, `Expire` and `OutOfTime` for the deadline,
`NothingFound` for the second search over the barred actions; then
`KeepIt`/`LeaveOut` (the backward pass), `Replay` and `Finish` (the forward pass
and its fallback). Costs are arbitrary, so the heuristic need not be admissible.
`SearchRefined` ties it to `GoapDomain!Search`, which is all the loop knows of it.

### `PlanningStrategies`, `ParetoFront`: around the search

One call of a strategy: the router, the two-phase pipeline (`FindPrimary`,
`TryWithout`, `ChooseAlternative`), repair (`KeepAction`, `PlanSuffix`), lazy
decomposition, the wall-clock wrapper, utility, refinement. An A\* search is one
step. Resource amounts are integers in a unit `Grain` times finer than the
solver's, so that what the code's `int(amount * scale)` cuts off is in the model;
the solver itself returns any best plan its constraints admit (`Selectable`,
`Badness`). `Conflicting` is the greedy reduction of `explain_infeasibility`,
`HardScore` the hard level of the score.

`ParetoFront` is `pareto_plans`: the comparisons row by row, with the plans found
dominated so far left out of them, then sorting and cutting off. Plans are named by their
positions in the list, so a plan that is in it twice is compared with itself.

### `TreeSearch`: MCTS over several calls

`MCTSStrategy` with its two kinds of tree (deterministic, and with chance nodes),
`plan` called again and again with other states, goals and barred actions, and
`advance` in between, which may carry a subtree over. A node is its path. Visit
counts, rewards and rollouts only decide which child is selected; here any may be.

### `ExecutionHistory`, `Reflections`, `TraceRuns`: what runs leave behind

`ExecutionHistory` cuts `record` at every call to the store: put the record, then
read and write back each index list. Runs overlap anywhere, and `BreakOff` is a
store that raises or a process that dies at any of these points. The outcome of a record
is what `_outcome_from_status` makes of the status a run ended with (`OutcomeOf`); a run that
was `terminated` has none and records nothing. `unseen` and `lost` are audits of the race on a
list: who wrote it since a run read it, and whom a writer had therefore not seen. A reflection
tracer (`Reflections`) loads once, remembers, and writes its whole list under a
key it shares with all others; loads and writes are in flight while nodes of
other runs go on, may fail, and land in any order; `Restart` is a new process.
`TraceRuns` is `LangSmithTracer` with `SearchEventBuffer`: hooks in the order the
graph calls them, uploads that may fail. `partial` is its audit: the roots that ended with
events missing at the service, and how many.

### The `MC...` modules

`MCDelivery` is the instance the loop's runs share: fetch data or take the cached
copy (usable once), write a draft, send it. `MCGoapLoop`, `MCGoapAudit` and
`MCGoapThread` put it together with the specification to be checked. `MCWaves`
has two actions that can run side by side and a third that needs one of them.
`MCRecords` explores the three record keepers, and `MCStrategies` the four
planners, side by side in one run each: they share no state, so an initial choice
(`part`, `planner`) says which one moves.

## Runs

| Run | Situation | What it shows |
|---|---|---|
| `loop_single` | a single goal under each replan strategy, or none; actions raise, do nothing, use up data; a guard, a human, a validator; sensors; termination | actions start only where they can, no blacklisted action is handed to the executor, counts and blacklist agree, the run settles and keeps the contract |
| `loop_multi` | a sequential goal of three sub-goals; a goal of mode any with different strategies and budgets | success means every sub-goal held; each has its own budget; retries are counted right; the plan executed is the one for the sub-goal tested; contract |
| `loop_stuck` | a sensor withdraws data and draft; handlers patch the world and replace the goal, twice per round | the loop settles; `goal_achieved` is true; `no_plan` is true and explained; contract |
| `loop_recovers` | fetching never works; every initial world, every kind of goal | the goal is reached |
| `loop_thread` | one invocation after another with different goals, earlier ones possibly raised or suspended | nothing left behind misleads the second run: preconditions, plan and sub-goal agree, a single-use action runs once |
| `wave` | the parallel executor, invoked and awaited; failures with leftovers and retries, a block, a denial, a rejection, interrupts, one crash | members find their preconditions, no step is counted that was not done and none is done again without cause, invoked waves follow the plan, lost effects are done again, the run settles |
| `records` | three runs on one store, with two goals, two actions and four ways to end; two tracers on one key, three plans through one search buffer | indexes name what belongs and nothing finished is lost but to the accepted race; lists are in order; every event is accounted for |
| `strategies` | every strategy, a domain with two single-use actions, actions that undo, two resources, sets of barred actions | A\* answers as the loop counts on; plans of every strategy run from where they were asked for and hold a barred action only where they must; what is said of a plan is true; the front is one; plans from the tree can be followed |
| `claim_retries` | a guard blocks one action while another keeps failing | *violated*: more than `max_retries + 1` failures |
| `claim_resolver` | a resolver answers for an absent key | *violated*: the action starts without its precondition |
| `claim_new_goal` | the last allowed stuck iteration finds a plan for the handler's goal | *violated*: `goal_achieved` of a goal that never held |
| `claim_wave` | two actions side by side, each doing what it declares, a key known to be false | *violated*: the merge loses the first one's effect |

The properties that need a word:

- **PreconditionsHold.** The executor does not test preconditions. That an action
  starts only where it can rests on the planner's simulation and the observer's
  comparison with `expected_states`, for every interleaving of success, no-op,
  failure, suspension and sensor. Strategy `never` is excepted: it asks for no
  comparison.
- **PlanServesActiveGoal.** Index and plan are written by different nodes
  (skip, advance, re-decision of mode any, stale index of the last run).
- **ExhaustedAreBlacklisted.** Counts are incremented by the observer, replaced by
  the executor, cleared by the planner and on sub-goal advance.
- **NoPlanIsHonest.** A run that ends in `no_plan` had no plan over *all* actions:
  the blacklist never is the reason. Plans that need two single-use actions in a
  certain order are beyond the search's one path per state and are excepted
  through `InReach`.
- **SubgoalOwnBudget, EverySubgoalReached** hold while every sub-goal stays
  feasible; see [below](#where-code-and-documentation-part) for what happens when
  one is skipped.
- **Settles** is the absence of livelock: failure, deviation, replan-every-action
  and plan exhaustion all lead back to the planner, and only `max_replans` stops
  them.
- **GoalReached.** Blacklisting after `max_retries + 1` failures happens within
  the replan budget, the next plan avoids the action, and nothing else ends the
  run first.
- **MembersReady.** No member of a wave tests its preconditions. Awaited, all start
  from one snapshot: that it has what each of them needs rests on the dependency
  graph, the plan's chain and the observer's comparison after the last wave.
- **StepsWereDone** relates the step counter to what was really carried out, over
  aborted waves, interrupts and crashes. Invoked, it allows steps whose result a validator
  rejected, and no others, to be counted (`parallel_executor.py:210`). It also says that no
  action of a plan is carried out a second time, unless an interrupt or a crash left the node
  half-way after the first: then its members do run again (`parallel_executor.py:191`).
- **LostEffectsAreRedone.** The merge may lose an effect (`claim_wave`); then the
  world differs from the plan's prediction, the observer replans, and the goal is
  reached all the same, as long as actions do what they declare.
- **FinishedAreFound** excepts exactly the records lost to the race the module's docstring
  accepts: those of runs that wrote a list between the read and the write of another. The other
  records of that list, those read by the writer and those that came after it, stay.
- **RemembersOwn** excepts the reflections a tracer made while its load was on its way, if
  the load came back with a list: `_loaded` is set before the read is awaited. What it
  makes afterwards it remembers, whatever other tracers write.
- **EndedRootsAreWhole** allows the root of a replan to lack events, because `on_replan` does
  not flush, but fewer than a batch; every other root lacks some only if its last upload failed.
- **SearchRefined** is a refinement stated on results: with any costs, any order of
  equal nodes, with or without deadline, the answer is one of `Search`'s.
- **StrategyPlansRun** joins what a strategy pieced together to the state the caller
  gave. A single-use action is in a plan once; only a repaired plan may use it once more, in
  what repair adds to a prefix that has used it (`repair.py:116`).
- **BarredOnlyIfForced.** A barred action is in a plan only because the search had no plan
  around it: from the caller's state; for a repaired plan, from where the kept prefix leads; for
  an alternative, around one more action of the primary plan. The one exception is the kept
  prefix itself, which repair does not test for barred actions (`repair.py:101`).
- **VerdictIsHonest** is about what is said of a plan: status, score and
  explanation, with the solver's cut-off amounts in between. "Optimal" can only be true to
  within `Slack`: less than one unit of the solver, or two where the amounts lie on both
  sides of zero, as `int()` cuts off towards zero from either side.
- **TreePlansHold** is what remains true of a plan from a carried-over tree: every
  action applicable, allowed in *some* call that grew the tree, within the budget
  (with the cost of the action that led to a root that was carried over, `mcts.py:839`), and
  ending in *some* such call's goal. "Allowed now" and "the goal of this call" are not true of
  it; but only calls since the tree was last begun afresh count.

`CHECK_DEADLOCK` is on in the loop's and the wave runs: a run that is over stutters
through `Finished`; everything else always has a next step. It is off in `records`
and `strategies`, where a call that has returned and a bounded set of recorders
really stop.

Some definitions in `GoapDomain` and `GoapLoop` are introduced by a comment
"plausible bug". They are the definition after them with one mistake; each
property was seen to fail when one of them takes the place of the real one.

## Bounds

- *Domain:* three keys, two values, four actions. Two actions provide the same
  fact, one of them single-use, so there is an alternative and it can run out; one
  chain of three actions, so a plan has a middle; an effect that removes another
  action's precondition.
- `MaxPlanLen = 3`: the longest plan worth having in that domain. `Paths` is cut
  off there; no longer plan is ever the only one.
- `max_replans` 2 to 4, `max_retries` 0 and 1: enough for a failure, a second one,
  blacklisting and a plan around it, and small enough that the limit is hit in
  every run.
- `MaxStuck` 0 to 2: none, one ask, a further ask from the patched state.
- `MaxCarried = 3` (a bound of the model, in the guard of `Invoke`): a thread is invoked
  as long as the `replan_count` it carries is below it. That is one more than the
  smallest budget, so an invocation may start with the budget already spent; the
  theorems for threads do without the bound.
- The counters need no bound: `replan_count` is limited by `max_replans`, the
  failure counts by the rounds.

- *Waves:* three actions, so a wave of two and one after it; two attempts; one crash,
  which may come at any point of any wave (`MaxCrashes`, a bound of the model).
- *Records:* three runs, two goals, two actions, index lists of two, plans that use an
  action twice, two actions or none: a list overflows, two pushes can overlap while a third
  comes in between, and records of one goal or action could get into the list of another.
  `MaxMade = 4` reflections with room for two, `MaxWrites = 2` in flight;
  `MaxSeen = 4` events with one kept expansion and batches of two; `MaxRoots = 3`.
  Runs and goals are interchangeable (symmetry); no liveness is checked there.
- *Strategies:* five actions, among them one that undoes another's effect and a
  shortcut, two of them single-use; three sets of barred actions, one with a shortcut and one
  with both single-use ones, so that each exception of `BarredOnlyIfForced` and of
  `StrategyPlansRun` is met; two cost functions, one with free actions; five aims; eleven goals
  with hard and soft limits, some between two whole units of the solver (`Grain = 2`).
  Lists for the Pareto front have up to three plans, one for each amount that plans
  come to. Trees grow for three iterations in each of two calls (`MaxCalls`).

The goals, worlds and outcomes of a run are chosen per run for the situation in
the table; the larger parameters are split over the runs so that each finishes
in seconds.

## Fairness

`FairSpec` asks for weak fairness of `Progress`: the graph's next node runs, and a
handler that was asked answers. LangGraph's loop schedules the next node as long as there is
one, and handlers are synchronous calls. Nothing is promised while a run is
`waiting`: a human may never answer, and `Settles` counts that as settled. No
outcome is favoured: an action that may fail may fail for ever. `GoalReached`
therefore is checked where only `fetch` can fail and always does.

`FairWaveSpec` asks the same of the wave graph: planner and observer run, a wave is
started, its members move and the node returns; that is what the event loop does.
Neither a human's answer nor a crash is owed. The record keepers and the planners have
safety properties only.

## Proofs

`GoapDomainProofs` has the lemmas about the domain: types of `Apply` and of plans,
and what a search result is. `PlansOver` describes plans without recursion, by the
sequence of expected states, so that the chain *state, action applicable, effects
applied, next state* is a fact about each index and no induction over the plan is
needed (lemmas `FoundPlan`, `Chained`, `SearchResult`).

`GoapLoopProofs` proves, for every domain, every goal, every configuration and
without any of the bounds above except `MaxPlanLen` being a number:

| Theorem | States | Inductive invariant |
|---|---|---|
| `TypeCorrect` | `Spec => []TypeOK` | `TypeOK` itself, once it says that a suspended run has an action to ask about and that `action_failed` comes with a record |
| `BlacklistAvoided` | `Spec => []PlanAvoidsBlacklist` | `PlanIsClean`: the plan is clean while the observer holds it too. `PlanAvoidsBlacklist` itself is not inductive, as the observer sends a run back to the executor |
| `PreconditionsGuaranteed` | `Spec => []PreconditionsHold`, given `MaxStuck = 0` and `Resolved = Nothing` | `ReadyInv`: every later action of the plan can start in the state its predecessor is expected to leave, and an observer that has an action left to hand on has seen one carried out. Then the observer's comparison of the world with `expected_states`, over keys that include all those of the preconditions, gives the next precondition |

`GoapThreadProofs` carries all three over to a thread invoked any number of times
(`ThreadTypeCorrect`, `ThreadBlacklistAvoided`, `ThreadPreconditions`, for `ThreadSpec`): an
invocation keeps `TypeOK`, `PlanIsClean` and `ReadyInv`, whatever the last run left.
`ThreadPlanServes` (`PlanServesActiveGoal`, for `StuckGoals = {}`) does not assume, as `PlanServes`
below can, that the index is within the goal: an inherited one may be past it, but then the planner
makes no plan (`ServeInv`, lemma `OutcomeReaches`). `SingleUseOnce` is about the whole thread:
a single-use action succeeds once. `OnceInv` says that what is left of the plan uses no
single-use action that has succeeded and none twice; planning keeps it because the spent ones are
barred, as long as there are `WaysAround` them.

`GoapGoalProofs` has what the loop promises its caller. All of it but `RetriesExhausted` is
proved for `StuckGoals = {}`: a goal put in by a handler is what `claim_new_goal` shows to go
wrong.

| Theorem | States | Argument |
|---|---|---|
| `RetriesExhausted` | `ExhaustedAreBlacklisted` | `Counted`: every writer of the counts either blacklists at once or hands a failure to the observer that does. For every configuration, but not over a thread: a run that ends on a denied action leaves its pinned count behind and the blacklist without it |
| `PlanServes` | `PlanServesActiveGoal` | index and plan are written together by `Return`, and by the observer only when it throws the plan away |
| `AchievedIsTrue` | `AchievedMeansSatisfied` | the index never points past the sub-goals while a run is on |
| `IndexMovesForward` | `SubgoalsMoveForward` | the planner starts looking at the index it is given |
| `LoopImplementsAgentRun` | `ImplementsAgentRun` | initial states map to initial states, every action to a step of `AgentRun` or a stutter |
| `NoPlanExplained`, `NoPlanHonest` | `NoPlanIsExplained`, `NoPlanIsHonest` | the latter also without handlers and resolvers, whose answers only the planner's copy of the world has |
| `SubgoalsAreReached` | `EverySubgoalReached` | `ReachedInv`: every sub-goal the index has passed held once. Where each sub-goal is `Attainable` the planner passes one only because it holds |
| `SubgoalsHaveOwnBudget` | `SubgoalOwnBudget` | `BudgetInv`: `replanCount` never exceeds the rounds the audit counted for the current sub-goal. It is cleared on every advance by the observer; the planner advances without clearing it only when the sub-goal already holds, which it does not when a replan is due |
| `RetriesHonoured` | `RetriesAreHonoured` | `RetriesInv`: the loop's counts are the audit's, but for the one failure the observer is about to count. It will count it: the goal is still open in a world in which an action was begun |

`PlannerProofs` proves the search and the strategies around it sound. `AStarSound`:
whatever is answered is a sequence of applicable actions from the start to the goal. The
invariant of the backward pass says that `needs[i]`, established before `kept[i]`,
suffices for everything from there on; that of the forward pass says that the replayed
state always has what is needed next, because leaving out an action without effect changes
nothing. `FallbackIsDead` follows: the forward pass never needs the path it would fall
back on.

The other half, that the search misses nothing, is `SearchIsRefined` (`SearchRefined`): the
search in detail implements the `Search` the loop's modules use. `SearchInv` says that every
state in `bestG` either waits in the open list at its best cost or was expanded on a path
all of whose successors are known, and that no node's path passes through a state known to
be dearer than the node, so no path meets a state twice. When the open list is
empty, the states a plan in reach passes through are therefore known one after the other, and
the last one would have been popped as a goal (`ExhaustedIsDead`). `RefineInv` carries this over
the second attempt and the two passes. `Search` is cut off at `MaxPlanLen`, the code is not, so
the theorem assumes `SimpleWalksFit`: no walk through distinct states is longer than that. Lemma
`LongEnough` shows that a bound of one less than the number of world states always is enough.
In the domain of `strategies` a bound of 5 is; the run uses 3 to stay small, and its property
holds there, too.

The rest of `PlannerProofs`, none of which assumes anything beyond the constants' types:

| Theorem | States | Inductive invariant |
|---|---|---|
| `StrategiesSound` | `StrategyPlansRun` | `StrategyInv`: the pipeline's primary plan and alternatives solve the caller's problem, and repair's prefix runs from the caller's state, so a suffix found from where the prefix leads can be joined to it; no stretch of a plan (`KeepsAStretch`) uses a single-use action twice |
| `BarredForced` | `BarredOnlyIfForced` | `BarsInv`: what the primary plan, the alternatives and the answer hold of the barred actions, each with the search that was forced to it |
| `TreePlansSound` | `TreePlansHold` | `TreeInv`: every node's path can be followed from the tree's root at the cost the tree adds up, within the budget, by actions and aims of calls that grew the tree. Carrying a subtree over drops the first step of every path in it |
| `FrontSound` | `FrontIsPareto` | `FrontInv`: the plans left out of later comparisons are dominated, and every plan dominated in a row already compared is known to be. That a comparison left out would have told nothing new is transitivity of domination and its being well-founded on finitely many plans |
| `VerdictsHonest` | `VerdictIsHonest` | `VerdictInv`: when alternatives are looked for, the primary plan was found infeasible. The bulk are lemmas about `int()`: it keeps amounts in order and sums of whole units to within a unit, so what the solver takes to be within the limits is, to within `Slack`; and the reduction of `explain_infeasibility` ends in limits none of which can be spared |

`WaveProofs` is about `WaveLoop`, for every domain and number of crashes.
`WaveTypeCorrect`, `CountedStepsWereDone`, `MembersFindPreconditions` and
`WavesFollowPlan`. The second rests on `StepsInv`: steps before the wave were carried out,
members that are back say so truly, and whatever ran since the node was last left half-way
is counted or a member that is back, so nothing that ran lies ahead. The third rests on
lemma `FreeIsReady`, the soundness of the dependency graph: if no earlier member of the
wave is the closest producer of any precondition of a member, then, the plan being one
that runs, the state before the wave has those preconditions already. The fourth
(`InvokedWavesFollowPlan`) says a commit of an invoked wave leaves the predicted world;
its invariant `FollowInv` follows the members one by one: those done left what was
predicted, the others stand where those lead, and, as no key ever disappears, the merge is
the last member's world. Both assume `MaxStuck = 0` and `Resolved = Nothing`, as
`PreconditionsGuaranteed` does.

`RecordsProofs` (`IndexNamesWhatBelongs`, `ListsAreInOrder`, `FinishedFound`) and
`TracerProofs` (`NothingUnaccounted`, `RootsEndWhole`, `ListsAreAscending`,
`OwnAreRemembered`) hold for any number of runs, tracers, events and roots and any limits.
That lists stay in order though updates are lost rests on one fact: what a run read is a
list of ids that were pushed in that order, and stays one, whatever is pushed meanwhile.
`FinishedFound` (`FinishedAreFound`) rests on `FoundInv`: a run no writer of a list has
missed is kept in the list, and in what every other run has read of it and is about to
write back, unless that one has missed it. `OwnAreRemembered` (`RemembersOwn`) rests on
`OwnInv`: a tracer makes nothing before its load sets out (`before` is always 0), so a
list the load comes back with costs it just what it made meanwhile.

### What the theorems assume

A premise that is a value of a constant is one that a run shows to be needed:
`claim_resolver` for `Resolved = Nothing`, `claim_retries` for `Guarded = {}`,
`claim_new_goal` for `StuckGoals = {}`, and for `MaxStuck = 0` the plan of a last stuck
iteration, which is made for a world that is then dropped. Premises about the domain:

| Premise | Says | Where it holds |
|---|---|---|
| `Attainable` | from every world, around every set of barred actions, the search has an answer for every sub-goal | `loop_multi` |
| `SensorsAchieveNothing` | a pass over the sensors never makes a sub-goal hold | `loop_multi` |
| `WaysAround` | from every world, what a thread may bar leaves a plan to every goal | `loop_thread` without failures, denials and approvals; the run itself shows the property with them |
| `SimpleWalksFit` | `MaxPlanLen` cuts off no walk through distinct states | `strategies` with `MaxPlanLen = 5` |

Without `Attainable` a skipped sub-goal may be reported achieved; without `WaysAround` the second
search plans a spent single-use action again (both are listed
[below](#where-code-and-documentation-part)).

### Recursive definitions

Path costs, sums over a plan, folds over limits and the levels of `Paths` are functions
defined by recursion on a number. What they compute is proved by induction on *sets*:
lemma `SetInduction` (from `LeastNumber`, that every inhabited set of numbers has a least
element) says that a set which has 0 and with each number the next one has them all, and is
used for sets such as `{n \in Nat : n <= Len(p.actions) => ...}`. That the recursive function
exists is part of the induction (`CountExists`, `LevelsExist`).

### Model-checked only

The liveness properties `Settles`, `GoalReached` and `LostEffectsAreRedone`: liveness under
fairness is outside what the proof system does. Of the safety properties the runs check each is
stated by a theorem, some under hypotheses that a run goes beyond: `loop_stuck` checks with
handlers that bring goals of their own what is proved without such goals
(`AchievedMeansSatisfied`, `ImplementsAgentRun`, `NoPlanIsExplained`) or without handlers
(`NoPlanIsHonest`), and `loop_thread` checks `SingleUseRunsOnce` where actions fail and are denied.

## Where code and documentation part

Four divergences are refuted by a run and quoted under `findings` in
`PROJECT.json`: `claim_retries`, `claim_resolver`, `claim_new_goal` and `claim_wave`.
More were met while modelling. The model follows the code in all of them; the properties
above are stated for the cases they leave.

- The last stuck iteration keeps neither the recovered world nor the goal
  (`graph/nodes/planner.py:375` against its docstring 323-332). `claim_new_goal`
  shows the goal's half.
- A best-effort skip of a sub-goal keeps `replan_count` (`planner.py:445` against
  `graph/state.py:70-72`).
- A sequential sub-goal without a plan is skipped and the run may still report
  `goal_achieved` (`planner.py:257` against `goals.py:313-317`).
- When no plan avoids it, a single-use action that already succeeded is planned
  again (`planner/astar.py:506` against the README's "must never repeat", line 230).
- A goal of mode any gets no `no_plan_explanation` (`planner.py:453` against
  `graph/state.py:90-92`).
- A second invocation on a thread starts with the first one's `replan_count` and
  sub-goal index (`graph/builder.py:266` against `graph/state.py:69-70`), and may
  raise an `IndexError`.
- `Goal.priority` is not used by the planner (`goals.py:106-109`).
- Invoked, a wave keeps the effects of an action its validator rejected and counts it
  as done (`parallel_executor.py:210`); the single executor rolls it back.
- A concurrent wave with one failure returns that failure alone: what the others did is
  in neither the world nor the history (`parallel_executor.py:296`).
- The A\* heuristic is called admissible (`astar.py:60`), but counts conditions, of
  which one action may meet several, at a cost that may be below one: the path found
  need not be the cheapest.
- `best_complete`, "best complete plan seen (anytime support)" (`astar.py:271`), is never
  assigned: past its deadline a search has no plan.
- `AnytimePlanningStrategy` leaves a thread pool that waits for its worker
  (`strategy.py:308`), so the caller waits for the search, and then gets no plan.
- A repaired plan may contain the action that was just blacklisted (`repair.py:101`) and
  use a single-use action twice (`repair.py:116`).
- The explanation of an infeasible plan names one violated limit when there are several
  (`explain.py:165`, "conflicting constraints that together cause infeasibility",
  line 59): relaxing it does not make the plan feasible.
- The optimiser truncates amounts and limits with `int()`, towards zero (`csp.py:584`, 634): a plan
  called optimal may miss a hard limit by up to one unit, around zero by up to two.
- `explain_no_plan` counts a key as true if its value is truthy (`explain.py:285`): a
  condition that asks for `False` and holds may be listed as unreachable.
- A schedule orders an action after the closest producers of what it needs, not before
  an action that undoes it (`csp.py:438`). Nothing executes by the schedule.
- `RandomRollout` tests the state the rollout began in, not the one it has reached, at the
  head of its loop (`mcts.py:258`).
- MCTS and the utility strategy do not look at `can_rerun` (`mcts.py:152`).
- A hard limit of weight 0 that is missed leaves the score feasible (`pipeline.py:81`).

## Not modelled

`PROJECT.json` gives the reason for every component that is not, or only partly,
modelled. In short:

- **Data without control.** Serialisation, scores beyond the hard level, explanations'
  wording, records' contents, visualisation, the command line. They keep no state and
  decide nothing; a unit test reaches what a model would.
- **One call and no state.** The natural-language interpreter, the integrations, hierarchical
  agents (an action that runs another graph), the logging and forwarding tracers.
- **Numbers.** Rewards, visit counts and their decay in MCTS; quality metrics, soft
  goals and schedules in the optimiser; backoff times, token and time accounting. The
  models let the choice they would make be any; a termination policy may fire at any
  observer round. How good a plan is therefore is not covered, except for limits and
  the Pareto front.
- **Effects computed at run time** and callable goals, costs and conditions: `Outcomes`
  lets an action do anything, but the planners' models have static effects.
- **The solver, the checkpoint store, the tracing service and the language model** are
  external, and modelled by what the code relies on: a best admissible choice, what was
  committed, a call that may fail, any answer.
- The async twins of planner, executor and observer have the same control as the
  sync ones; the wave executor's differ, and both are modelled.

The examples, tutorials and benchmarks of the repository are applications of the
library and are not modelled.

## Possible extensions

Theorems for the properties `loop_stuck` checks with the goals handlers may bring there.
Composing the loop with repair or tree search as its strategy, where the blacklist is not
respected; visit counts and values in the tree.
