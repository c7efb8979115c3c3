------------------------------ MODULE TreeSearch ------------------------------
(***************************************************************************)
(* MCTSStrategy of planner/mcts.py: repeated calls of plan() on one strategy *)
(* object, which may carry a subtree over from one call to the next, and     *)
(* advance(), by which the caller says what it did and saw in between.       *)
(*                                                                          *)
(* A node is the path to it from the root: the actions and the states they   *)
(* led to. In the tree for a stochastic model a chance node stands between   *)
(* an action and its outcomes; it holds no more than the paths through it,   *)
(* so both trees are one function here. Rewards, visit counts and their      *)
(* decay are left out: selection may follow any child, the terminal with the *)
(* most visits is any of them, but the root, visited by every iteration,     *)
(* before all others.                                                        *)
(***************************************************************************)
EXTENDS GoapDomain, FiniteSets

CONSTANTS
  Outcomes,    \* effects the transition model may sample for an action
  StepCost,    \* ActionSpec.cost
  NoBudget,    \* path_length_budget=None
  Settings,    \* [sampled, reuse, fallback, budget]: how the strategy is set up
  TreeStarts, TreeAims, TreeBars,  \* arguments plan() may be given
  Iterations,  \* MCTSExploration.iterations
  MaxCalls     \* bound: calls of plan()

ASSUME TreeAssumption ==
  /\ Outcomes \in [Actions -> SUBSET World]
  /\ \A a \in Actions : Eff[a] \in Outcomes[a]
  /\ StepCost \in [Actions -> Nat]
  /\ \A s \in Settings : {s.sampled, s.reuse, s.fallback} \subseteq BOOLEAN
  /\ \A s \in Settings : s.budget = NoBudget \/ s.budget \in Nat
  /\ TreeStarts \subseteq World /\ TreeAims \subseteq World
  /\ NoPlan \notin TreeAims
  /\ TreeBars \subseteq SUBSET Actions
  /\ Iterations \in Nat /\ MaxCalls \in Nat

VARIABLES
  setting,    \* the strategy's configuration
  call,       \* arguments of the current call
  top,        \* state of the root, and the action that led to it if it was carried
  nodes,      \* the tree below _last_root: path -> untried actions, is_terminal
  carried,    \* _carryover_root: the first step of a path in nodes, or NoPlan
  budget,     \* iterations left in the call
  returned,   \* what plan() returned last
  calls,      \* calls so far
  grown       \* audit: aims and actions of the calls that grew the tree

treeVars == <<setting, call, top, nodes, carried, budget, returned, calls, grown>>

Idle == call.aim = NoPlan

FirstOf(path) == path[1]
Upto(path, i) == SubSeq(path, 1, i)

StateAt(path) == IF path = <<>> THEN top.state ELSE path[Len(path)].to

Kids(path) == {n \in DOMAIN nodes : Len(n) = Len(path) + 1 /\ Upto(n, Len(path)) = path}

\* _applicable_actions of those not blacklisted, and is_terminal.
Fresh(state) ==
  [untried  |-> {a \in Actions \ call.barred : Satisfies(state, Pre[a])},
   terminal |-> Satisfies(state, call.aim)]

\* The transition model: one expected outcome, or any it may sample.
Results(state, a) ==
  {Apply(state, e) : e \in IF setting.sampled THEN Outcomes[a] ELSE {Eff[a]}}

\* _path_cost: a root that was carried over still counts the action that led to
\* it, although it has no parent any more.
PathCost(path) ==
  LET cost[i \in 0 .. Len(path)] ==
        IF i = 0 THEN (IF top.by = NoPlan THEN 0 ELSE StepCost[top.by])
        ELSE cost[i - 1] + StepCost[path[i].by]
  IN  cost[Len(path)]

OverBudget(path) == setting.budget # NoBudget /\ PathCost(path) >= setting.budget
-----------------------------------------------------------------------------
TreeInit ==
  /\ setting \in Settings
  /\ call = [aim |-> NoPlan, start |-> Nothing, barred |-> {}]
  /\ top = [state |-> Nothing, by |-> NoPlan]
  /\ nodes = [n \in {} |-> 0]
  /\ carried = NoPlan
  /\ budget = 0
  /\ returned = NoPlan
  /\ calls = 0
  /\ grown = [aims |-> {}, actions |-> {}]

\* Plausible bug: the carried tree is taken whatever state the call starts in.
TakenAnyway(start) == setting.reuse /\ carried # NoPlan

\* The carried tree is used if it begins where the call does.
Reusable(start) == setting.reuse /\ carried # NoPlan /\ carried.to = start

\* The subtree below a step from the root.
Subtree(step) ==
  [n \in {SubSeq(m, 2, Len(m)) : m \in {m \in DOMAIN nodes : m # <<>> /\ FirstOf(m) = step}} |->
     nodes[<<step>> \o n]]

\* The call returns at once, and keeps the tree and what was carried over.
PlanNothing(start, aim) ==
  /\ Idle /\ calls < MaxCalls
  /\ Satisfies(start, aim)
  /\ returned' = EmptyPlan
  /\ calls' = calls + 1
  /\ UNCHANGED <<setting, call, top, nodes, carried, budget, grown>>

BeginPlan(start, aim, barred) ==
  /\ Idle /\ calls < MaxCalls
  /\ ~Satisfies(start, aim)
  /\ call' = [aim |-> aim, start |-> start, barred |-> barred]
  /\ IF Reusable(start)
       THEN /\ top' = [state |-> carried.to, by |-> carried.by]
            /\ nodes' = Subtree(carried)
            /\ grown' = [aims |-> grown.aims \cup {aim},
                         actions |-> grown.actions \cup (Actions \ barred)]
       ELSE /\ top' = [state |-> start, by |-> NoPlan]
            /\ nodes' = [n \in {<<>>} |->
                 [untried  |-> {a \in Actions \ barred : Satisfies(start, Pre[a])},
                  terminal |-> FALSE]]
            /\ grown' = [aims |-> {aim}, actions |-> Actions \ barred]
  /\ carried' = NoPlan
  /\ budget' = Iterations
  /\ calls' = calls + 1
  /\ UNCHANGED <<setting, returned>>
-----------------------------------------------------------------------------
(* One iteration: select, expand. *)

\* Selection goes no further. Below a goal only the stochastic one stops.
Stops(path) ==
  \/ nodes[path].untried # {}
  \/ Kids(path) = {}
  \/ OverBudget(path)
  \/ setting.sampled /\ nodes[path].terminal

Passed(path) == \A i \in 0 .. Len(path) - 1 : ~Stops(Upto(path, i))

Selected == {n \in DOMAIN nodes : Stops(n) /\ Passed(n)}

\* What the chance nodes below a node may sample.
OutcomesBelow(path) ==
  UNION {{Append(path, [by |-> a, to |-> w]) : w \in Results(StateAt(path), a)} :
           a \in {k[Len(k)].by : k \in Kids(path)}}

\* A chance node samples an outcome: a node is added for one it has not seen.
Sampled ==
  UNION {OutcomesBelow(n) :
           n \in {n \in DOMAIN nodes : setting.sampled /\ Passed(n) /\ ~Stops(n)}}

With(tree, path) ==
  [n \in DOMAIN tree \cup {path} |-> IF n = path THEN Fresh(StateAt(path)) ELSE tree[n]]

\* _expand: what may become of the tree when this node is expanded.
Expanded(tree, path) ==
  IF Satisfies(StateAt(path), call.aim) THEN {[tree EXCEPT ![path].terminal = TRUE]}
  ELSE IF tree[path].untried = {} \/ OverBudget(path) THEN {tree}
  ELSE UNION {{With([tree EXCEPT ![path].untried = @ \ {a}],
                    Append(path, [by |-> a, to |-> w])) : w \in Results(StateAt(path), a)} :
                a \in tree[path].untried}

Iterate ==
  /\ ~Idle /\ budget > 0
  /\ budget' = budget - 1
  /\ \/ \E n \in Selected : nodes' \in Expanded(nodes, n)
     \/ \E n \in Sampled \ DOMAIN nodes : nodes' \in Expanded(With(nodes, n), n)
  /\ UNCHANGED <<setting, call, top, carried, returned, calls, grown>>
-----------------------------------------------------------------------------
(* _extract_plan, when the iterations or the time are used up. *)

PlanTo(path) ==
  [actions  |-> [i \in DOMAIN path |-> path[i].by],
   expected |-> [i \in DOMAIN path |-> path[i].to]]

Terminals ==
  LET all == {n \in DOMAIN nodes : nodes[n].terminal}
  IN  IF <<>> \in all THEN {<<>>} ELSE all

\* Where the descent along the most visited children may end.
Descents == {n \in DOMAIN nodes : Kids(n) = {}}

Extract ==
  /\ ~Idle
  /\ IF Terminals # {} THEN \E n \in Terminals : returned' = PlanTo(n)
     ELSE IF setting.fallback /\ Kids(<<>>) # {} THEN \E n \in Descents : returned' = PlanTo(n)
     ELSE returned' = NoPlan
  /\ call' = [call EXCEPT !.aim = NoPlan]
  /\ budget' = 0
  /\ UNCHANGED <<setting, top, nodes, carried, calls, grown>>

\* advance: the caller did an action and saw a state; the child for the two, if
\* there is one, is carried over to the next call.
Advance ==
  /\ Idle /\ nodes # [n \in {} |-> 0]
  /\ \/ \E n \in Kids(<<>>) : carried' = FirstOf(n)
     \/ carried' = NoPlan
  /\ UNCHANGED <<setting, call, top, nodes, budget, returned, calls, grown>>

TreeNext ==
  \/ \E start \in TreeStarts, aim \in TreeAims :
       \/ PlanNothing(start, aim)
       \/ \E barred \in TreeBars : BeginPlan(start, aim, barred)
  \/ Iterate
  \/ Extract
  \/ Advance

TreeSpec == TreeInit /\ [][TreeNext]_treeVars
-----------------------------------------------------------------------------
\* What the first n of these actions cost, on top of something.
Spent(already, actions, n) ==
  LET sum[i \in 0 .. n] == IF i = 0 THEN already ELSE sum[i - 1] + StepCost[actions[i]]
  IN  sum[n]

(* A plan taken from the tree can be followed from the state the call began in: *)
(* every action is applicable, allowed in some call that grew the tree, and      *)
(* leads to an outcome of its own; what goes before it costs less than the path  *)
(* length budget, with the action that led to a root that was carried over       *)
(* (mcts.py:839). Unless it is a fallback it ends in a state some call that grew *)
(* the tree aimed at. (Neither "allowed now" nor "the goal of this call" would   *)
(* be true: mcts.py:541 takes the tree over as it is; but a root made afresh     *)
(* forgets the calls before it.)                                                 *)
TreePlansHold ==
  Idle /\ returned \notin {NoPlan, EmptyPlan} =>
    LET p == returned
        led == IF top.by = NoPlan THEN 0 ELSE StepCost[top.by]
    IN  /\ \A i \in DOMAIN p.actions :
             LET a == p.actions[i]
                 before == Before(call.start, p, i)
             IN  /\ Satisfies(before, Pre[a])
                 /\ p.expected[i] \in Results(before, a)
                 /\ a \in grown.actions
                 /\ setting.budget # NoBudget => Spent(led, p.actions, i - 1) < setting.budget
        /\ \/ setting.fallback
           \/ \E aim \in grown.aims : Satisfies(After(call.start, p), aim)
=============================================================================
