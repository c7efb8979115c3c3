----------------------------- MODULE GoapDomain -----------------------------
(***************************************************************************)
(* The planning domain every other module works on: world states, partial  *)
(* assignments (preconditions, effects, goal conditions), action           *)
(* specifications, and what the A* planner may return.                     *)
(*                                                                         *)
(* A world state is the flat dictionary of langgoap/state.py, seen as a    *)
(* total function on Keys that is Absent where the dictionary has no entry.*)
(* A partial assignment is the same function, Absent where it says nothing.*)
(*                                                                         *)
(* Costs are not modelled: the search is the set of plans it may return,   *)
(* whatever the costs, and it may return any of them.                      *)
(***************************************************************************)
EXTENDS Naturals, Sequences

CONSTANTS
  Keys,        \* keys of the world state
  Values,      \* values a key may hold
  Absent,      \* "no such key", or "not mentioned"
  Actions,     \* names of the registered ActionSpecs
  Pre,         \* ActionSpec.preconditions
  Eff,         \* ActionSpec.effects (static mappings)
  SingleUse,   \* actions declared can_rerun=False
  NoPlan,      \* Python's None, as a planner result
  MaxPlanLen   \* bound: longest plan the search may return

World == [Keys -> Values \cup {Absent}]

ASSUME DomainAssumption ==
  /\ Absent \notin Values
  /\ Pre \in [Actions -> World]
  /\ Eff \in [Actions -> World]
  /\ SingleUse \subseteq Actions
  /\ MaxPlanLen \in Nat
-----------------------------------------------------------------------------
(* World states and partial assignments. *)

Nothing == [k \in Keys |-> Absent]

Mentioned(c) == {k \in Keys : c[k] # Absent}

Satisfies(w, c) == \A k \in Mentioned(c) : w[k] = c[k]

Apply(w, e) == [k \in Keys |-> IF e[k] # Absent THEN e[k] ELSE w[k]]

ActionKeys == UNION {Mentioned(Pre[a]) \cup Mentioned(Eff[a]) : a \in Actions}

\* Plausible bug: comparing the goal's keys only.
GoalKeysOnly(conditions) == Mentioned(conditions)

\* The keys the observer compares when it looks for a deviation.
PlanningKeys(conditions) == Mentioned(conditions) \cup ActionKeys
-----------------------------------------------------------------------------
(* Plans. expected[i] is the state the planner predicts after actions[i]. *)

Plan == [actions : Seq(Actions), expected : Seq(World)]

ASSUME NoPlanAssumption == NoPlan \notin Plan

EmptyPlan == [actions |-> <<>>, expected |-> <<>>]

ActionsOf(p) == {p.actions[i] : i \in DOMAIN p.actions}

\* The state in which the i-th action of the plan is meant to run.
Before(start, p, i) == IF i = 1 THEN start ELSE p.expected[i - 1]

\* Where a plan begun in start leaves the world.
After(start, p) == Before(start, p, Len(p.actions) + 1)

\* _expand_neighbors: the next action is applicable, changes the state, and is
\* not a single-use action the path has used.
CanFollow(start, p, a) ==
  /\ Satisfies(After(start, p), Pre[a])
  /\ Apply(After(start, p), Eff[a]) # After(start, p)
  /\ a \in SingleUse => a \notin ActionsOf(p)

Extend(start, p, a) ==
  [actions  |-> Append(p.actions, a),
   expected |-> Append(p.expected, Apply(After(start, p), Eff[a]))]

\* The search tree below start, down to MaxPlanLen actions.
Paths(start, allowed) ==
  LET level[n \in 0 .. MaxPlanLen] ==
        IF n = 0 THEN {EmptyPlan}
        ELSE UNION {{Extend(start, p, a) : a \in {a \in allowed : CanFollow(start, p, a)}} :
                      p \in level[n - 1]}
  IN  UNION {level[n] : n \in 0 .. MaxPlanLen}

\* A non-empty sequence of allowed actions, each applicable where it stands and
\* each changing the state, that ends in a state with the goal conditions.
IsPlan(start, conditions, allowed, p) ==
  /\ p \in Plan
  /\ Len(p.actions) > 0
  /\ Len(p.expected) = Len(p.actions)
  /\ ActionsOf(p) \subseteq allowed
  /\ \A i \in 1 .. Len(p.actions) :
       /\ Satisfies(Before(start, p, i), Pre[p.actions[i]])
       /\ p.expected[i] = Apply(Before(start, p, i), Eff[p.actions[i]])
       /\ p.expected[i] # Before(start, p, i)
  /\ \A i, j \in 1 .. Len(p.actions) :
       p.actions[i] = p.actions[j] /\ p.actions[i] \in SingleUse => i = j
  /\ Satisfies(p.expected[Len(p.expected)], conditions)

PlansOver(start, conditions, allowed) ==
  {p \in Paths(start, allowed) : IsPlan(start, conditions, allowed, p)}

\* The search keeps one path per state. A plan is out of its reach when that path
\* has already spent a single-use action the plan needs from there on; it is in
\* reach when no path to the state spends it.
InReach(start, allowed, p) ==
  \A i \in 2 .. Len(p.actions) :
    p.actions[i] \in SingleUse =>
      \A q \in Paths(start, allowed) :
        After(start, q) = Before(start, p, i) => p.actions[i] \notin ActionsOf(q)

\* One run of the best-first search: some plan; possibly none, though there is
\* one, if every plan may be out of its reach.
SearchOutcomes(start, conditions, allowed) ==
  LET found == PlansOver(start, conditions, allowed)
  IN  found \cup
      (IF \E p \in found : InReach(start, allowed, p) THEN {} ELSE {NoPlan})

\* Plausible bug: no second search over the barred actions.
SearchAround(start, conditions, barred) ==
  IF Satisfies(start, conditions)
    THEN {EmptyPlan} ELSE SearchOutcomes(start, conditions, Actions \ barred)

\* astar.plan: nothing to do, else a plan around the barred actions, else, when
\* there is none, a plan over all actions, barred ones included.
Search(start, conditions, barred) ==
  IF Satisfies(start, conditions)
    THEN {EmptyPlan}
    ELSE LET around == SearchOutcomes(start, conditions, Actions \ barred)
         IN  (around \ {NoPlan}) \cup
             (IF NoPlan \in around
                THEN SearchOutcomes(start, conditions, Actions) ELSE {})
=============================================================================
