----------------------------- MODULE AStarSearch -----------------------------
(***************************************************************************)
(* planner/astar.py in detail: the best-first search with its open list and *)
(* best-known costs, the second search over the barred actions, the         *)
(* deadline, and the two passes that shorten the path it finds. The planner *)
(* node relies on no more than GoapDomain's Search, which says in one       *)
(* formula what the search may return; SearchRefined ties the two.          *)
(*                                                                          *)
(* Effects are static mappings and every action has a fixed cost. Nodes of  *)
(* equal f are popped in any order. Of the successors that lead to one      *)
(* state only a cheapest is pushed: a costlier one the code pushed before   *)
(* it is popped after it, and skipped.                                      *)
(***************************************************************************)
EXTENDS GoapDomain, FiniteSets

CONSTANTS
  Costs,       \* what the actions may cost (ActionSpec.cost)
  Starts,      \* world states a search may be asked to begin in
  Aims         \* goal conditions it may be asked for

ASSUME AStarAssumption ==
  /\ Costs \subseteq [Actions -> Nat]
  /\ Starts \subseteq World
  /\ Aims \subseteq World

VARIABLES
  query,       \* the arguments of plan(): start, conditions, barred, cost
  phase,       \* attempt, search, prune, replay, done
  attempt,     \* 1: around the barred actions, 2: over all of them
  expired,     \* the deadline has passed
  open,        \* open_list: nodes, each a path and its cost
  bestG,       \* best_g: the least cost seen for each state seen
  raw,         \* the path of the goal node that was popped
  left,        \* actions of raw the backward pass has still to look at
  kept,        \* actions of raw it has kept
  needs,       \* needs[i]: what must hold before kept[i]; the last: the goal
  cursor,        \* next action of kept the forward pass looks at
  out,         \* what the forward pass has kept, with the states it leads to
  result

searchVars == <<query, phase, attempt, expired, open, bestG>>
passVars == <<raw, left, kept, needs, cursor, out>>
astarVars == <<searchVars, passVars, result>>

(* A set of facts <<key, value>> and whether a state has them all. *)
Facts(c) == {<<k, c[k]>> : k \in Mentioned(c)}
Holds(w, facts) == \A f \in facts : w[f[1]] = f[2]

Allowed == IF attempt = 1 THEN Actions \ query.barred ELSE Actions

(* _heuristic: goal conditions the state does not meet. *)
Unmet(w) == Cardinality({k \in Mentioned(query.conditions) : w[k] # query.conditions[k]})

\* Plausible bug: what already holds has to be producible, too.
ProducibleAnew ==
  \A k \in Mentioned(query.conditions) :
    \E a \in Allowed : Eff[a][k] = query.conditions[k]

(* _is_reachable: every unmet condition is an effect of some allowed action. *)
Producible ==
  \A k \in Mentioned(query.conditions) :
    query.start[k] = query.conditions[k]
      \/ \E a \in Allowed : Eff[a][k] = query.conditions[k]

Ends(n) == After(query.start, n.path)

Estimate(n) == n.g + Unmet(Ends(n))

Least == {n \in open : \A m \in open : Estimate(n) <= Estimate(m)}
-----------------------------------------------------------------------------
AStarInit ==
  /\ query \in [start : Starts, conditions : Aims, barred : SUBSET Actions, cost : Costs]
  /\ attempt = 1
  /\ expired = FALSE
  /\ open = {} /\ bestG = [w \in {} |-> 0]
  /\ raw = EmptyPlan /\ left = 0 /\ kept = <<>> /\ needs = <<>> /\ cursor = 1
  /\ out = EmptyPlan
  /\ IF Satisfies(query.start, query.conditions)
       THEN phase = "done" /\ result = EmptyPlan
       ELSE phase = "attempt" /\ result = NoPlan

(* _search returned no plan: once more over all actions if some were barred. *)
NothingFound ==
  /\ IF attempt = 1 /\ query.barred # {}
       THEN attempt' = 2 /\ phase' = "attempt"
       ELSE phase' = "done" /\ UNCHANGED attempt
  /\ open' = {} /\ UNCHANGED <<query, expired, bestG, passVars, result>>

NotReachable == phase = "attempt" /\ ~Producible /\ NothingFound

OpenRoot ==
  /\ phase = "attempt" /\ Producible
  /\ phase' = "search"
  /\ open' = {[path |-> EmptyPlan, g |-> 0]}
  /\ bestG' = [w \in {query.start} |-> 0]
  /\ UNCHANGED <<query, attempt, expired, passVars, result>>

(* time.monotonic() reaches the deadline, if there is one. *)
Expire ==
  /\ phase \in {"attempt", "search"} /\ ~expired
  /\ expired' = TRUE
  /\ UNCHANGED <<query, phase, attempt, open, bestG, passVars, result>>

(* best_complete is never assigned, so a search that runs out of time has none. *)
OutOfTime == phase = "search" /\ open # {} /\ expired /\ NothingFound

Exhausted == phase = "search" /\ open = {} /\ NothingFound

PopGoal ==
  /\ phase = "search" /\ ~expired
  /\ \E n \in Least :
       /\ Satisfies(Ends(n), query.conditions)
       /\ phase' = "prune"
       /\ raw' = n.path /\ left' = Len(n.path.actions)
       /\ kept' = <<>> /\ needs' = <<Facts(query.conditions)>>
  /\ UNCHANGED <<query, attempt, expired, open, bestG, cursor, out, result>>

PopStale ==
  /\ phase = "search" /\ ~expired
  /\ \E n \in Least :
       /\ ~Satisfies(Ends(n), query.conditions)
       /\ n.g > bestG[Ends(n)]
       /\ open' = open \ {n}
  /\ UNCHANGED <<query, phase, attempt, expired, bestG, passVars, result>>

(* Successors of n that are new or cheaper than the best path known to them. *)
Improving(n) ==
  {a \in Allowed :
     /\ CanFollow(query.start, n.path, a)
     /\ LET w == Apply(Ends(n), Eff[a])
        IN  w \in DOMAIN bestG => n.g + query.cost[a] < bestG[w]}

(* One cheapest action for every state the improving ones lead to. *)
OnePerState(n, chosen) ==
  LET to(a) == Apply(Ends(n), Eff[a])
  IN  /\ \A a \in Improving(n) : \E b \in chosen : to(b) = to(a) /\ query.cost[b] <= query.cost[a]
      /\ \A b, c \in chosen : to(b) = to(c) => b = c

PopAndExpand ==
  /\ phase = "search" /\ ~expired
  /\ \E n \in Least :
       /\ ~Satisfies(Ends(n), query.conditions)
       /\ n.g <= bestG[Ends(n)]
       /\ \E chosen \in SUBSET Improving(n) :
            LET to(a) == Apply(Ends(n), Eff[a])
                via(w) == CHOOSE a \in chosen : to(a) = w
                reached == {to(a) : a \in chosen}
            IN  /\ OnePerState(n, chosen)
                /\ open' = (open \ {n}) \cup
                     {[path |-> Extend(query.start, n.path, a), g |-> n.g + query.cost[a]] :
                        a \in chosen}
                /\ bestG' = [w \in DOMAIN bestG \cup reached |->
                               IF w \in reached THEN n.g + query.cost[via(w)] ELSE bestG[w]]
  /\ UNCHANGED <<query, phase, attempt, expired, passVars, result>>
-----------------------------------------------------------------------------
(* _backward_optimization, from the last action to the first: keep one that    *)
(* produces something needed, and need its preconditions instead.              *)

Needed == Head(needs)

KeepIt ==
  /\ phase = "prune" /\ left > 0
  /\ LET a == raw.actions[left]
     IN  /\ Facts(Eff[a]) \cap Needed # {}
         /\ kept' = <<a>> \o kept
         /\ needs' = <<(Needed \ Facts(Eff[a])) \cup Facts(Pre[a])>> \o needs
  /\ left' = left - 1
  /\ UNCHANGED <<searchVars, raw, cursor, out, result>>

LeaveOut ==
  /\ phase = "prune" /\ left > 0
  /\ Facts(Eff[raw.actions[left]]) \cap Needed = {}
  /\ left' = left - 1
  /\ UNCHANGED <<searchVars, raw, kept, needs, cursor, out, result>>

Pruned ==
  /\ phase = "prune" /\ left = 0
  /\ phase' = "replay" /\ cursor' = 1 /\ out' = EmptyPlan
  /\ UNCHANGED <<query, attempt, expired, open, bestG, raw, left, kept, needs, result>>

(* _forward_optimization: replay what was kept, without the actions whose      *)
(* effects already hold.                                                        *)
Redundant(a) == Holds(After(query.start, out), Facts(Eff[a]))

Replay ==
  /\ phase = "replay" /\ cursor <= Len(kept)
  /\ out' = IF Redundant(kept[cursor]) THEN out ELSE Extend(query.start, out, kept[cursor])
  /\ cursor' = cursor + 1
  /\ UNCHANGED <<searchVars, raw, left, kept, needs, result>>

(* The states a sequence of actions leads to, whether or not it may be run. *)
Simulated(start, acts) ==
  LET state[i \in 0 .. Len(acts)] ==
        IF i = 0 THEN start ELSE Apply(state[i - 1], Eff[acts[i]])
  IN  [i \in 1 .. Len(acts) |-> state[i]]

(* The goal still holds at the end of the replay; if not, the pruned path as it *)
(* was. _build_plan_from_node then predicts the states.                         *)
Finish ==
  /\ phase = "replay" /\ cursor > Len(kept)
  /\ phase' = "done"
  /\ result' = IF Satisfies(After(query.start, out), query.conditions) THEN out
               ELSE [actions |-> kept, expected |-> Simulated(query.start, kept)]
  /\ UNCHANGED <<query, attempt, expired, open, bestG, passVars>>

AStarNext ==
  \/ NotReachable \/ OpenRoot \/ Expire \/ OutOfTime \/ Exhausted
  \/ PopGoal \/ PopStale \/ PopAndExpand
  \/ KeepIt \/ LeaveOut \/ Pruned \/ Replay \/ Finish

AStarSpec == AStarInit /\ [][AStarNext]_astarVars
-----------------------------------------------------------------------------
(* Whatever the costs, the order of equal nodes and the shortening: what the   *)
(* search answers is what the planner node counts on, GoapDomain's Search; a   *)
(* search stopped by the deadline may also answer that there is no plan.       *)
SearchRefined ==
  phase = "done" =>
    result \in Search(query.start, query.conditions, query.barred)
                 \cup (IF expired THEN {NoPlan} ELSE {})
=============================================================================
