----------------------------- MODULE ParetoFront -----------------------------
(***************************************************************************)
(* pareto_plans of planner/csp.py: of a list of plans for a goal, those     *)
(* that no other admissible plan beats in the goal's objectives, the best   *)
(* in the first objective in front. The objectives are those of the goal,   *)
(* minimised or maximised; which of them comes first is part of the call.   *)
(***************************************************************************)
EXTENDS PlanningStrategies

CONSTANTS
  Batches,     \* lists of plans it may be given
  Frontiers    \* max_frontier: a number or Unbounded

ASSUME FrontAssumption ==
  /\ Batches \subseteq Seq(Plan)
  /\ Frontiers \subseteq Nat \cup {Unbounded}
  /\ NoPlan \notin Resources

VARIABLES
  request,     \* goal, first objective (NoPlan: none), plans, max_frontier
  row,         \* the plan whose row of comparisons is next; 0 when all is done
  dominated,   \* dominated: positions in request.plans
  front        \* positions of the plans returned, in their order

frontVars == <<request, row, dominated, front>>

Objectives(goal) == goal.minimise \cup goal.maximise

FrontInit ==
  /\ request \in [goal : Goals, first : Resources \cup {NoPlan}, plans : Batches,
                  most : Frontiers]
  /\ IF Objectives(request.goal) = {} THEN request.first = NoPlan
     ELSE request.first \in Objectives(request.goal)
  /\ row = 1 /\ dominated = {} /\ front = <<>>

\* _collect_feasible_plans: where they stand.
Feasible ==
  {i \in DOMAIN request.plans : Verdict(request.goal, request.plans[i]) # "infeasible"}

\* _dominates: as good in every objective and better in one.
NoWorse(p, q, r) ==
  IF r \in request.goal.minimise THEN Total(p, r) <= Total(q, r) ELSE Total(p, r) >= Total(q, r)

Dominates(p, q) ==
  /\ \A r \in Objectives(request.goal) : NoWorse(p, q, r)
  /\ \E r \in Objectives(request.goal) : ~NoWorse(q, p, r)

Beats(i, j) == Dominates(request.plans[i], request.plans[j])

\* Plausible bug: a plan is compared only with those before it.
BeatenByEarlier(i) == \E j \in Feasible : j < i /\ Beats(j, i)

\* One row of _pareto_frontier: plans found dominated are not compared with.
Beaten(i) == \E j \in Feasible \ (dominated \cup {i}) : Beats(j, i)

Compare ==
  /\ row \in DOMAIN request.plans /\ request.first # NoPlan
  /\ dominated' = IF row \in Feasible /\ Beaten(row) THEN dominated \cup {row} ELSE dominated
  /\ row' = row + 1
  /\ UNCHANGED <<request, front>>

\* The order of what is returned: by the first objective, or else by cost.
Precedes(p, q) == IF request.first = NoPlan THEN CostOf(p) <= CostOf(q)
                                            ELSE NoWorse(p, q, request.first)

Sorted(order) ==
  \A i, j \in DOMAIN order :
    i < j => Precedes(request.plans[order[i]], request.plans[order[j]])

\* The first max_frontier of them.
Kept(order) ==
  IF request.most = Unbounded \/ Len(order) <= request.most THEN order
  ELSE SubSeq(order, 1, request.most)

ReturnFront ==
  /\ row # 0 /\ (request.first # NoPlan => row \notin DOMAIN request.plans)
  /\ \E order \in Ext!SetToSeqs(Feasible \ dominated) : Sorted(order) /\ front' = Kept(order)
  /\ row' = 0
  /\ UNCHANGED <<request, dominated>>

FrontNext == Compare \/ ReturnFront

FrontSpec == FrontInit /\ [][FrontNext]_frontVars
-----------------------------------------------------------------------------
(* What is returned is the front, whatever the order of the plans and however   *)
(* many are not compared because they were beaten before: no admissible plan of  *)
(* the list dominates one that is returned, the best in the first objective      *)
(* come first, and a plan that is not returned is dominated by one that is, or   *)
(* the front is cut off and all it has is at least as good in that objective.    *)
FrontIsPareto ==
  row = 0 =>
    LET out == {request.plans[front[i]] : i \in DOMAIN front}
        admissible(p) == Limited(request.goal) = {} \/ MeetsHardLimits(request.goal, p)
        all == {p \in {request.plans[i] : i \in DOMAIN request.plans} : admissible(p)}
    IN  /\ out \subseteq all
        /\ \A p \in out, q \in all : ~Dominates(q, p)
        /\ Sorted(front)
        /\ \A q \in all \ out :
             IF Len(front) = request.most
               THEN \/ \E p \in all : Dominates(p, q)
                    \/ \A p \in out : Precedes(p, q)
               ELSE \E p \in out : Dominates(p, q)
=============================================================================
