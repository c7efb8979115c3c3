-------------------------- MODULE GoapDomainProofs --------------------------
(***************************************************************************)
(* What the operators of GoapDomain return, for every domain.              *)
(***************************************************************************)
EXTENDS GoapDomain, TLAPS

\* Applying effects to a world gives a world.
LEMMA ApplyType ==
  ASSUME NEW w \in World, NEW e \in World
  PROVE  Apply(w, e) \in World
BY DEF Apply, World

LEMMA NothingType == Nothing \in World
BY DEF Nothing, World

LEMMA EmptyPlanType == EmptyPlan \in Plan
BY DEF EmptyPlan, Plan

\* The preconditions of an action mention only keys the observer compares.
LEMMA PreKeysCompared ==
  ASSUME NEW a \in Actions, NEW conditions
  PROVE  Mentioned(Pre[a]) \subseteq PlanningKeys(conditions)
BY DEF PlanningKeys, ActionKeys

\* What a consumer of a found plan may rely on: its first action can start where
\* the plan was made, and each later one where its predecessor is predicted to end.
Chained(start, p) ==
  /\ Len(p.expected) = Len(p.actions)
  /\ Len(p.actions) > 0 => Satisfies(start, Pre[p.actions[1]])
  /\ \A i \in 1 .. Len(p.actions) : i > 1 => Satisfies(p.expected[i - 1], Pre[p.actions[i]])

\* A plan the search may return is a plan, and is chained from its start.
LEMMA FoundPlan ==
  ASSUME NEW start, NEW conditions, NEW allowed,
         NEW p \in PlansOver(start, conditions, allowed)
  PROVE  p \in Plan /\ Chained(start, p)
<1>1. IsPlan(start, conditions, allowed, p)
  BY DEF PlansOver
<1>2. p \in Plan /\ Len(p.actions) \in Nat
  BY <1>1 DEF IsPlan, Plan
<1>3. ASSUME NEW i \in 1 .. Len(p.actions)
      PROVE  Satisfies(Before(start, p, i), Pre[p.actions[i]])
  BY <1>1 DEF IsPlan
<1>4. Len(p.actions) > 0 => Satisfies(start, Pre[p.actions[1]])
  BY <1>2, <1>3 DEF Before
<1>5. ASSUME NEW i \in 1 .. Len(p.actions), i > 1
      PROVE  Satisfies(p.expected[i - 1], Pre[p.actions[i]])
  BY <1>2, <1>3, <1>5 DEF Before
<1>6. Len(p.expected) = Len(p.actions)
  BY <1>1 DEF IsPlan
<1> QED
  BY <1>2, <1>4, <1>5, <1>6 DEF Chained

\* The empty plan is chained from anywhere.
LEMMA EmptyPlanChained ==
  ASSUME NEW start
  PROVE  Chained(start, EmptyPlan)
<1>1. Len(EmptyPlan.actions) = 0 /\ Len(EmptyPlan.expected) = 0
  BY DEF EmptyPlan
<1> QED
  BY <1>1 DEF Chained

\* The planner's answer is None or a plan chained from the state it was asked in.
LEMMA SearchResult ==
  ASSUME NEW start, NEW conditions, NEW barred,
         NEW p \in Search(start, conditions, barred)
  PROVE  p = NoPlan \/ (p \in Plan /\ Chained(start, p))
<1>1. CASE p = EmptyPlan
  BY <1>1, EmptyPlanType, EmptyPlanChained
<1>2. CASE p # EmptyPlan
  <2>1. PICK allowed : p \in SearchOutcomes(start, conditions, allowed)
    BY <1>2 DEF Search
  <2>2. p = NoPlan \/ p \in PlansOver(start, conditions, allowed)
    BY <2>1 DEF SearchOutcomes
  <2> QED
    BY <2>2, FoundPlan
<1> QED
  BY <1>1, <1>2
=============================================================================
