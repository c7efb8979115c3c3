----------------------------- MODULE PlannerProofs ----------------------------
(***************************************************************************)
(* That what the planners answer with can be carried out, and what is said  *)
(* of it: for every domain, every cost, every set of barred actions and     *)
(* every order of equal nodes.                                              *)
(*                                                                          *)
(* The search. The two passes that shorten a path keep it a plan: what the  *)
(* backward pass leaves out was needed by nothing after it, and the forward *)
(* pass can replay what it keeps, so its fallback is never taken.           *)
(* The strategies. A suffix found from where a prefix leads continues it.   *)
(* The tree. A node's path can be followed, at the cost the tree adds up.   *)
(* The front. What a dominated plan dominates, a plan not dominated does.   *)
(* The verdicts. Truncating keeps amounts in order, to within a unit.       *)
(* The search again, at the end: it overlooks nothing, so its answers are   *)
(* those of GoapDomain's Search.                                            *)
(***************************************************************************)
EXTENDS AStarSearch, ParetoFront, TreeSearch, GoapDomainProofs, SequenceTheorems,
        FiniteSetTheorems, WellFoundedInduction
-----------------------------------------------------------------------------
(* Walks: paths of the search, wherever they lead. *)

Walk(start, allowed, p) ==
  /\ p \in Plan
  /\ Len(p.expected) = Len(p.actions)
  /\ ActionsOf(p) \subseteq allowed
  /\ \A i \in 1 .. Len(p.actions) :
       /\ Satisfies(Before(start, p, i), Pre[p.actions[i]])
       /\ p.expected[i] = Apply(Before(start, p, i), Eff[p.actions[i]])
       /\ p.expected[i] # Before(start, p, i)
  /\ \A i, j \in 1 .. Len(p.actions) :
       p.actions[i] = p.actions[j] /\ p.actions[i] \in SingleUse => i = j

LEMMA EmptyWalk ==
  ASSUME NEW start, NEW allowed
  PROVE  Walk(start, allowed, EmptyPlan) /\ After(start, EmptyPlan) = start
<1>1. /\ EmptyPlan.actions = <<>> /\ EmptyPlan.expected = <<>>
      /\ Len(EmptyPlan.actions) = 0 /\ Len(EmptyPlan.expected) = 0
  BY DEF EmptyPlan
<1>2. ActionsOf(EmptyPlan) = {}
  BY <1>1 DEF ActionsOf
<1> QED
  BY <1>1, <1>2, EmptyPlanType DEF Walk, After, Before

\* The states before and after each action of a walk are worlds.
LEMMA WalkStates ==
  ASSUME NEW start \in World, NEW p \in Plan, Len(p.expected) = Len(p.actions)
  PROVE  /\ Len(p.actions) \in Nat
         /\ \A i \in 1 .. Len(p.actions) + 1 : Before(start, p, i) \in World
         /\ After(start, p) \in World
<1>1. Len(p.actions) \in Nat /\ p.expected \in Seq(World)
  BY DEF Plan
<1>2. ASSUME NEW i \in 1 .. Len(p.actions) + 1
      PROVE  Before(start, p, i) \in World
  <2>1. i # 1 => i - 1 \in 1 .. Len(p.expected)
    BY <1>1
  <2> QED
    BY <1>1, <2>1 DEF Before
<1> QED
  BY <1>1, <1>2 DEF After

LEMMA WalkExtends ==
  ASSUME NEW start \in World, NEW allowed, allowed \subseteq Actions, NEW p,
         Walk(start, allowed, p), NEW a \in allowed, CanFollow(start, p, a)
  PROVE  /\ Walk(start, allowed, Extend(start, p, a))
         /\ After(start, Extend(start, p, a)) = Apply(After(start, p), Eff[a])
         /\ ActionsOf(Extend(start, p, a)) = ActionsOf(p) \cup {a}
<1> DEFINE q == Extend(start, p, a)
           n == Len(p.actions)
<1>1. /\ p \in Plan /\ n \in Nat /\ Len(p.expected) = n
      /\ p.actions \in Seq(Actions) /\ p.expected \in Seq(World)
      /\ a \in Actions
  BY WalkStates DEF Walk, Plan
<1>2. After(start, p) \in World /\ Apply(After(start, p), Eff[a]) \in World
  BY <1>1, WalkStates, ApplyType, DomainAssumption
<1>3. /\ q.actions = Append(p.actions, a)
      /\ q.expected = Append(p.expected, Apply(After(start, p), Eff[a]))
  BY DEF Extend
<1>4. /\ Len(q.actions) = n + 1 /\ Len(q.expected) = n + 1
      /\ \A i \in 1 .. n : q.actions[i] = p.actions[i] /\ q.expected[i] = p.expected[i]
      /\ q.actions[n + 1] = a /\ q.expected[n + 1] = Apply(After(start, p), Eff[a])
      /\ q.actions \in Seq(Actions) /\ q.expected \in Seq(World)
      /\ DOMAIN q.actions = 1 .. n + 1 /\ DOMAIN p.actions = 1 .. n
  BY <1>1, <1>2, <1>3
<1> HIDE DEF q, n
<1>5. q \in Plan
  BY <1>4 DEF Plan, q, Extend
<1>6. ASSUME NEW i \in 1 .. n + 1
      PROVE  Before(start, q, i) = Before(start, p, i)
  <2>1. i # 1 => i - 1 \in 1 .. n
    BY <1>1
  <2>2. i # 1 => q.expected[i - 1] = p.expected[i - 1]
    BY <1>4, <2>1
  <2> QED
    BY <2>2 DEF Before
<1>7. Before(start, q, n + 1) = After(start, p)
  BY <1>1, <1>6 DEF After, n
<1>8. ActionsOf(q) = ActionsOf(p) \cup {a}
  <2>1. \A i \in 1 .. n + 1 : i \in 1 .. n \/ i = n + 1
    BY <1>1
  <2>2. 1 .. n \subseteq 1 .. n + 1 /\ n + 1 \in 1 .. n + 1
    BY <1>1
  <2>3. ActionsOf(q) = {q.actions[i] : i \in 1 .. n + 1}
        /\ ActionsOf(p) = {p.actions[i] : i \in 1 .. n}
    BY <1>4 DEF ActionsOf
  <2> QED
    BY <1>4, <2>1, <2>2, <2>3
<1>9. ASSUME NEW i \in 1 .. n + 1
      PROVE  /\ Satisfies(Before(start, q, i), Pre[q.actions[i]])
             /\ q.expected[i] = Apply(Before(start, q, i), Eff[q.actions[i]])
             /\ q.expected[i] # Before(start, q, i)
  <2>1. CASE i \in 1 .. n
    BY <1>4, <1>6, <2>1 DEF Walk, n
  <2>2. CASE i = n + 1
    BY <1>4, <1>7, <2>2 DEF CanFollow
  <2> QED
    BY <1>1, <2>1, <2>2
<1>10. ASSUME NEW i \in 1 .. n + 1, NEW j \in 1 .. n + 1,
              q.actions[i] = q.actions[j], q.actions[i] \in SingleUse
       PROVE  i = j
  <2>1. CASE i \in 1 .. n /\ j \in 1 .. n
    BY <1>4, <1>10, <2>1 DEF Walk, n
  <2>2. ASSUME NEW k \in 1 .. n, a \in SingleUse
        PROVE  p.actions[k] # a
    BY <1>4, <2>2 DEF CanFollow, ActionsOf
  <2>3. CASE i = n + 1 /\ j \in 1 .. n
    BY <1>4, <1>10, <2>2, <2>3
  <2>4. CASE j = n + 1 /\ i \in 1 .. n
    BY <1>4, <1>10, <2>2, <2>4
  <2> QED
    BY <1>1, <2>1, <2>3, <2>4
<1>11. Walk(start, allowed, q)
  BY <1>1, <1>4, <1>5, <1>8, <1>9, <1>10 DEF Walk
<1>12. After(start, q) = Apply(After(start, p), Eff[a])
  <2>1. (n + 1) + 1 # 1 /\ ((n + 1) + 1) - 1 = n + 1
    BY <1>1
  <2> QED
    BY <1>4, <2>1 DEF After, Before
<1> QED
  BY <1>8, <1>11, <1>12 DEF q
-----------------------------------------------------------------------------
(* Facts. *)

LEMMA FactsType ==
  ASSUME NEW c \in World
  PROVE  Facts(c) \in SUBSET (Keys \X Values)
BY DEF Facts, Mentioned, World

LEMMA FactsHold ==
  ASSUME NEW w, NEW c
  PROVE  Holds(w, Facts(c)) <=> Satisfies(w, c)
<1>1. Holds(w, Facts(c)) <=> \A k \in Mentioned(c) : w[<<k, c[k]>>[1]] = <<k, c[k]>>[2]
  BY DEF Holds, Facts
<1> QED
  BY <1>1 DEF Satisfies

\* One action of a path, and facts that hold after it: none of them is overwritten,
\* and those it does not produce held before it.
LEMMA BeforeAnAction ==
  ASSUME NEW w \in World, NEW e \in World, NEW facts \in SUBSET (Keys \X Values),
         Holds(Apply(w, e), facts)
  PROVE  /\ \A f \in facts : e[f[1]] \in {Absent, f[2]}
         /\ Holds(w, facts \ Facts(e))
<1> SUFFICES ASSUME NEW f \in facts
             PROVE  /\ e[f[1]] \in {Absent, f[2]}
                    /\ f \notin Facts(e) => w[f[1]] = f[2]
  BY DEF Holds
<1>1. f[1] \in Keys /\ f[2] \in Values /\ f = <<f[1], f[2]>>
  OBVIOUS
<1>2. Apply(w, e)[f[1]] = f[2]
  BY DEF Holds
<1>3. e[f[1]] # Absent => e[f[1]] = f[2]
  BY <1>1, <1>2 DEF Apply
<1>4. e[f[1]] # Absent => f \in Facts(e)
  BY <1>1, <1>3 DEF Facts, Mentioned
<1>5. e[f[1]] = Absent => w[f[1]] = f[2]
  BY <1>1, <1>2 DEF Apply
<1> QED
  BY <1>3, <1>4, <1>5

\* The other way round: what an action produces, and what it does not overwrite,
\* holds after it.
LEMMA AfterAnAction ==
  ASSUME NEW w \in World, NEW e \in World, NEW now \in SUBSET (Keys \X Values),
         NEW next \in SUBSET (Keys \X Values), Holds(w, now),
         next \ Facts(e) \subseteq now, \A f \in next : e[f[1]] \in {Absent, f[2]}
  PROVE  Holds(Apply(w, e), next)
<1> SUFFICES ASSUME NEW f \in next
             PROVE  Apply(w, e)[f[1]] = f[2]
  BY DEF Holds
<1>1. f[1] \in Keys /\ f[2] \in Values
  OBVIOUS
<1>2. CASE e[f[1]] # Absent
  BY <1>1, <1>2 DEF Apply
<1>3. CASE e[f[1]] = Absent
  <2>1. f \notin Facts(e)
    BY <1>3 DEF Facts, Mentioned
  <2>2. w[f[1]] = f[2]
    BY <2>1 DEF Holds
  <2> QED
    BY <1>1, <1>3, <2>2 DEF Apply
<1> QED
  BY <1>2, <1>3
-----------------------------------------------------------------------------
(* The inductive invariant. *)

\* What the backward pass keeps: needs[i] is what has to hold before kept[i], and
\* what kept[i] leaves of it has to hold after. No kept action spoils a need.
KeptInv ==
  /\ kept \in Seq(Allowed)
  /\ needs \in Seq(SUBSET (Keys \X Values))
  /\ Len(needs) = Len(kept) + 1
  /\ needs[Len(needs)] = Facts(query.conditions)
  /\ \A i \in 1 .. Len(kept) :
       /\ Facts(Pre[kept[i]]) \subseteq needs[i]
       /\ needs[i + 1] \ Facts(Eff[kept[i]]) \subseteq needs[i]
       /\ \A f \in needs[i + 1] : Eff[kept[i]][f[1]] \in {Absent, f[2]}
  /\ \A i, j \in 1 .. Len(kept) :
       kept[i] = kept[j] /\ kept[i] \in SingleUse => i = j

\* The path popped leads to the goal, and what is needed holds where the pass stands.
PruneInv ==
  /\ KeptInv
  /\ Walk(query.start, Allowed, raw)
  /\ left \in 0 .. Len(raw.actions)
  /\ Holds(Before(query.start, raw, left + 1), needs[1])
  /\ \A i \in 1 .. Len(kept), j \in 1 .. left :
       kept[i] = raw.actions[j] => kept[i] \notin SingleUse

\* The replay is a walk, and ends where the rest of what was kept can be run.
ReplayInv ==
  /\ KeptInv
  /\ cursor \in 1 .. Len(kept) + 1
  /\ Walk(query.start, Allowed, out)
  /\ ActionsOf(out) \subseteq {kept[j] : j \in 1 .. cursor - 1}
  /\ Holds(After(query.start, out), needs[cursor])

\* What plan() answers.
IsAnswer(p) ==
  \/ p = NoPlan
  \/ p = EmptyPlan /\ Satisfies(query.start, query.conditions)
  \/ IsPlan(query.start, query.conditions, Allowed, p)

AStarInv ==
  /\ query \in [start : World, conditions : World, barred : SUBSET Actions,
                cost : [Actions -> Nat]]
  /\ phase \in {"attempt", "search", "prune", "replay", "done"}
  /\ phase # "done" => ~Satisfies(query.start, query.conditions) /\ result = NoPlan
  /\ phase = "search" => \A n \in open : Walk(query.start, Allowed, n.path)
  /\ phase = "prune" => PruneInv
  /\ phase = "replay" => ReplayInv
  /\ phase = "done" => IsAnswer(result)

LEMMA AStarInitial == AStarInit => AStarInv
BY AStarAssumption DEF AStarInit, AStarInv, IsAnswer

LEMMA AllowedAreActions == Allowed \subseteq Actions
BY DEF Allowed

LEMMA AnswersKept ==
  ASSUME UNCHANGED <<query, attempt>>
  PROVE  /\ Allowed' = Allowed
         /\ \A p : IsAnswer(p)' <=> IsAnswer(p)
BY DEF Allowed, IsAnswer, IsPlan

\* The search: nodes are walks, however cost and heuristic order them.
LEMMA SearchingStep ==
  ASSUME AStarInv,
         NotReachable \/ OpenRoot \/ Expire \/ OutOfTime \/ Exhausted \/ PopStale
           \/ PopAndExpand
  PROVE  AStarInv'
<1>1. CASE NothingFound /\ phase \in {"attempt", "search"}
  BY <1>1 DEF NothingFound, AStarInv, IsAnswer
<1>2. CASE OpenRoot
  <2>1. /\ phase' = "search" /\ UNCHANGED <<query, attempt, result>> /\ phase = "attempt"
        /\ \A n \in open' : n.path = EmptyPlan
    BY <1>2 DEF OpenRoot
  <2>2. \A n \in open' : Walk(query.start, Allowed', n.path)
    BY <2>1, EmptyWalk
  <2> QED
    BY <2>1, <2>2 DEF AStarInv
<1>3. CASE Expire
  <2>1. UNCHANGED <<query, attempt, phase, open, result>> /\ phase \in {"attempt", "search"}
    BY <1>3 DEF Expire
  <2> QED
    BY <2>1 DEF AStarInv, Allowed
<1>4. CASE PopStale
  <2>1. UNCHANGED <<query, attempt, phase, result>> /\ phase = "search" /\ open' \subseteq open
    BY <1>4 DEF PopStale
  <2> QED
    BY <2>1 DEF AStarInv, Allowed
<1>5. CASE PopAndExpand
  <2>1. /\ phase = "search" /\ UNCHANGED <<query, attempt, phase, result>>
        /\ \E n \in Least : \E chosen \in SUBSET Improving(n) :
             open' = (open \ {n}) \cup
                       {[path |-> Extend(query.start, n.path, a), g |-> n.g + query.cost[a]] :
                          a \in chosen}
    BY <1>5 DEF PopAndExpand
  <2> DEFINE children(n, chosen) ==
        {[path |-> Extend(query.start, n.path, a), g |-> n.g + query.cost[a]] : a \in chosen}
  <2>7. PICK n \in Least : \E chosen \in SUBSET Improving(n) :
          open' = (open \ {n}) \cup children(n, chosen)
    BY <2>1
  <2>2. PICK chosen \in SUBSET Improving(n) : open' = (open \ {n}) \cup children(n, chosen)
    BY <2>7
  <2>3. n \in open /\ Walk(query.start, Allowed, n.path)
    BY <2>1 DEF Least, AStarInv
  <2>4. \A a \in chosen : a \in Allowed /\ CanFollow(query.start, n.path, a)
    BY DEF Improving
  <2>5. \A a \in chosen : Walk(query.start, Allowed, Extend(query.start, n.path, a))
    BY <2>3, <2>4, WalkExtends, AllowedAreActions DEF AStarInv
  <2>6. \A m \in open' : Walk(query.start, Allowed, m.path)
    BY <2>1, <2>2, <2>5 DEF AStarInv
  <2> QED
    BY <2>1, <2>6, AnswersKept DEF AStarInv
<1> QED
  BY <1>1, <1>2, <1>3, <1>4, <1>5 DEF NotReachable, OutOfTime, Exhausted

LEMMA PopGoalStep ==
  ASSUME AStarInv, PopGoal
  PROVE  AStarInv'
<1>1. PICK n \in Least :
        /\ Satisfies(Ends(n), query.conditions)
        /\ raw' = n.path /\ left' = Len(n.path.actions)
        /\ kept' = <<>> /\ needs' = <<Facts(query.conditions)>>
  BY DEF PopGoal
<1>2. /\ phase = "search" /\ phase' = "prune" /\ UNCHANGED <<query, attempt, result>>
  BY DEF PopGoal
<1>3. Walk(query.start, Allowed, raw')
  BY <1>1, <1>2 DEF Least, AStarInv
<1>4. Holds(Before(query.start, raw', left' + 1), needs'[1])
  <2>1. needs'[1] = Facts(query.conditions)
    BY <1>1
  <2>2. Before(query.start, raw', left' + 1) = Ends(n)
    BY <1>1 DEF Ends, After
  <2> QED
    BY <1>1, <2>1, <2>2, FactsHold
<1>5. left' \in 0 .. Len(raw'.actions)
  BY <1>1, <1>3, WalkStates DEF Walk, AStarInv
<1>6. KeptInv'
  <2>1. kept' = <<>> /\ Len(kept') = 0 /\ kept' \in Seq(Allowed')
    BY <1>1
  <2>2. Facts(query.conditions) \in SUBSET (Keys \X Values)
    BY FactsType DEF AStarInv
  <2>3. /\ needs' \in Seq(SUBSET (Keys \X Values)) /\ Len(needs') = 1
        /\ needs'[1] = Facts(query'.conditions)
    BY <1>1, <1>2, <2>2
  <2> QED
    BY <2>1, <2>3 DEF KeptInv
<1>7. PruneInv'
  <2>1. Len(kept') = 0 /\ query' = query
    BY <1>1, <1>2
  <2> QED
    BY <1>2, <1>3, <1>4, <1>5, <1>6, <2>1, AnswersKept DEF PruneInv
<1> QED
  BY <1>2, <1>7 DEF AStarInv
-----------------------------------------------------------------------------
(* The backward pass. *)

\* What is true where the pass stands: the last action it has not looked at, the
\* state before it and the one after it.
LEMMA LookingAt ==
  ASSUME AStarInv, phase = "prune", left > 0
  PROVE  /\ left \in 1 .. Len(raw.actions) /\ left \in Nat
         /\ raw.actions[left] \in Allowed /\ raw.actions[left] \in Actions
         /\ Pre[raw.actions[left]] \in World /\ Eff[raw.actions[left]] \in World
         /\ Before(query.start, raw, left) \in World
         /\ Satisfies(Before(query.start, raw, left), Pre[raw.actions[left]])
         /\ Before(query.start, raw, left + 1)
              = Apply(Before(query.start, raw, left), Eff[raw.actions[left]])
         /\ Needed = needs[1] /\ needs[1] \in SUBSET (Keys \X Values)
         /\ Len(kept) \in Nat /\ Len(needs) = Len(kept) + 1
<1>1. /\ PruneInv /\ KeptInv /\ Walk(query.start, Allowed, raw) /\ query.start \in World
  BY DEF AStarInv, PruneInv
<1>2. /\ raw \in Plan /\ Len(raw.expected) = Len(raw.actions)
      /\ raw.actions \in Seq(Actions) /\ Len(raw.actions) \in Nat
  BY <1>1 DEF Walk, Plan
<1>3. left \in 1 .. Len(raw.actions) /\ left \in Nat
  BY <1>1, <1>2 DEF PruneInv
<1>4. Before(query.start, raw, left) \in World
  BY <1>1, <1>2, <1>3, WalkStates
<1>5. raw.actions[left] \in Actions /\ raw.actions[left] \in ActionsOf(raw)
  BY <1>2, <1>3 DEF ActionsOf
<1>6. /\ Satisfies(Before(query.start, raw, left), Pre[raw.actions[left]])
      /\ raw.expected[left] = Apply(Before(query.start, raw, left), Eff[raw.actions[left]])
  BY <1>1, <1>3 DEF Walk
<1>7. Before(query.start, raw, left + 1) = raw.expected[left]
  <2>1. left + 1 # 1 /\ (left + 1) - 1 = left
    BY <1>3
  <2> QED
    BY <2>1 DEF Before
<1>8. /\ Len(kept) \in Nat /\ Len(needs) = Len(kept) + 1
      /\ needs \in Seq(SUBSET (Keys \X Values))
  BY <1>1 DEF KeptInv
<1>9. Needed = needs[1] /\ needs[1] \in SUBSET (Keys \X Values)
  BY <1>8 DEF Needed
<1> QED
  BY <1>1, <1>3, <1>4, <1>5, <1>6, <1>7, <1>8, <1>9, DomainAssumption DEF Walk

LEMMA LeaveOutStep ==
  ASSUME AStarInv, LeaveOut
  PROVE  AStarInv'
<1> DEFINE a == raw.actions[left]
           w == Before(query.start, raw, left)
<1>1. /\ phase = "prune" /\ left > 0 /\ Facts(Eff[a]) \cap Needed = {}
      /\ left' = left - 1
      /\ UNCHANGED <<query, attempt, phase, open, result, raw, kept, needs>>
  BY DEF LeaveOut, searchVars
<1>2. /\ left \in 1 .. Len(raw.actions) /\ left \in Nat
      /\ Eff[a] \in World /\ w \in World
      /\ Before(query.start, raw, left + 1) = Apply(w, Eff[a])
      /\ Needed = needs[1] /\ needs[1] \in SUBSET (Keys \X Values)
  BY <1>1, LookingAt
<1>3. Holds(w, needs[1] \ Facts(Eff[a]))
  BY <1>1, <1>2, BeforeAnAction DEF AStarInv, PruneInv
<1>4. needs[1] \ Facts(Eff[a]) = needs[1]
  BY <1>1, <1>2
<1>5. left' + 1 = left /\ left' \in 0 .. Len(raw.actions) /\ 1 .. left' \subseteq 1 .. left
  BY <1>1, <1>2 DEF AStarInv, PruneInv
<1>6. Allowed' = Allowed
  BY <1>1, AnswersKept
<1>7. KeptInv'
  BY <1>1, <1>6 DEF AStarInv, PruneInv, KeptInv
<1>8. PruneInv'
  BY <1>1, <1>3, <1>4, <1>5, <1>6, <1>7 DEF AStarInv, PruneInv
<1> QED
  BY <1>1, <1>8 DEF AStarInv

\* An element put in front of a sequence.
LEMMA Prepended ==
  ASSUME NEW S, NEW s \in Seq(S), NEW e \in S
  PROVE  /\ <<e>> \o s \in Seq(S)
         /\ Len(<<e>> \o s) = Len(s) + 1
         /\ (<<e>> \o s)[1] = e
         /\ \A i \in 1 .. Len(s) : (<<e>> \o s)[i + 1] = s[i]
OBVIOUS

LEMMA KeepItStep ==
  ASSUME AStarInv, KeepIt
  PROVE  AStarInv'
<1> DEFINE a == raw.actions[left]
           w == Before(query.start, raw, left)
           n == Len(kept)
           need == (Needed \ Facts(Eff[a])) \cup Facts(Pre[a])
<1>1. /\ phase = "prune" /\ left > 0 /\ left' = left - 1
      /\ kept' = <<a>> \o kept /\ needs' = <<need>> \o needs
      /\ UNCHANGED <<query, attempt, phase, open, result, raw>>
  BY DEF KeepIt, searchVars
<1>2. /\ left \in 1 .. Len(raw.actions) /\ left \in Nat /\ a \in Allowed
      /\ Pre[a] \in World /\ Eff[a] \in World /\ w \in World
      /\ Satisfies(w, Pre[a])
      /\ Before(query.start, raw, left + 1) = Apply(w, Eff[a])
      /\ Needed = needs[1] /\ needs[1] \in SUBSET (Keys \X Values)
      /\ n \in Nat /\ Len(needs) = n + 1
  BY <1>1, LookingAt
<1>3. PruneInv /\ KeptInv /\ Holds(Apply(w, Eff[a]), needs[1])
  BY <1>1, <1>2 DEF AStarInv, PruneInv
<1>4. /\ \A f \in needs[1] : Eff[a][f[1]] \in {Absent, f[2]}
      /\ Holds(w, needs[1] \ Facts(Eff[a]))
  BY <1>2, <1>3, BeforeAnAction
<1>5. need \in SUBSET (Keys \X Values)
  BY <1>2, FactsType
<1>6. Holds(w, need)
  BY <1>2, <1>4, FactsHold DEF Holds
<1>7. /\ kept \in Seq(Allowed) /\ needs \in Seq(SUBSET (Keys \X Values))
  BY <1>3 DEF KeptInv
<1> HIDE DEF need, a, w
<1>8. /\ kept' \in Seq(Allowed) /\ Len(kept') = n + 1 /\ kept'[1] = a
      /\ \A i \in 1 .. n : kept'[i + 1] = kept[i]
  BY <1>1, <1>2, <1>7, Prepended
<1>9. /\ needs' \in Seq(SUBSET (Keys \X Values)) /\ Len(needs') = n + 2 /\ needs'[1] = need
      /\ \A i \in 1 .. n + 1 : needs'[i + 1] = needs[i]
  BY <1>1, <1>2, <1>5, <1>7, Prepended
<1> HIDE DEF n
<1>10. \A i \in 1 .. n + 1 : i = 1 \/ \E j \in 1 .. n : i = j + 1
  <2> SUFFICES ASSUME NEW i \in 1 .. n + 1, i # 1
               PROVE  i - 1 \in 1 .. n /\ i = (i - 1) + 1
    OBVIOUS
  <2> QED
    BY <1>2
<1>11. \A j \in 1 .. n : j \in 1 .. n + 1 /\ j + 1 \in 1 .. n + 1
  BY <1>2
<1>12. needs'[Len(needs')] = Facts(query'.conditions)
  <2>1. n + 2 = (n + 1) + 1 /\ n + 1 \in 1 .. n + 1
    BY <1>2
  <2> QED
    BY <1>1, <1>2, <1>3, <1>9, <2>1 DEF KeptInv
<1>13. ASSUME NEW i \in 1 .. n + 1
       PROVE  /\ Facts(Pre[kept'[i]]) \subseteq needs'[i]
              /\ needs'[i + 1] \ Facts(Eff[kept'[i]]) \subseteq needs'[i]
              /\ \A f \in needs'[i + 1] : Eff[kept'[i]][f[1]] \in {Absent, f[2]}
  <2>1. CASE i = 1
    <3>1. needs'[i + 1] = needs[1]
      BY <1>2, <1>9, <2>1
    <3> QED
      BY <1>2, <1>4, <1>8, <1>9, <2>1, <3>1 DEF need
  <2>2. ASSUME NEW j \in 1 .. n, i = j + 1
        PROVE  /\ Facts(Pre[kept'[i]]) \subseteq needs'[i]
               /\ needs'[i + 1] \ Facts(Eff[kept'[i]]) \subseteq needs'[i]
               /\ \A f \in needs'[i + 1] : Eff[kept'[i]][f[1]] \in {Absent, f[2]}
    <3>1. /\ kept'[i] = kept[j] /\ needs'[i] = needs[j] /\ needs'[i + 1] = needs[j + 1]
      BY <1>8, <1>9, <1>11, <2>2
    <3> QED
      BY <1>3, <3>1 DEF KeptInv, n
  <2> QED
    BY <1>10, <2>1, <2>2
<1>14. ASSUME NEW i \in 1 .. n + 1, NEW j \in 1 .. n + 1,
              kept'[i] = kept'[j], kept'[i] \in SingleUse
       PROVE  i = j
  <2>1. \A k \in 1 .. n : a \in SingleUse => kept[k] # a
    BY <1>2, <1>3 DEF PruneInv, a, n
  <2>2. ASSUME NEW k \in 1 .. n, NEW m \in 1 .. n, i = k + 1, j = m + 1
        PROVE  k = m
    BY <1>3, <1>8, <1>14, <2>2 DEF KeptInv, n
  <2> QED
    BY <1>8, <1>10, <1>14, <2>1, <2>2
<1>15. Allowed' = Allowed
  BY <1>1, AnswersKept
<1>16. KeptInv'
  BY <1>2, <1>8, <1>9, <1>12, <1>13, <1>14, <1>15 DEF KeptInv
<1>17. left' + 1 = left /\ left' \in 0 .. Len(raw.actions)
       /\ \A j \in 1 .. left' : j \in 1 .. left /\ j # left
  BY <1>1, <1>2, <1>3 DEF PruneInv
<1>18. ASSUME NEW i \in 1 .. n + 1, NEW j \in 1 .. left', kept'[i] = raw.actions[j]
       PROVE  kept'[i] \notin SingleUse
  <2>1. CASE i = 1
    <3>1. j \in 1 .. Len(raw.actions) /\ left \in 1 .. Len(raw.actions) /\ j # left
      BY <1>2, <1>3, <1>17 DEF PruneInv
    <3> QED
      BY <1>3, <1>8, <1>18, <2>1, <3>1 DEF PruneInv, Walk, a
  <2>2. ASSUME NEW k \in 1 .. n, i = k + 1
        PROVE  kept'[i] \notin SingleUse
    BY <1>3, <1>8, <1>17, <1>18, <2>2 DEF PruneInv, n
  <2> QED
    BY <1>10, <2>1, <2>2
<1>19. Holds(Before(query.start, raw, left' + 1), needs'[1])
  BY <1>6, <1>9, <1>17 DEF w
<1>20. PruneInv'
  BY <1>1, <1>3, <1>8, <1>15, <1>16, <1>17, <1>18, <1>19 DEF PruneInv
<1> QED
  BY <1>1, <1>20 DEF AStarInv
-----------------------------------------------------------------------------
(* The forward pass. *)

LEMMA PrunedStep ==
  ASSUME AStarInv, Pruned
  PROVE  AStarInv'
<1>1. /\ phase = "prune" /\ phase' = "replay" /\ left = 0 /\ cursor' = 1 /\ out' = EmptyPlan
      /\ UNCHANGED <<query, attempt, result, kept, needs>>
  BY DEF Pruned
<1>2. PruneInv /\ KeptInv
  BY <1>1 DEF AStarInv, PruneInv
<1>3. Allowed' = Allowed
  BY <1>1, AnswersKept
<1>4. KeptInv'
  BY <1>1, <1>2, <1>3 DEF KeptInv
<1>5. Holds(query.start, needs[1])
  BY <1>1, <1>2 DEF PruneInv, Before
<1>6. cursor' \in 1 .. Len(kept) + 1
  BY <1>1, <1>2 DEF KeptInv
<1>7. /\ Walk(query.start, Allowed, out') /\ After(query.start, out') = query.start
      /\ ActionsOf(out') = {}
  <2>1. ActionsOf(EmptyPlan) = {}
    BY DEF ActionsOf, EmptyPlan
  <2> QED
    BY <1>1, <2>1, EmptyWalk
<1>8. ReplayInv'
  BY <1>1, <1>3, <1>4, <1>5, <1>6, <1>7 DEF ReplayInv
<1> QED
  BY <1>1, <1>8 DEF AStarInv

LEMMA ReplayStep ==
  ASSUME AStarInv, Replay
  PROVE  AStarInv'
<1> DEFINE a == kept[cursor]
           w == After(query.start, out)
           n == Len(kept)
<1>1. /\ phase = "replay" /\ cursor <= n /\ cursor' = cursor + 1
      /\ out' = IF Redundant(a) THEN out ELSE Extend(query.start, out, a)
      /\ UNCHANGED <<query, attempt, phase, open, result, kept, needs>>
  BY DEF Replay, searchVars
<1>2. ReplayInv /\ KeptInv /\ query.start \in World
  BY <1>1 DEF AStarInv, ReplayInv
<1>3. /\ n \in Nat /\ cursor \in 1 .. n /\ cursor \in Nat /\ cursor' \in 1 .. n + 1
      /\ kept \in Seq(Allowed) /\ needs \in Seq(SUBSET (Keys \X Values))
      /\ Len(needs) = n + 1
  BY <1>1, <1>2 DEF ReplayInv, KeptInv
<1>4. /\ a \in Allowed /\ a \in Actions /\ Pre[a] \in World /\ Eff[a] \in World
  BY <1>3, AllowedAreActions, DomainAssumption
<1>5. needs[cursor] \in SUBSET (Keys \X Values) /\ needs[cursor + 1] \in SUBSET (Keys \X Values)
  <2>1. cursor \in 1 .. n + 1 /\ cursor + 1 \in 1 .. n + 1
    BY <1>3
  <2> QED
    BY <1>3, <2>1
<1>6. /\ Facts(Pre[a]) \subseteq needs[cursor]
      /\ needs[cursor + 1] \ Facts(Eff[a]) \subseteq needs[cursor]
      /\ \A f \in needs[cursor + 1] : Eff[a][f[1]] \in {Absent, f[2]}
  BY <1>2, <1>3 DEF KeptInv
<1>7. w \in World /\ Walk(query.start, Allowed, out) /\ Holds(w, needs[cursor])
  BY <1>2, WalkStates DEF ReplayInv, Walk
<1>8. Satisfies(w, Pre[a])
  BY <1>6, <1>7, FactsHold DEF Holds
<1>9. Allowed' = Allowed
  BY <1>1, AnswersKept
<1>10. KeptInv'
  BY <1>1, <1>2, <1>9 DEF KeptInv
<1>11. /\ \A j \in 1 .. cursor - 1 : j \in 1 .. cursor' - 1 /\ j \in 1 .. n /\ j # cursor
       /\ cursor \in 1 .. cursor' - 1
  BY <1>1, <1>3
<1>12. ActionsOf(out) \subseteq {kept[j] : j \in 1 .. cursor - 1}
  BY <1>2 DEF ReplayInv
<1> HIDE DEF a, w, n
<1>13. Redundant(a) <=> Satisfies(w, Eff[a])
  BY FactsHold DEF Redundant, w
<1>14. CASE Redundant(a)
  <2>1. out' = out
    BY <1>1, <1>14
  <2>2. Holds(w, needs[cursor + 1])
    BY <1>6, <1>7, <1>14 DEF Holds, Redundant, w
  <2>3. ActionsOf(out) \subseteq {kept[j] : j \in 1 .. cursor' - 1}
    BY <1>11, <1>12
  <2>4. ReplayInv'
    BY <1>1, <1>3, <1>7, <1>9, <1>10, <2>1, <2>2, <2>3 DEF ReplayInv, w, n
  <2> QED
    BY <1>1, <2>4 DEF AStarInv
<1>15. CASE ~Redundant(a)
  <2>1. out' = Extend(query.start, out, a)
    BY <1>1, <1>15
  <2>2. a \in SingleUse => a \notin ActionsOf(out)
    <3> SUFFICES ASSUME a \in SingleUse, NEW j \in 1 .. cursor - 1, kept[j] = a
                 PROVE  FALSE
      BY <1>12
    <3> QED
      BY <1>2, <1>3, <1>11 DEF KeptInv, a, n
  <2>3. Apply(w, Eff[a]) # w
    <3>1. PICK k \in Mentioned(Eff[a]) : w[k] # Eff[a][k]
      BY <1>13, <1>15 DEF Satisfies
    <3>2. Apply(w, Eff[a])[k] = Eff[a][k]
      BY <3>1 DEF Apply, Mentioned
    <3> QED
      BY <3>1, <3>2
  <2>4. CanFollow(query.start, out, a)
    BY <1>8, <2>2, <2>3 DEF CanFollow, w
  <2>5. /\ Walk(query.start, Allowed, out')
        /\ After(query.start, out') = Apply(w, Eff[a])
        /\ ActionsOf(out') = ActionsOf(out) \cup {a}
    BY <1>2, <1>4, <1>7, <2>1, <2>4, WalkExtends, AllowedAreActions DEF w
  <2>6. Holds(Apply(w, Eff[a]), needs[cursor + 1])
    BY <1>4, <1>5, <1>6, <1>7, AfterAnAction
  <2>7. ActionsOf(out') \subseteq {kept[j] : j \in 1 .. cursor' - 1}
    BY <1>11, <1>12, <2>5 DEF a
  <2>8. ReplayInv'
    BY <1>1, <1>3, <1>9, <1>10, <2>5, <2>6, <2>7 DEF ReplayInv, n
  <2> QED
    BY <1>1, <2>8 DEF AStarInv
<1> QED
  BY <1>14, <1>15

\* At the end of the replay the goal holds: the fallback is dead code.
LEMMA FinishStep ==
  ASSUME AStarInv, Finish
  PROVE  AStarInv'
<1>1. /\ phase = "replay" /\ phase' = "done" /\ cursor > Len(kept)
      /\ result' = IF Satisfies(After(query.start, out), query.conditions) THEN out
                   ELSE [actions |-> kept, expected |-> Simulated(query.start, kept)]
      /\ UNCHANGED <<query, attempt>>
  BY DEF Finish
<1>2. ReplayInv /\ KeptInv /\ ~Satisfies(query.start, query.conditions)
  BY <1>1 DEF AStarInv, ReplayInv
<1>3. cursor = Len(needs)
  BY <1>1, <1>2 DEF ReplayInv, KeptInv
<1>4. Satisfies(After(query.start, out), query.conditions)
  BY <1>2, <1>3, FactsHold DEF ReplayInv, KeptInv
<1>5. result' = out /\ Walk(query.start, Allowed, out)
  BY <1>1, <1>2, <1>4 DEF ReplayInv
<1>6. Len(out.actions) \in Nat /\ Len(out.expected) = Len(out.actions)
  BY <1>5, WalkStates DEF Walk, AStarInv
<1>7. Len(out.actions) # 0
  BY <1>2, <1>4, <1>6 DEF After, Before
<1>8. After(query.start, out) = out.expected[Len(out.expected)]
  <2>1. Len(out.actions) + 1 # 1 /\ (Len(out.actions) + 1) - 1 = Len(out.actions)
    BY <1>6, <1>7
  <2> QED
    BY <1>6, <2>1 DEF After, Before
<1>9. IsPlan(query.start, query.conditions, Allowed, out)
  <2>1. Len(out.actions) > 0
    BY <1>6, <1>7
  <2> QED
    BY <1>4, <1>5, <1>8, <2>1 DEF Walk, IsPlan
<1>10. IsAnswer(result)'
  BY <1>1, <1>5, <1>9, AnswersKept DEF IsAnswer
<1> QED
  BY <1>1, <1>10 DEF AStarInv

LEMMA AStarStep ==
  ASSUME AStarInv, [AStarNext]_astarVars
  PROVE  AStarInv'
<1>1. CASE UNCHANGED astarVars
  <2>1. UNCHANGED <<query, attempt, phase, open, result, raw, left, kept, needs, cursor, out>>
    BY <1>1 DEF astarVars, searchVars, passVars
  <2>2. Allowed' = Allowed
    BY <2>1, AnswersKept
  <2>3. KeptInv => KeptInv'
    BY <2>1, <2>2 DEF KeptInv
  <2>4. (PruneInv => PruneInv') /\ (ReplayInv => ReplayInv')
    BY <2>1, <2>2, <2>3 DEF PruneInv, ReplayInv
  <2> QED
    BY <2>1, <2>2, <2>4, AnswersKept DEF AStarInv
<1> QED
  BY <1>1, SearchingStep, PopGoalStep, LeaveOutStep, KeepItStep, PrunedStep, ReplayStep,
     FinishStep DEF AStarNext

\* Whatever the costs and the ties, with or without a deadline: what plan() answers is
\* None, the empty plan in a state that satisfies the goal, or a plan that can be
\* carried out action by action from the start, changes the state with every action,
\* spends no single-use action twice, ends in the goal and, unless the second search
\* was needed, uses no barred action.
AnswersArePlans == phase = "done" => IsAnswer(result)

THEOREM AStarSound == AStarSpec => []AnswersArePlans
<1>1. AStarInv => AnswersArePlans
  BY DEF AStarInv, AnswersArePlans
<1> QED
  BY <1>1, AStarInitial, AStarStep, PTL DEF AStarSpec

\* The forward pass never has to give up what it found: when the replay is over the
\* goal holds, so _forward_optimization's test can only succeed.
ReplayReachesGoal ==
  phase = "replay" /\ cursor > Len(kept)
    => Satisfies(After(query.start, out), query.conditions)

THEOREM FallbackIsDead == AStarSpec => []ReplayReachesGoal
<1>1. AStarInv => ReplayReachesGoal
  <2> SUFFICES ASSUME AStarInv, phase = "replay", cursor > Len(kept)
               PROVE  Satisfies(After(query.start, out), query.conditions)
    BY DEF ReplayReachesGoal
  <2>1. ReplayInv /\ KeptInv
    BY DEF AStarInv, ReplayInv
  <2>2. cursor = Len(needs)
    BY <2>1 DEF ReplayInv, KeptInv
  <2> QED
    BY <2>1, <2>2, FactsHold DEF ReplayInv, KeptInv
<1> QED
  BY <1>1, AStarInitial, AStarStep, PTL DEF AStarSpec
-----------------------------------------------------------------------------
(* What the strategies make of the plans they are given. *)

\* A plan that runs from start, as a plan of the search does.
Runs(start, p) == p \in Plan /\ RunsFrom(start, p)

UsedOnce(p) ==
  \A i, j \in DOMAIN p.actions :
    p.actions[i] = p.actions[j] /\ p.actions[i] \in SingleUse => i = j

\* What A* promises for a call's own goal.
Solves(start, p) ==
  Runs(start, p) /\ UsedOnce(p) /\ Satisfies(After(start, p), ask.goal.conditions)

LEMMA RunsEmpty ==
  ASSUME NEW start
  PROVE  /\ Runs(start, EmptyPlan) /\ UsedOnce(EmptyPlan) /\ After(start, EmptyPlan) = start
         /\ Len(EmptyPlan.actions) = 0
<1>1. /\ EmptyPlan.actions = <<>> /\ EmptyPlan.expected = <<>>
      /\ Len(EmptyPlan.actions) = 0 /\ Len(EmptyPlan.expected) = 0
      /\ DOMAIN EmptyPlan.actions = {}
  BY DEF EmptyPlan
<1> QED
  BY <1>1, EmptyPlanType DEF Runs, RunsFrom, UsedOnce, After, Before

LEMMA FoundSolves ==
  ASSUME NEW start, NEW barred, NEW p \in Found(start, barred)
  PROVE  p = NoPlan \/ Solves(start, p)
<1> DEFINE conditions == ask.goal.conditions
<1>1. CASE Satisfies(start, conditions)
  <2>1. p = EmptyPlan
    BY <1>1 DEF Found, Search
  <2> QED
    BY <1>1, <2>1, RunsEmpty DEF Solves
<1>2. CASE ~Satisfies(start, conditions)
  <2>1. PICK allowed : p \in SearchOutcomes(start, conditions, allowed)
    BY <1>2 DEF Found, Search
  <2>2. SUFFICES ASSUME IsPlan(start, conditions, allowed, p) PROVE Solves(start, p)
    BY <2>1 DEF SearchOutcomes, PlansOver
  <2>3. /\ p \in Plan /\ Len(p.actions) \in Nat /\ DOMAIN p.actions = 1 .. Len(p.actions)
        /\ Len(p.actions) > 0 /\ Len(p.expected) = Len(p.actions)
    BY <2>2 DEF IsPlan, Plan
  <2>4. RunsFrom(start, p) /\ UsedOnce(p)
    BY <2>2, <2>3 DEF IsPlan, RunsFrom, UsedOnce
  <2>5. After(start, p) = p.expected[Len(p.expected)]
    BY <2>3 DEF After, Before
  <2> QED
    BY <2>2, <2>3, <2>4, <2>5 DEF Solves, Runs, IsPlan
<1> QED
  BY <1>1, <1>2

LEMMA PlanShape ==
  ASSUME NEW start \in World, NEW p, Runs(start, p)
  PROVE  /\ p \in Plan /\ Len(p.actions) \in Nat /\ Len(p.expected) = Len(p.actions)
         /\ p.actions \in Seq(Actions) /\ p.expected \in Seq(World)
         /\ DOMAIN p.actions = 1 .. Len(p.actions)
         /\ After(start, p) \in World
         /\ \A i \in 1 .. Len(p.actions) :
              /\ Satisfies(Before(start, p, i), Pre[p.actions[i]])
              /\ p.expected[i] = Apply(Before(start, p, i), Eff[p.actions[i]])
<1>1. p \in Plan /\ RunsFrom(start, p)
  BY DEF Runs
<1>2. /\ Len(p.actions) \in Nat /\ p.actions \in Seq(Actions) /\ p.expected \in Seq(World)
      /\ DOMAIN p.actions = 1 .. Len(p.actions)
  BY <1>1 DEF Plan
<1> QED
  BY <1>1, <1>2, WalkStates DEF RunsFrom

\* Two plans that agree on the expected states up to i stand alike before action i.
LEMMA SameBefore ==
  ASSUME NEW start, NEW p, NEW q, NEW n \in Nat,
         \A i \in 1 .. n : q.expected[i] = p.expected[i], NEW i \in 1 .. n + 1
  PROVE  Before(start, q, i) = Before(start, p, i)
<1>1. i # 1 => i - 1 \in 1 .. n
  OBVIOUS
<1> QED
  BY <1>1 DEF Before

LEMMA RunsExtends ==
  ASSUME NEW start \in World, NEW p, Runs(start, p), NEW a \in Actions,
         Satisfies(After(start, p), Pre[a])
  PROVE  Runs(start, Extend(start, p, a))
<1> DEFINE q == Extend(start, p, a)
           n == Len(p.actions)
<1>1. /\ n \in Nat /\ Len(p.expected) = n /\ After(start, p) \in World
      /\ p.actions \in Seq(Actions) /\ p.expected \in Seq(World)
      /\ \A i \in 1 .. n : /\ Satisfies(Before(start, p, i), Pre[p.actions[i]])
                           /\ p.expected[i] = Apply(Before(start, p, i), Eff[p.actions[i]])
  BY PlanShape
<1>2. Apply(After(start, p), Eff[a]) \in World
  BY <1>1, ApplyType, DomainAssumption
<1>3. /\ q.actions = Append(p.actions, a)
      /\ q.expected = Append(p.expected, Apply(After(start, p), Eff[a]))
  BY DEF Extend
<1>4. /\ Len(q.actions) = n + 1 /\ Len(q.expected) = n + 1
      /\ \A i \in 1 .. n : q.actions[i] = p.actions[i] /\ q.expected[i] = p.expected[i]
      /\ q.actions[n + 1] = a /\ q.expected[n + 1] = Apply(After(start, p), Eff[a])
      /\ q.actions \in Seq(Actions) /\ q.expected \in Seq(World)
      /\ DOMAIN q.actions = 1 .. n + 1
  BY <1>1, <1>2, <1>3
<1>5. q \in Plan
  BY <1>4 DEF Plan, Extend
<1>6. After(start, p) = Before(start, p, n + 1)
  BY DEF After
<1> HIDE DEF q, n
<1>7. ASSUME NEW i \in 1 .. n + 1
      PROVE  /\ Satisfies(Before(start, q, i), Pre[q.actions[i]])
             /\ q.expected[i] = Apply(Before(start, q, i), Eff[q.actions[i]])
  <2>1. Before(start, q, i) = Before(start, p, i)
    BY <1>1, <1>4, SameBefore
  <2>2. CASE i \in 1 .. n
    BY <1>1, <1>4, <2>1, <2>2
  <2>3. CASE i = n + 1
    BY <1>4, <1>6, <2>1, <2>3
  <2> QED
    BY <1>1, <2>2, <2>3
<1>8. RunsFrom(start, q)
  BY <1>4, <1>7 DEF RunsFrom
<1> QED
  BY <1>5, <1>8 DEF Runs, q

\* The first actions of a plan.
LEMMA RunsCutOff ==
  ASSUME NEW start \in World, NEW p, Runs(start, p), UsedOnce(p),
         NEW n \in Nat, n <= Len(p.actions), NEW q,
         q = [actions |-> SubSeq(p.actions, 1, n), expected |-> SubSeq(p.expected, 1, n)]
  PROVE  Runs(start, q) /\ UsedOnce(q)
<1>1. /\ Len(p.actions) \in Nat /\ Len(p.expected) = Len(p.actions)
      /\ p.actions \in Seq(Actions) /\ p.expected \in Seq(World)
      /\ DOMAIN p.actions = 1 .. Len(p.actions)
      /\ \A i \in 1 .. Len(p.actions) :
           /\ Satisfies(Before(start, p, i), Pre[p.actions[i]])
           /\ p.expected[i] = Apply(Before(start, p, i), Eff[p.actions[i]])
  BY PlanShape
<1>2. 1 .. n \subseteq 1 .. Len(p.actions)
  BY <1>1
<1>3. \A i \in 1 .. n : p.actions[i] \in Actions /\ p.expected[i] \in World
  BY <1>1, <1>2
<1>4. /\ q.actions \in Seq(Actions) /\ Len(q.actions) = n
      /\ \A i \in 1 .. n : q.actions[i] = p.actions[i]
  <2>1. /\ SubSeq(p.actions, 1, n) \in Seq(Actions)
        /\ Len(SubSeq(p.actions, 1, n)) = IF 1 <= n THEN n - 1 + 1 ELSE 0
        /\ \A i \in 1 .. n - 1 + 1 : SubSeq(p.actions, 1, n)[i] = p.actions[1 + i - 1]
    BY <1>3, SubSeqProperties
  <2>2. n - 1 + 1 = n /\ (IF 1 <= n THEN n - 1 + 1 ELSE 0) = n
        /\ \A i \in 1 .. n : 1 + i - 1 = i
    OBVIOUS
  <2> QED
    BY <2>1, <2>2
<1>5. /\ q.expected \in Seq(World) /\ Len(q.expected) = n
      /\ \A i \in 1 .. n : q.expected[i] = p.expected[i]
  <2>1. /\ SubSeq(p.expected, 1, n) \in Seq(World)
        /\ Len(SubSeq(p.expected, 1, n)) = IF 1 <= n THEN n - 1 + 1 ELSE 0
        /\ \A i \in 1 .. n - 1 + 1 : SubSeq(p.expected, 1, n)[i] = p.expected[1 + i - 1]
    BY <1>3, SubSeqProperties
  <2>2. n - 1 + 1 = n /\ (IF 1 <= n THEN n - 1 + 1 ELSE 0) = n
        /\ \A i \in 1 .. n : 1 + i - 1 = i
    OBVIOUS
  <2> QED
    BY <2>1, <2>2
<1>6. q \in Plan /\ DOMAIN q.actions = 1 .. n
  BY <1>4, <1>5 DEF Plan
<1>7. \A i \in 1 .. n : Before(start, q, i) = Before(start, p, i)
  <2>1. \A i \in 1 .. n : i \in 1 .. n + 1
    OBVIOUS
  <2> QED
    BY <1>5, <2>1, SameBefore
<1>8. RunsFrom(start, q)
  <2>1. ASSUME NEW i \in 1 .. n
        PROVE  /\ Satisfies(Before(start, q, i), Pre[q.actions[i]])
               /\ q.expected[i] = Apply(Before(start, q, i), Eff[q.actions[i]])
    <3>1. i \in 1 .. Len(p.actions)
      BY <1>2
    <3>2. /\ q.actions[i] = p.actions[i] /\ q.expected[i] = p.expected[i]
          /\ Before(start, q, i) = Before(start, p, i)
      BY <1>4, <1>5, <1>7
    <3> QED
      BY <1>1, <3>1, <3>2
  <2> QED
    BY <1>4, <1>5, <1>6, <2>1 DEF RunsFrom
<1>9. UsedOnce(q)
  BY <1>1, <1>2, <1>4, <1>6 DEF UsedOnce
<1> QED
  BY <1>6, <1>8, <1>9 DEF Runs

LEMMA JoinedSeqs ==
  ASSUME NEW S, NEW s \in Seq(S), NEW t \in Seq(S), NEW n \in Nat, NEW m \in Nat,
         Len(s) = n, Len(t) = m
  PROVE  /\ s \o t \in Seq(S) /\ Len(s \o t) = n + m
         /\ \A i \in 1 .. n : (s \o t)[i] = s[i]
         /\ \A i \in 1 .. m : (s \o t)[n + i] = t[i]
<1>1. /\ s \o t \in Seq(S) /\ Len(s \o t) = n + m
      /\ \A i \in 1 .. n + m : (s \o t)[i] = IF i <= n THEN s[i] ELSE t[i - n]
  BY ConcatProperties
<1>2. ASSUME NEW i \in 1 .. n
      PROVE  i \in 1 .. n + m /\ i <= n
  OBVIOUS
<1>3. ASSUME NEW i \in 1 .. m
      PROVE  n + i \in 1 .. n + m /\ ~(n + i <= n) /\ (n + i) - n = i
  OBVIOUS
<1> QED
  BY <1>1, <1>2, <1>3

\* A plan followed by one that runs from where it leads.
Joined(p, q) == [actions |-> p.actions \o q.actions, expected |-> p.expected \o q.expected]

LEMMA RunsJoined ==
  ASSUME NEW start \in World, NEW p, Runs(start, p), NEW q, Runs(After(start, p), q),
         NEW r, r = Joined(p, q)
  PROVE  Runs(start, r) /\ After(start, r) = After(After(start, p), q)
<1> DEFINE n == Len(p.actions)
           m == Len(q.actions)
           mid == After(start, p)
<1>1. /\ n \in Nat /\ Len(p.expected) = n /\ mid \in World
      /\ p.actions \in Seq(Actions) /\ p.expected \in Seq(World)
      /\ \A i \in 1 .. n : /\ Satisfies(Before(start, p, i), Pre[p.actions[i]])
                           /\ p.expected[i] = Apply(Before(start, p, i), Eff[p.actions[i]])
  BY PlanShape
<1>2. /\ m \in Nat /\ Len(q.expected) = m
      /\ q.actions \in Seq(Actions) /\ q.expected \in Seq(World)
      /\ \A i \in 1 .. m : /\ Satisfies(Before(mid, q, i), Pre[q.actions[i]])
                           /\ q.expected[i] = Apply(Before(mid, q, i), Eff[q.actions[i]])
  BY <1>1, PlanShape
<1>3. mid = Before(start, p, n + 1)
  BY DEF After
<1> HIDE DEF mid
<1>4. /\ r.actions \in Seq(Actions) /\ Len(r.actions) = n + m
      /\ r.expected \in Seq(World) /\ Len(r.expected) = n + m
      /\ \A i \in 1 .. n : r.actions[i] = p.actions[i] /\ r.expected[i] = p.expected[i]
      /\ \A i \in 1 .. m : r.actions[n + i] = q.actions[i] /\ r.expected[n + i] = q.expected[i]
  <2>1. r.actions = p.actions \o q.actions /\ r.expected = p.expected \o q.expected
    BY DEF Joined
  <2>2. /\ n \in Nat /\ m \in Nat
        /\ p.actions \in Seq(Actions) /\ q.actions \in Seq(Actions)
        /\ Len(p.actions) = n /\ Len(q.actions) = m
        /\ p.expected \in Seq(World) /\ q.expected \in Seq(World)
        /\ Len(p.expected) = n /\ Len(q.expected) = m
    BY <1>1, <1>2
  <2> HIDE DEF n, m
  <2>3. /\ r.actions \in Seq(Actions) /\ Len(r.actions) = n + m
        /\ \A i \in 1 .. n : r.actions[i] = p.actions[i]
        /\ \A i \in 1 .. m : r.actions[n + i] = q.actions[i]
    <3>1. PICK s \in Seq(Actions) : s = p.actions
      BY <2>2
    <3>2. PICK t \in Seq(Actions) : t = q.actions
      BY <2>2
    <3>3. Len(s) = n /\ Len(t) = m /\ n \in Nat /\ m \in Nat
      BY <2>2, <3>1, <3>2
    <3>4. /\ s \o t \in Seq(Actions) /\ Len(s \o t) = n + m
          /\ \A i \in 1 .. n : (s \o t)[i] = s[i]
          /\ \A i \in 1 .. m : (s \o t)[n + i] = t[i]
      BY <3>3, JoinedSeqs
    <3> QED
      BY <2>1, <3>1, <3>2, <3>4
  <2>4. /\ r.expected \in Seq(World) /\ Len(r.expected) = n + m
        /\ \A i \in 1 .. n : r.expected[i] = p.expected[i]
        /\ \A i \in 1 .. m : r.expected[n + i] = q.expected[i]
    <3>1. PICK s \in Seq(World) : s = p.expected
      BY <2>2
    <3>2. PICK t \in Seq(World) : t = q.expected
      BY <2>2
    <3>3. Len(s) = n /\ Len(t) = m /\ n \in Nat /\ m \in Nat
      BY <2>2, <3>1, <3>2
    <3>4. /\ s \o t \in Seq(World) /\ Len(s \o t) = n + m
          /\ \A i \in 1 .. n : (s \o t)[i] = s[i]
          /\ \A i \in 1 .. m : (s \o t)[n + i] = t[i]
      BY <3>3, JoinedSeqs
    <3> QED
      BY <2>1, <3>1, <3>2, <3>4
  <2> QED
    BY <2>3, <2>4
<1> HIDE DEF n, m
<1>5. r \in Plan /\ DOMAIN r.actions = 1 .. n + m
  <2>1. r = [actions |-> r.actions, expected |-> r.expected]
    BY DEF Joined
  <2> QED
    BY <1>4, <2>1 DEF Plan
<1>6. ASSUME NEW i \in 1 .. n + 1
      PROVE  Before(start, r, i) = Before(start, p, i)
  BY <1>1, <1>4, SameBefore
<1>7. ASSUME NEW i \in 1 .. m + 1
      PROVE  Before(start, r, n + i) = Before(mid, q, i)
  <2>1. CASE i = 1
    <3>1. n + 1 \in 1 .. n + 1
      BY <1>1
    <3>2. Before(start, r, n + 1) = mid
      BY <1>3, <1>6, <3>1
    <3> QED
      BY <2>1, <3>2 DEF Before
  <2>2. CASE i # 1
    <3>1. i - 1 \in 1 .. m /\ n + i # 1 /\ (n + i) - 1 = n + (i - 1)
      BY <1>1, <1>2, <2>2
    <3> QED
      BY <1>4, <2>2, <3>1 DEF Before
  <2> QED
    BY <2>1, <2>2
<1>8. ASSUME NEW i \in 1 .. n + m
      PROVE  /\ Satisfies(Before(start, r, i), Pre[r.actions[i]])
             /\ r.expected[i] = Apply(Before(start, r, i), Eff[r.actions[i]])
  <2>1. CASE i <= n
    <3>1. i \in 1 .. n /\ i \in 1 .. n + 1
      BY <1>1, <1>2, <2>1
    <3>2. Before(start, r, i) = Before(start, p, i)
      BY <1>6, <3>1
    <3> QED
      BY <1>1, <1>4, <3>1, <3>2
  <2>2. CASE i > n
    <3>1. PICK j \in 1 .. m : i = n + j
      <4>1. i - n \in 1 .. m /\ i = n + (i - n)
        BY <1>1, <1>2, <2>2
      <4> QED
        BY <4>1
    <3>2. j \in 1 .. m + 1
      BY <1>2
    <3>3. Before(start, r, n + j) = Before(mid, q, j)
      BY <1>7, <3>2
    <3> QED
      BY <1>2, <1>4, <3>1, <3>3
  <2> QED
    BY <1>1, <1>2, <2>1, <2>2
<1>9. RunsFrom(start, r)
  BY <1>4, <1>5, <1>8 DEF RunsFrom
<1>10. After(start, r) = After(mid, q)
  <2>1. (n + m) + 1 = n + (m + 1) /\ m + 1 \in 1 .. m + 1
    BY <1>1, <1>2
  <2> QED
    BY <1>4, <1>7, <2>1 DEF After, m
<1> QED
  BY <1>5, <1>9, <1>10 DEF Runs, mid

\* A prefix that is extended by a solution from where it leads runs to the goal.
LEMMA SolutionJoined ==
  ASSUME NEW start \in World, NEW p, Runs(start, p), NEW q, Solves(After(start, p), q),
         NEW r, r = Joined(p, q)
  PROVE  Runs(start, r) /\ Satisfies(After(start, r), ask.goal.conditions)
BY RunsJoined DEF Solves
-----------------------------------------------------------------------------
(* The strategies. *)

\* Repair keeps a stretch of the prior plan, from the step the caller has reached.
KeepsAStretch ==
  /\ turn = ask.step + Len(prefix.actions) + 1
  /\ \A i \in 1 .. Len(prefix.actions) :
       /\ ask.step + i \in 1 .. Len(ask.prior.actions)
       /\ prefix.actions[i] = ask.prior.actions[ask.step + i]

\* What is known of a call while it is under way: the pipeline's plans solve the
\* caller's problem, and what repair keeps runs from the caller's state.
StrategyInv ==
  /\ ask.start \in World
  /\ ask.prior # NoPlan => ask.prior.actions \in Seq(Actions) /\ UsedOnce(ask.prior)
  /\ stage = "asked" => prefix = EmptyPlan
  /\ stage = "prefix" => KeepsAStretch
  /\ ask.step \in Nat /\ turn \in Nat \ {0}
  /\ stage \in {"asked", "search", "primary", "alternatives", "prefix", "done"}
  /\ stage = "alternatives" => Solves(ask.start, primary)
  /\ \A q \in alternatives : Solves(ask.start, q)
  /\ stage = "prefix" => ask.way = "repair" /\ ask.prior # NoPlan
  /\ Runs(ask.start, prefix)
  /\ StrategyPlansRun

LEMMA PriorIsPlan ==
  ASSUME NEW goal, NEW p \in PriorPlans(goal)
  PROVE  p \in Plan /\ UsedOnce(p)
<1>1. PICK w \in Worlds : IsPlan(w, goal.conditions, Actions, p)
  BY DEF PriorPlans, PlansOver
<1>2. p \in Plan /\ DOMAIN p.actions = 1 .. Len(p.actions)
  BY <1>1 DEF IsPlan, Plan
<1> QED
  BY <1>1, <1>2 DEF IsPlan, UsedOnce

\* A stretch of a plan that uses its single-use actions once does so too.
LEMMA StretchUsedOnce ==
  ASSUME StrategyInv, stage = "prefix"
  PROVE  UsedOnce(prefix)
<1> DEFINE n == Len(prefix.actions)
<1>1. /\ n \in Nat /\ DOMAIN prefix.actions = 1 .. n
  BY PlanShape DEF StrategyInv
<1>2. /\ ask.step \in Nat /\ UsedOnce(ask.prior)
      /\ DOMAIN ask.prior.actions = 1 .. Len(ask.prior.actions)
      /\ \A i \in 1 .. n : /\ ask.step + i \in 1 .. Len(ask.prior.actions)
                           /\ prefix.actions[i] = ask.prior.actions[ask.step + i]
  BY DEF StrategyInv, KeepsAStretch
<1> HIDE DEF n
<1>3. ASSUME NEW i \in 1 .. n, NEW j \in 1 .. n,
             prefix.actions[i] = prefix.actions[j], prefix.actions[i] \in SingleUse
      PROVE  i = j
  <2>1. ask.step + i = ask.step + j
    BY <1>2, <1>3 DEF UsedOnce
  <2> QED
    BY <1>1, <1>2, <2>1
<1> QED
  BY <1>1, <1>3 DEF UsedOnce

\* Of a plan joined from two that use single-use actions once, the first is the
\* beginning, and an action used again is used once in each.
LEMMA JoinedParts ==
  ASSUME NEW start \in World, NEW p, Runs(start, p), NEW q, Runs(After(start, p), q),
         UsedOnce(p), UsedOnce(q), NEW r, r = Joined(p, q)
  PROVE  /\ SubSeq(r.actions, 1, Len(p.actions)) = p.actions
         /\ \A i, j \in DOMAIN r.actions :
              i < j /\ r.actions[i] = r.actions[j] /\ r.actions[i] \in SingleUse =>
                i <= Len(p.actions) /\ Len(p.actions) < j
<1> DEFINE n == Len(p.actions)
           m == Len(q.actions)
<1>1. n \in Nat /\ p.actions \in Seq(Actions) /\ DOMAIN p.actions = 1 .. n
  BY PlanShape
<1>2. m \in Nat /\ q.actions \in Seq(Actions) /\ DOMAIN q.actions = 1 .. m
  <2>1. After(start, p) \in World
    BY PlanShape
  <2> QED
    BY <2>1, PlanShape
<1>3. r.actions = p.actions \o q.actions
  BY DEF Joined
<1>4. /\ r.actions \in Seq(Actions) /\ Len(r.actions) = n + m
      /\ \A i \in 1 .. n : r.actions[i] = p.actions[i]
      /\ \A i \in 1 .. m : r.actions[n + i] = q.actions[i]
  <2>1. PICK s \in Seq(Actions) : s = p.actions
    BY <1>1
  <2>2. PICK t \in Seq(Actions) : t = q.actions
    BY <1>2
  <2>3. Len(s) = n /\ Len(t) = m /\ n \in Nat /\ m \in Nat
    BY <1>1, <1>2, <2>1, <2>2
  <2> HIDE DEF n, m
  <2>4. /\ s \o t \in Seq(Actions) /\ Len(s \o t) = n + m
        /\ \A i \in 1 .. n : (s \o t)[i] = s[i]
        /\ \A i \in 1 .. m : (s \o t)[n + i] = t[i]
    BY <2>3, JoinedSeqs
  <2> QED
    BY <1>3, <2>1, <2>2, <2>4
<1> HIDE DEF n, m
<1>5. DOMAIN r.actions = 1 .. n + m
  BY <1>1, <1>2, <1>4
<1>6. SubSeq(r.actions, 1, n) = p.actions
  <2>1. \A i \in 1 .. n : r.actions[i] \in Actions
    BY <1>1, <1>4
  <2>2. /\ SubSeq(r.actions, 1, n) \in Seq(Actions)
        /\ Len(SubSeq(r.actions, 1, n)) = IF 1 <= n THEN n - 1 + 1 ELSE 0
        /\ \A i \in 1 .. n - 1 + 1 : SubSeq(r.actions, 1, n)[i] = r.actions[1 + i - 1]
    BY <1>1, <2>1, SubSeqProperties
  <2>3. n - 1 + 1 = n /\ (IF 1 <= n THEN n - 1 + 1 ELSE 0) = n
        /\ \A i \in 1 .. n : 1 + i - 1 = i
    BY <1>1
  <2>4. Len(p.actions) = n
    BY DEF n
  <2>5. \A i \in 1 .. n : SubSeq(r.actions, 1, n)[i] = p.actions[i]
    BY <1>4, <2>2, <2>3
  <2> QED
    BY <1>1, <2>2, <2>3, <2>4, <2>5, SeqEqual
<1>7. ASSUME NEW i \in 1 .. n + m, NEW j \in 1 .. n + m, i < j,
             r.actions[i] = r.actions[j], r.actions[i] \in SingleUse
      PROVE  i <= n /\ n < j
  <2>1. CASE j <= n
    <3>1. i \in 1 .. n /\ j \in 1 .. n /\ i # j
      BY <1>1, <1>2, <1>7, <2>1
    <3> QED
      BY <1>1, <1>4, <1>7, <3>1 DEF UsedOnce
  <2>2. CASE n < i
    <3>1. /\ i - n \in 1 .. m /\ j - n \in 1 .. m /\ i - n # j - n
          /\ n + (i - n) = i /\ n + (j - n) = j
      <4>1. n \in Nat /\ m \in Nat /\ i < j
        BY <1>1, <1>2, <1>7
      <4> QED
        BY <2>2, <4>1
    <3>2. r.actions[i] = q.actions[i - n] /\ r.actions[j] = q.actions[j - n]
      BY <1>4, <3>1
    <3> QED
      BY <1>2, <1>7, <3>1, <3>2 DEF UsedOnce
  <2> QED
    BY <1>1, <1>2, <2>1, <2>2
<1> QED
  BY <1>5, <1>6, <1>7 DEF n

LEMMA StrategyInitial == StrategiesInit => StrategyInv
<1> SUFFICES ASSUME StrategiesInit PROVE StrategyInv
  OBVIOUS
<1>1. /\ ask.start \in Worlds /\ ask.step \in Nat
      /\ ask.prior # NoPlan => ask.prior \in Plan /\ UsedOnce(ask.prior)
  <2>1. PICK C \in {Calls} \cup {Repairs(g) : g \in {g \in Goals : ~NeedsCsp(g)}}
                           \cup {Refinements(g) : g \in {g \in Goals : NeedsCsp(g)}} :
          ask \in C
    BY DEF StrategiesInit, AllCalls
  <2>2. CASE C = Calls
    BY <2>1, <2>2 DEF Calls
  <2>3. ASSUME NEW g \in Goals, C = Repairs(g)
        PROVE  ask.start \in Worlds /\ ask.step \in Nat /\ ask.prior \in PriorPlans(g)
    BY <2>1, <2>3, DomainAssumption DEF Repairs
  <2>4. ASSUME NEW g \in Goals, C = Refinements(g)
        PROVE  ask.start \in Worlds /\ ask.step \in Nat /\ ask.prior \in PriorPlans(g)
    BY <2>1, <2>4 DEF Refinements
  <2> QED
    BY <2>1, <2>2, <2>3, <2>4, PriorIsPlan
<1>2. /\ ask.start \in World
      /\ ask.prior # NoPlan => ask.prior.actions \in Seq(Actions) /\ UsedOnce(ask.prior)
  BY <1>1, StrategyAssumption DEF Plan
<1> QED
  BY <1>1, <1>2, RunsEmpty DEF StrategiesInit, StrategyInv, StrategyPlansRun

\* An answer that solves the call's problem is good for every strategy.
LEMMA GoodAnswer ==
  ASSUME NEW p, NEW status, Answered(p, status), UNCHANGED ask,
         p = NoPlan \/ Solves(ask.start, p)
  PROVE  StrategyPlansRun'
<1>1. CASE p = NoPlan
  BY <1>1 DEF Answered, StrategyPlansRun
<1>2. CASE Solves(ask.start, p)
  <2>1. DOMAIN p.actions = 1 .. Len(p.actions)
    BY <1>2 DEF Solves, Runs, Plan
  <2>2. \A i, j \in DOMAIN p.actions :
          p.actions[i] = p.actions[j] /\ p.actions[i] \in SingleUse => ~(i < j)
    BY <1>2, <2>1 DEF Solves, UsedOnce
  <2> QED
    BY <1>2, <2>2 DEF Answered, Solves, Runs, StrategyPlansRun
<1> QED
  BY <1>1, <1>2

\* The rest of the invariant when the call is answered and nothing else changes.
LEMMA AnsweredStep ==
  ASSUME StrategyInv, NEW p, NEW status, Answered(p, status), StrategyPlansRun',
         UNCHANGED <<ask, turn, alternatives, prefix>>
  PROVE  StrategyInv'
BY DEF StrategyInv, Answered, Solves, Runs, UsedOnce, KeepsAStretch

LEMMA PipelineStep ==
  ASSUME StrategyInv, FindPrimary \/ TryWithout \/ ChooseAlternative
  PROVE  StrategyInv'
<1>1. ASSUME NEW barred, NEW p \in Found(ask.start, barred)
      PROVE  p = NoPlan \/ Solves(ask.start, p)
  BY FoundSolves
<1>2. CASE FindPrimary
  <2>1. PICK p \in Found(ask.start, ask.barred) :
          /\ primary' = p
          /\ \/ \E status : Answered(p, status)
             \/ stage' = "alternatives" /\ p # NoPlan /\ UNCHANGED answer
    BY <1>2 DEF FindPrimary
  <2>2. UNCHANGED <<ask, turn, alternatives, prefix>>
    BY <1>2 DEF FindPrimary
  <2>3. CASE \E status : Answered(p, status)
    BY <1>1, <2>2, <2>3, GoodAnswer, AnsweredStep
  <2>4. CASE stage' = "alternatives" /\ p # NoPlan
    <3>1. Solves(ask.start, p)
      BY <1>1, <2>4
    <3> QED
      BY <2>1, <2>2, <2>4, <3>1
      DEF StrategyInv, StrategyPlansRun, StartsWithPrefix, KeepsAStretch, Solves, Runs, UsedOnce
  <2> QED
    BY <2>1, <2>3, <2>4
<1>3. CASE TryWithout
  <2>1. PICK p \in Found(ask.start, ask.barred \cup {primary.actions[turn]}) :
          alternatives' = alternatives \/ (p # NoPlan /\ alternatives' = alternatives \cup {p})
    BY <1>3 DEF TryWithout
  <2>2. /\ stage = "alternatives" /\ turn' = turn + 1
        /\ UNCHANGED <<ask, stage, primary, prefix, answer>>
    BY <1>3 DEF TryWithout
  <2>3. \A q \in alternatives' : Solves(ask.start, q)
    BY <1>1, <2>1 DEF StrategyInv
  <2>4. turn' \in Nat \ {0}
    BY <2>2 DEF StrategyInv
  <2> QED
    BY <2>2, <2>3, <2>4 DEF StrategyInv, StrategyPlansRun, StartsWithPrefix, KeepsAStretch, Solves, Runs, UsedOnce
<1>4. CASE ChooseAlternative
  <2>1. /\ stage = "alternatives"
        /\ UNCHANGED <<ask, primary, turn, alternatives, prefix>>
        /\ \E p, status : p \in {primary} \cup alternatives /\ Answered(p, status)
    <3>1. Optimal(ask.goal, alternatives) \subseteq alternatives
      BY DEF Optimal
    <3> QED
      BY <1>4, <3>1 DEF ChooseAlternative
  <2>2. PICK p, status : Answered(p, status) /\ Solves(ask.start, p)
    BY <2>1 DEF StrategyInv
  <2> QED
    BY <2>1, <2>2, GoodAnswer, AnsweredStep
<1> QED
  BY <1>2, <1>3, <1>4

LEMMA RepairStep ==
  ASSUME StrategyInv, StartRepair \/ KeepAction \/ PlanSuffix
  PROVE  StrategyInv'
<1>1. CASE StartRepair
  <2>1. /\ stage' \in {"search", "prefix"} /\ turn' = ask.step + 1
        /\ ask.way = "repair" /\ ask.prior # NoPlan
        /\ UNCHANGED <<ask, primary, alternatives, prefix, answer>>
    BY <1>1 DEF StartRepair
  <2>2. turn' \in Nat \ {0}
    BY <2>1 DEF StrategyInv
  <2> QED
    <3>1. stage' = "prefix" => KeepsAStretch'
      <4>1. prefix' = EmptyPlan /\ Len(prefix'.actions) = 0 /\ ask' = ask /\ ask.step \in Nat
        BY <1>1, <2>1, RunsEmpty DEF StartRepair, StrategyInv
      <4> QED
        BY <2>1, <4>1 DEF KeepsAStretch
    <3> QED
      BY <2>1, <2>2, <3>1
      DEF StrategyInv, StrategyPlansRun, StartsWithPrefix, Solves, Runs, UsedOnce
<1>2. CASE KeepAction
  <2>1. /\ stage = "prefix" /\ Applicable /\ turn' = turn + 1
        /\ prefix' = Extend(ask.start, prefix, ask.prior.actions[turn])
        /\ UNCHANGED <<ask, stage, primary, alternatives, answer>>
    BY <1>2 DEF KeepAction
  <2>2. ask.prior.actions[turn] \in Actions
    <3>1. /\ ask.prior.actions \in Seq(Actions) /\ turn \in Nat \ {0}
          /\ turn <= Len(ask.prior.actions)
      BY <2>1 DEF StrategyInv, Applicable
    <3> QED
      BY <3>1
  <2>3. Runs(ask.start, prefix')
    BY <2>1, <2>2, RunsExtends DEF StrategyInv, Applicable
  <2>4. turn' \in Nat \ {0}
    BY <2>1 DEF StrategyInv
  <2>5. KeepsAStretch'
    <3> DEFINE n == Len(prefix.actions)
               a == ask.prior.actions[turn]
    <3>1. n \in Nat /\ prefix.actions \in Seq(Actions)
      BY PlanShape DEF StrategyInv
    <3>2. prefix'.actions = Append(prefix.actions, a)
      BY <2>1 DEF Extend
    <3>3. /\ Len(prefix'.actions) = n + 1 /\ prefix'.actions[n + 1] = a
          /\ \A i \in 1 .. n : prefix'.actions[i] = prefix.actions[i]
      BY <2>2, <3>1, <3>2
    <3>4. /\ turn = ask.step + n + 1 /\ ask.step \in Nat
          /\ \A i \in 1 .. n : /\ ask.step + i \in 1 .. Len(ask.prior.actions)
                               /\ prefix.actions[i] = ask.prior.actions[ask.step + i]
      BY <2>1 DEF StrategyInv, KeepsAStretch
    <3>5. turn \in 1 .. Len(ask.prior.actions) /\ ask' = ask /\ turn' = turn + 1
      <4>1. ask.prior.actions \in Seq(Actions)
        BY <2>1 DEF StrategyInv
      <4> QED
        BY <2>1, <4>1 DEF Applicable, StrategyInv
    <3> HIDE DEF n, a
    <3>6. ASSUME NEW i \in 1 .. n + 1
          PROVE  /\ ask.step + i \in 1 .. Len(ask.prior.actions)
                 /\ prefix'.actions[i] = ask.prior.actions[ask.step + i]
      <4>1. CASE i \in 1 .. n
        BY <3>3, <3>4, <4>1
      <4>2. CASE i = n + 1
        <5>1. ask.step + i = turn
          <6>1. turn = ask.step + n + 1 /\ ask.step \in Nat /\ n \in Nat
            BY <3>1, <3>4
          <6> QED
            BY <4>2, <6>1
        <5> QED
          BY <3>3, <3>5, <4>2, <5>1 DEF a
      <4> QED
        BY <3>1, <4>1, <4>2
    <3>7. turn' = ask'.step + Len(prefix'.actions) + 1
      <4>1. ask.step \in Nat /\ n \in Nat
        BY <3>1, <3>4
      <4>2. turn' = (ask.step + n + 1) + 1
        BY <3>4, <3>5
      <4>3. ask'.step + Len(prefix'.actions) + 1 = ask.step + (n + 1) + 1
        BY <3>3, <3>5
      <4>4. (ask.step + n + 1) + 1 = ask.step + (n + 1) + 1
        BY <4>1
      <4> QED
        BY <4>2, <4>3, <4>4
    <3> QED
      BY <3>3, <3>5, <3>6, <3>7 DEF KeepsAStretch
  <2> QED
    BY <2>1, <2>3, <2>4, <2>5 DEF StrategyInv, StrategyPlansRun, StartsWithPrefix, Solves, UsedOnce
<1>3. CASE PlanSuffix
  <2>1. PICK p \in WaysOn(After(ask.start, prefix)) :
          IF p = NoPlan \/ prefix = EmptyPlan
            THEN stage' = "search" /\ UNCHANGED answer
            ELSE Answered(Joined(prefix, p), "none")
    BY <1>3 DEF PlanSuffix, Joined
  <2>2. /\ stage = "prefix" /\ UNCHANGED <<ask, primary, turn, alternatives, prefix>>
    BY <1>3 DEF PlanSuffix
  <2>3. CASE p = NoPlan \/ prefix = EmptyPlan
    BY <2>1, <2>2, <2>3 DEF StrategyInv, StrategyPlansRun, StartsWithPrefix, KeepsAStretch, Solves, Runs, UsedOnce
  <2>4. CASE ~(p = NoPlan \/ prefix = EmptyPlan)
    <3> DEFINE r == Joined(prefix, p)
    <3>1. Solves(After(ask.start, prefix), p)
      BY <2>4, FoundSolves DEF WaysOn
    <3>2. Runs(ask.start, r) /\ Satisfies(After(ask.start, r), ask.goal.conditions)
      BY <3>1, SolutionJoined DEF StrategyInv
    <3>3. Answered(r, "none") /\ ask.way = "repair"
      BY <2>1, <2>2, <2>4 DEF StrategyInv
    <3>4. /\ SubSeq(r.actions, 1, Len(prefix.actions)) = prefix.actions
          /\ \A i, j \in DOMAIN r.actions :
               i < j /\ r.actions[i] = r.actions[j] /\ r.actions[i] \in SingleUse =>
                 i <= Len(prefix.actions) /\ Len(prefix.actions) < j
      <4>1. UsedOnce(prefix) /\ UsedOnce(p) /\ Runs(After(ask.start, prefix), p)
        BY <2>2, <3>1, StretchUsedOnce DEF Solves
      <4>2. ask.start \in World /\ Runs(ask.start, prefix) /\ r = Joined(prefix, p)
        BY DEF StrategyInv
      <4> HIDE DEF r
      <4> QED
        BY <4>1, <4>2, JoinedParts
    <3> HIDE DEF r
    <3>5. StrategyPlansRun'
      BY <2>2, <3>2, <3>3, <3>4 DEF StrategyPlansRun, StartsWithPrefix, Answered, Runs
    <3> QED
      BY <2>2, <3>3, <3>5, AnsweredStep
  <2> QED
    BY <2>3, <2>4
<1> QED
  BY <1>1, <1>2, <1>3

LEMMA OtherStrategyStep ==
  ASSUME StrategyInv,
         Route \/ PlanFromScratch \/ PlanAhead \/ PlanInTime \/ BestAction \/ Refine
  PROVE  StrategyInv'
<1>1. CASE Route
  <2>1. stage' \in {"primary", "search"} /\ UNCHANGED <<ask, primary, turn, alternatives, prefix, answer>>
    BY <1>1 DEF Route
  <2> QED
    BY <2>1 DEF StrategyInv, StrategyPlansRun, StartsWithPrefix, KeepsAStretch, Solves, Runs, UsedOnce
<1>2. CASE PlanFromScratch \/ PlanInTime
  <2>1. /\ UNCHANGED <<ask, turn, alternatives, prefix>>
        /\ \E p \in Found(ask.start, ask.barred) \cup {NoPlan} : Answered(p, "none")
    BY <1>2 DEF PlanFromScratch, PlanInTime
  <2>2. PICK p : Answered(p, "none") /\ (p = NoPlan \/ Solves(ask.start, p))
    BY <2>1, FoundSolves
  <2> QED
    BY <2>1, <2>2, GoodAnswer, AnsweredStep
<1>3. CASE PlanAhead
  <2>1. ask.way = "lazy" /\ UNCHANGED <<ask, turn, alternatives, prefix>>
    BY <1>3 DEF PlanAhead
  <2>2. PICK p \in Found(ask.start, ask.barred) :
          IF p = NoPlan \/ Len(p.actions) <= Lookahead THEN Answered(p, "none")
          ELSE Answered([actions  |-> SubSeq(p.actions, 1, Lookahead),
                         expected |-> SubSeq(p.expected, 1, Lookahead)], "none")
    BY <1>3 DEF PlanAhead
  <2>3. p = NoPlan \/ Solves(ask.start, p)
    BY FoundSolves
  <2>4. CASE p = NoPlan \/ Len(p.actions) <= Lookahead
    BY <2>1, <2>2, <2>3, <2>4, GoodAnswer, AnsweredStep
  <2>5. CASE ~(p = NoPlan \/ Len(p.actions) <= Lookahead)
    <3> DEFINE q == [actions  |-> SubSeq(p.actions, 1, Lookahead),
                     expected |-> SubSeq(p.expected, 1, Lookahead)]
    <3>1. Runs(ask.start, p) /\ UsedOnce(p)
      BY <2>3, <2>5 DEF Solves
    <3>2. Lookahead \in Nat /\ Lookahead <= Len(p.actions)
      <4>1. Lookahead \in Nat /\ Len(p.actions) \in Nat
        BY <3>1, PlanShape, StrategyAssumption DEF StrategyInv
      <4> QED
        BY <2>5, <4>1
    <3>3. Runs(ask.start, q) /\ UsedOnce(q)
      BY <3>1, <3>2, RunsCutOff DEF StrategyInv
    <3>4. Answered(q, "none")
      BY <2>2, <2>5
    <3> HIDE DEF q
    <3>5. StrategyPlansRun'
      <4>1. DOMAIN q.actions = 1 .. Len(q.actions)
        BY <3>3 DEF Runs, Plan
      <4>2. \A i, j \in DOMAIN q.actions :
              q.actions[i] = q.actions[j] /\ q.actions[i] \in SingleUse => ~(i < j)
        BY <3>3, <4>1 DEF UsedOnce
      <4> QED
        BY <2>1, <3>3, <3>4, <4>2 DEF StrategyPlansRun, Answered, Runs
    <3> QED
      BY <2>1, <3>4, <3>5, AnsweredStep
  <2> QED
    BY <2>4, <2>5
<1>4. CASE BestAction
  <2>1. ask.way = "utility" /\ UNCHANGED <<ask, turn, alternatives, prefix>>
    BY <1>4 DEF BestAction
  <2>2. \/ Answered(NoPlan, "none")
        \/ \E a \in Actions : /\ Satisfies(ask.start, Pre[a])
                              /\ Answered(Extend(ask.start, EmptyPlan, a), "none")
    BY <1>4 DEF BestAction
  <2>3. CASE Answered(NoPlan, "none")
    BY <2>1, <2>3, GoodAnswer, AnsweredStep
  <2>4. ASSUME NEW a \in Actions, Satisfies(ask.start, Pre[a]),
               Answered(Extend(ask.start, EmptyPlan, a), "none")
        PROVE  StrategyInv'
    <3> DEFINE q == Extend(ask.start, EmptyPlan, a)
    <3>1. Runs(ask.start, q)
      <4>1. Runs(ask.start, EmptyPlan) /\ After(ask.start, EmptyPlan) = ask.start
        BY RunsEmpty
      <4> QED
        BY <2>4, <4>1, RunsExtends DEF StrategyInv
    <3>2. UsedOnce(q)
      <4>1. q.actions = <<a>>
        BY DEF Extend, EmptyPlan
      <4> QED
        BY <4>1 DEF UsedOnce
    <3> HIDE DEF q
    <3>3. Answered(q, "none")
      BY <2>4 DEF q
    <3>4. StrategyPlansRun'
      <4>1. DOMAIN q.actions = 1 .. Len(q.actions)
        BY <3>1 DEF Runs, Plan
      <4>2. \A i, j \in DOMAIN q.actions :
              q.actions[i] = q.actions[j] /\ q.actions[i] \in SingleUse => ~(i < j)
        BY <3>2, <4>1 DEF UsedOnce
      <4> QED
        BY <2>1, <3>1, <3>3, <4>2 DEF StrategyPlansRun, Answered, Runs
    <3> QED
      BY <2>1, <3>3, <3>4, AnsweredStep
  <2> QED
    BY <2>2, <2>3, <2>4
<1>5. CASE Refine
  <2>1. /\ ask.way = "refine" /\ UNCHANGED <<ask, turn, alternatives, prefix>>
        /\ Answered(ask.prior, Verdict(ask.goal, ask.prior))
    BY <1>5 DEF Refine
  <2>2. StrategyPlansRun'
    BY <2>1 DEF StrategyPlansRun
  <2> QED
    BY <2>1, <2>2, AnsweredStep
<1> QED
  BY <1>1, <1>2, <1>3, <1>4, <1>5

LEMMA StrategyStep == StrategyInv /\ [StrategiesNext]_strategyVars => StrategyInv'
<1>1. StrategyInv /\ UNCHANGED strategyVars => StrategyInv'
  BY DEF strategyVars, StrategyInv, StrategyPlansRun, StartsWithPrefix, KeepsAStretch, Solves, Runs, UsedOnce
<1> QED
  BY <1>1, PipelineStep, RepairStep, OtherStrategyStep DEF StrategiesNext

\* Whatever strategy is asked, and whatever the solver chooses and the searches in
\* between find, a plan it answers with can be run from the caller's state and, but
\* for the short-sighted strategies, reaches the goal; only a repaired one uses a
\* single-use action again, and neither of its parts does.
THEOREM StrategiesSound == StrategiesSpec => []StrategyPlansRun
<1>1. StrategyInv => StrategyPlansRun
  BY DEF StrategyInv
<1> QED
  BY <1>1, StrategyStep, StrategyInitial, PTL DEF StrategiesSpec
-----------------------------------------------------------------------------
(* Barred actions in the answers. *)

\* What a search answers holds a barred action only if none can be found around.
LEMMA FoundAround ==
  ASSUME NEW start, NEW barred, NEW p \in Found(start, barred), p # NoPlan,
         NEW i \in DOMAIN p.actions, p.actions[i] \in barred
  PROVE  NoneAround(start, barred)
<1> DEFINE conditions == ask.goal.conditions
           around == SearchOutcomes(start, conditions, Actions \ barred)
<1>1. ~Satisfies(start, conditions)
  <2> SUFFICES ASSUME Satisfies(start, conditions) PROVE FALSE
    OBVIOUS
  <2>1. p = EmptyPlan
    BY DEF Found, Search
  <2>2. DOMAIN EmptyPlan.actions = {}
    BY DEF EmptyPlan
  <2> QED
    BY <2>1, <2>2
<1>2. p \in around \/ NoPlan \in around
  BY <1>1 DEF Found, Search
<1>3. p \notin around
  <2> SUFFICES ASSUME p \in around PROVE FALSE
    OBVIOUS
  <2>1. ActionsOf(p) \subseteq Actions \ barred
    BY DEF SearchOutcomes, PlansOver, IsPlan
  <2> QED
    BY <2>1 DEF ActionsOf
<1> QED
  BY <1>2, <1>3 DEF NoneAround

\* Every barred action of the plan is there for want of a plan without those.
ForcedIn(p, barred) ==
  \A i \in DOMAIN p.actions : p.actions[i] \in ask.barred => NoneAround(ask.start, barred)

\* What is known of the barred actions while a call is under way.
BarsInv ==
  /\ stage \in {"asked", "primary"} => alternatives = {}
  /\ stage = "alternatives" => ForcedIn(primary, ask.barred)
  /\ \A q \in alternatives :
       \E a \in ActionsOf(primary) : ForcedIn(q, ask.barred \cup {a})
  /\ BarredOnlyIfForced

LEMMA BarsInitial == StrategiesInit => BarsInv
BY DEF StrategiesInit, BarsInv, BarredOnlyIfForced

LEMMA ForcedFound ==
  ASSUME NEW barred, ask.barred \subseteq barred, NEW p \in Found(ask.start, barred),
         p # NoPlan
  PROVE  ForcedIn(p, barred)
BY FoundAround DEF ForcedIn

\* The rest of the invariant when the call is answered and nothing else changes.
LEMMA BarsAnswered ==
  ASSUME BarsInv, NEW p, NEW status, Answered(p, status),
         UNCHANGED <<ask, primary, alternatives, prefix>>,
         \/ p = NoPlan \/ ask.way = "refine" \/ ForcedIn(p, ask.barred)
         \/ status = "optimal" /\ p \in alternatives
  PROVE  BarsInv'
<1>1. BarredOnlyIfForced'
  BY DEF BarsInv, BarredOnlyIfForced, Answered, ForcedIn, NoneAround, ActionsOf
<1> QED
  BY <1>1 DEF BarsInv, Answered, ForcedIn, NoneAround

LEMMA BarsPipelineStep ==
  ASSUME StrategyInv, BarsInv, FindPrimary \/ TryWithout \/ ChooseAlternative
  PROVE  BarsInv'
<1>1. CASE FindPrimary
  <2>1. PICK p \in Found(ask.start, ask.barred) :
          /\ primary' = p
          /\ \/ \E status : Answered(p, status)
             \/ stage' = "alternatives" /\ p # NoPlan /\ UNCHANGED answer
    BY <1>1 DEF FindPrimary
  <2>2. stage = "primary" /\ alternatives = {} /\ UNCHANGED <<ask, turn, alternatives, prefix>>
    BY <1>1 DEF FindPrimary, BarsInv
  <2>3. p # NoPlan => ForcedIn(p, ask.barred)
    BY ForcedFound
  <2>4. CASE \E status : Answered(p, status)
    <3>1. stage' = "done" /\ answer'.plan = p
      BY <2>4 DEF Answered
    <3>2. BarredOnlyIfForced'
      BY <2>2, <2>3, <3>1 DEF BarredOnlyIfForced, ForcedIn, NoneAround
    <3> QED
      BY <2>2, <3>1, <3>2 DEF BarsInv
  <2>5. CASE stage' = "alternatives" /\ p # NoPlan
    BY <2>1, <2>2, <2>3, <2>5 DEF BarsInv, BarredOnlyIfForced, ForcedIn, NoneAround
  <2> QED
    BY <2>1, <2>4, <2>5
<1>2. CASE TryWithout
  <2> DEFINE a == primary.actions[turn]
  <2>1. PICK p \in Found(ask.start, ask.barred \cup {a}) :
          alternatives' = alternatives \/ (p # NoPlan /\ alternatives' = alternatives \cup {p})
    BY <1>2 DEF TryWithout
  <2>2. /\ stage = "alternatives" /\ turn <= Len(primary.actions)
        /\ UNCHANGED <<ask, stage, primary, prefix, answer>>
    BY <1>2 DEF TryWithout, MoreToTry
  <2>3. a \in ActionsOf(primary)
    <3>1. turn \in Nat \ {0} /\ primary \in Plan
      BY <2>2 DEF StrategyInv, Solves, Runs
    <3>2. turn \in DOMAIN primary.actions
      BY <2>2, <3>1 DEF Plan
    <3> QED
      BY <3>2 DEF ActionsOf
  <2>4. p # NoPlan => ForcedIn(p, ask.barred \cup {a})
    BY ForcedFound
  <2> HIDE DEF a
  <2>5. \A q \in alternatives' :
          \E b \in ActionsOf(primary) : ForcedIn(q, ask.barred \cup {b})
    BY <2>1, <2>3, <2>4 DEF BarsInv
  <2> QED
    BY <2>2, <2>5
    DEF BarsInv, BarredOnlyIfForced, ForcedIn, NoneAround, ActionsOf
<1>3. CASE ChooseAlternative
  <2>1. /\ stage = "alternatives"
        /\ UNCHANGED <<ask, primary, turn, alternatives, prefix>>
        /\ \/ Answered(primary, "infeasible")
           \/ \E p \in alternatives : Answered(p, "optimal")
    <3>1. Optimal(ask.goal, alternatives) \subseteq alternatives
      BY DEF Optimal
    <3> QED
      BY <1>3, <3>1 DEF ChooseAlternative
  <2>2. ForcedIn(primary, ask.barred)
    BY <2>1 DEF BarsInv
  <2> QED
    BY <2>1, <2>2, BarsAnswered
<1> QED
  BY <1>1, <1>2, <1>3

LEMMA BarsRepairStep ==
  ASSUME StrategyInv, BarsInv, StartRepair \/ KeepAction \/ PlanSuffix
  PROVE  BarsInv'
<1>1. CASE StartRepair \/ KeepAction
  <2>1. /\ stage' \in {"search", "prefix"}
        /\ UNCHANGED <<ask, primary, alternatives>>
    BY <1>1 DEF StartRepair, KeepAction
  <2> QED
    BY <2>1 DEF BarsInv, BarredOnlyIfForced, ForcedIn, NoneAround
<1>2. CASE PlanSuffix
  <2> DEFINE mid == After(ask.start, prefix)
  <2>1. PICK p \in WaysOn(mid) :
          IF p = NoPlan \/ prefix = EmptyPlan
            THEN stage' = "search" /\ UNCHANGED answer
            ELSE Answered(Joined(prefix, p), "none")
    BY <1>2 DEF PlanSuffix, Joined
  <2>2. stage = "prefix" /\ UNCHANGED <<ask, primary, turn, alternatives, prefix>>
    BY <1>2 DEF PlanSuffix
  <2>3. CASE p = NoPlan \/ prefix = EmptyPlan
    BY <2>1, <2>2, <2>3 DEF BarsInv, BarredOnlyIfForced, ForcedIn, NoneAround
  <2>4. CASE ~(p = NoPlan \/ prefix = EmptyPlan)
    <3> DEFINE r == Joined(prefix, p)
               n == Len(prefix.actions)
    <3>1. /\ Solves(mid, p) /\ UsedOnce(prefix) /\ ask.way = "repair"
          /\ ask.start \in World /\ Runs(ask.start, prefix)
      BY <2>2, <2>4, FoundSolves, StretchUsedOnce DEF WaysOn, StrategyInv
    <3>2. /\ SubSeq(r.actions, 1, n) = prefix.actions
          /\ DOMAIN r.actions = 1 .. n + Len(p.actions)
          /\ \A i \in 1 .. Len(p.actions) : r.actions[n + i] = p.actions[i]
      <4>1. UsedOnce(p) /\ Runs(After(ask.start, prefix), p) /\ r = Joined(prefix, p)
        BY <3>1 DEF Solves
      <4>2. ask.start \in World /\ Runs(ask.start, prefix) /\ UsedOnce(prefix)
        BY <3>1
      <4> HIDE DEF r, mid
      <4>3. SubSeq(r.actions, 1, Len(prefix.actions)) = prefix.actions
        BY <4>1, <4>2, JoinedParts
      <4>4. /\ DOMAIN r.actions = 1 .. n + Len(p.actions)
            /\ \A i \in 1 .. Len(p.actions) : r.actions[n + i] = p.actions[i]
        <5>1. PICK s \in Seq(Actions) : s = prefix.actions
          BY <4>2, PlanShape
        <5>2. PICK t \in Seq(Actions) : t = p.actions
          BY <4>1 DEF Runs, Plan
        <5>3. Len(s) \in Nat /\ Len(t) \in Nat
          OBVIOUS
        <5>4. /\ s \o t \in Seq(Actions) /\ Len(s \o t) = Len(s) + Len(t)
              /\ \A i \in 1 .. Len(t) : (s \o t)[Len(s) + i] = t[i]
          BY <5>3, JoinedSeqs
        <5>5. DOMAIN (s \o t) = 1 .. Len(s) + Len(t)
          BY <5>4
        <5>6. r.actions = s \o t /\ Len(s) = n /\ Len(t) = Len(p.actions)
          BY <4>1, <5>1, <5>2 DEF Joined
        <5> QED
          BY <5>2, <5>4, <5>5, <5>6
      <4> QED
        BY <4>3, <4>4
    <3>3. ASSUME NEW i \in DOMAIN r.actions, r.actions[i] \in ask.barred
          PROVE  i <= n \/ NoneAround(mid, ask.barred)
      <4>1. /\ prefix.actions \in Seq(Actions) /\ n \in Nat
        BY <3>1, PlanShape
      <4>2. p.actions \in Seq(Actions)
        BY <3>1 DEF Solves, Runs, Plan
      <4>3. CASE ~(i <= n)
        <5>1. i - n \in 1 .. Len(p.actions) /\ n + (i - n) = i
          <6>1. i \in 1 .. n + Len(p.actions) /\ n \in Nat /\ Len(p.actions) \in Nat
            <7>1. Len(p.actions) \in Nat
              BY <4>2
            <7> HIDE DEF r, n
            <7> QED
              BY <3>2, <3>3, <4>1, <7>1
          <6> HIDE DEF n
          <6> QED
            BY <4>3, <6>1
        <5>2. i - n \in DOMAIN p.actions /\ r.actions[i] = p.actions[i - n]
          <6>1. r.actions[n + (i - n)] = p.actions[i - n]
            BY <3>2, <5>1
          <6> QED
            BY <4>2, <5>1, <6>1
        <5> QED
          BY <2>4, <3>3, <5>2, FoundAround DEF WaysOn
      <4> QED
        BY <4>3
    <3>4. Answered(r, "none")
      BY <2>1, <2>4
    <3> HIDE DEF r
    <3>5. BarredOnlyIfForced'
      BY <2>2, <3>1, <3>2, <3>3, <3>4
      DEF BarredOnlyIfForced, StartsWithPrefix, Answered, NoneAround
    <3> QED
      BY <2>2, <3>4, <3>5 DEF BarsInv, Answered, ForcedIn, NoneAround
  <2> QED
    BY <2>3, <2>4
<1> QED
  BY <1>1, <1>2

LEMMA BarsOtherStep ==
  ASSUME StrategyInv, BarsInv,
         Route \/ PlanFromScratch \/ PlanAhead \/ PlanInTime \/ BestAction \/ Refine
  PROVE  BarsInv'
<1>1. ASSUME NEW p \in Found(ask.start, ask.barred), p # NoPlan
      PROVE  ForcedIn(p, ask.barred)
  BY <1>1, ForcedFound
<1>2. CASE Route
  <2>1. stage = "asked" /\ stage' \in {"primary", "search"}
        /\ UNCHANGED <<ask, primary, turn, alternatives, prefix, answer>>
    BY <1>2 DEF Route
  <2> QED
    BY <2>1 DEF BarsInv, BarredOnlyIfForced, ForcedIn, NoneAround
<1>3. CASE PlanFromScratch \/ PlanInTime
  <2>1. /\ UNCHANGED <<ask, primary, turn, alternatives, prefix>>
        /\ \E p \in Found(ask.start, ask.barred) \cup {NoPlan} : Answered(p, "none")
    BY <1>3 DEF PlanFromScratch, PlanInTime
  <2> QED
    BY <1>1, <2>1, BarsAnswered
<1>4. CASE PlanAhead
  <2>1. /\ UNCHANGED <<ask, primary, turn, alternatives, prefix>>
        /\ \E p \in Found(ask.start, ask.barred) :
             IF p = NoPlan \/ Len(p.actions) <= Lookahead THEN Answered(p, "none")
             ELSE Answered([actions  |-> SubSeq(p.actions, 1, Lookahead),
                            expected |-> SubSeq(p.expected, 1, Lookahead)], "none")
    BY <1>4 DEF PlanAhead
  <2>2. PICK p \in Found(ask.start, ask.barred) :
          IF p = NoPlan \/ Len(p.actions) <= Lookahead THEN Answered(p, "none")
          ELSE Answered([actions  |-> SubSeq(p.actions, 1, Lookahead),
                         expected |-> SubSeq(p.expected, 1, Lookahead)], "none")
    BY <2>1
  <2>3. CASE p = NoPlan \/ Len(p.actions) <= Lookahead
    BY <1>1, <2>1, <2>2, <2>3, BarsAnswered
  <2>4. CASE ~(p = NoPlan \/ Len(p.actions) <= Lookahead)
    <3> DEFINE q == [actions  |-> SubSeq(p.actions, 1, Lookahead),
                     expected |-> SubSeq(p.expected, 1, Lookahead)]
    <3>1. p.actions \in Seq(Actions) /\ Len(p.actions) \in Nat /\ Lookahead \in Nat
      BY <2>4, FoundSolves, StrategyAssumption DEF Solves, Runs, Plan
    <3>2. \A i \in DOMAIN q.actions :
            i \in DOMAIN p.actions /\ q.actions[i] = p.actions[i]
      BY <2>4, <3>1
    <3>3. ForcedIn(q, ask.barred)
      BY <1>1, <2>4, <3>2 DEF ForcedIn
    <3>4. Answered(q, "none")
      BY <2>2, <2>4
    <3> HIDE DEF q
    <3> QED
      BY <2>1, <3>3, <3>4, BarsAnswered
  <2> QED
    BY <2>3, <2>4
<1>5. CASE BestAction
  <2>1. /\ UNCHANGED <<ask, primary, turn, alternatives, prefix>>
        /\ \/ Answered(NoPlan, "none")
           \/ \E a \in Actions \ ask.barred : Answered(Extend(ask.start, EmptyPlan, a), "none")
    BY <1>5 DEF BestAction
  <2>2. ASSUME NEW a \in Actions \ ask.barred
        PROVE  ForcedIn(Extend(ask.start, EmptyPlan, a), ask.barred)
    <3>1. Extend(ask.start, EmptyPlan, a).actions = <<a>>
      BY DEF Extend, EmptyPlan
    <3> QED
      BY <3>1 DEF ForcedIn
  <2> QED
    BY <2>1, <2>2, BarsAnswered
<1>6. CASE Refine
  BY <1>6, BarsAnswered DEF Refine
<1> QED
  BY <1>2, <1>3, <1>4, <1>5, <1>6

LEMMA BarsStep == StrategyInv /\ BarsInv /\ [StrategiesNext]_strategyVars => BarsInv'
<1>1. BarsInv /\ UNCHANGED strategyVars => BarsInv'
  BY DEF strategyVars, BarsInv, BarredOnlyIfForced, StartsWithPrefix, ForcedIn, NoneAround
<1> QED
  BY <1>1, BarsPipelineStep, BarsRepairStep, BarsOtherStep DEF StrategiesNext

\* No strategy puts a barred action into its answer while the search it made for
\* that part of the answer is sure to find one without; but for a kept prefix.
THEOREM BarredForced == StrategiesSpec => []BarredOnlyIfForced
<1>1. StrategyInv /\ BarsInv => BarredOnlyIfForced
  BY DEF BarsInv
<1>2. StrategiesInit => StrategyInv /\ BarsInv
  BY StrategyInitial, BarsInitial
<1>3. StrategyInv /\ BarsInv /\ [StrategiesNext]_strategyVars => StrategyInv' /\ BarsInv'
  BY StrategyStep, BarsStep
<1> QED
  BY <1>1, <1>2, <1>3, PTL DEF StrategiesSpec
-----------------------------------------------------------------------------
(* Induction over the naturals, for what a recursive function computes: on a set *)
(* instead of a predicate.                                                       *)

LEMMA LeastNumber ==
  ASSUME NEW T, T \subseteq Nat, T # {}
  PROVE  \E n \in T : \A m \in T : n <= m
<1> DEFINE R == OpToRel(<, Nat)
<1>1. \A m, n \in Nat : <<m, n>> \in R <=> m < n
  BY DEF OpToRel
<1>2. \E n \in T : \A m \in T : ~(<<m, n>> \in R)
  <2>1. IsWellFoundedOn(R, Nat)
    BY NatLessThanWellFounded
  <2> HIDE DEF R
  <2> QED
    BY <2>1, WFMin
<1> HIDE DEF R
<1>3. PICK n \in T : \A m \in T : ~(<<m, n>> \in R)
  BY <1>2
<1>4. \A m \in T : ~(m < n)
  BY <1>1, <1>3
<1> QED
  BY <1>4

LEMMA SetInduction ==
  ASSUME NEW T, 0 \in T, \A n \in Nat : n \in T => n + 1 \in T
  PROVE  Nat \subseteq T
<1> SUFFICES ASSUME Nat \ T # {} PROVE FALSE
  OBVIOUS
<1>1. PICK n \in Nat \ T : \A m \in Nat \ T : n <= m
  BY LeastNumber
<1>2. n - 1 \in Nat /\ n - 1 \notin T
  BY <1>1
<1> QED
  BY <1>1, <1>2
-----------------------------------------------------------------------------
(* MCTS: what a path costs. *)

Step == [by : Actions, to : World]

RootCost == IF top.by = NoPlan THEN 0 ELSE StepCost[top.by]

\* The recursion of PathCost, as an equation.
Counts(c, c0, path, n) ==
  c = [i \in 0 .. n |-> IF i = 0 THEN c0 ELSE c[i - 1] + StepCost[path[i].by]]

LEMMA CountExists ==
  ASSUME NEW c0, NEW path
  PROVE  \A n \in Nat : \E c : Counts(c, c0, path, n)
<1> DEFINE T == {n \in Nat : \E c : Counts(c, c0, path, n)}
<1>1. 0 \in T
  <2>1. Counts([i \in 0 .. 0 |-> c0], c0, path, 0)
    BY DEF Counts
  <2> QED
    BY <2>1
<1>2. ASSUME NEW n \in Nat, n \in T
      PROVE  n + 1 \in T
  <2>1. PICK c : Counts(c, c0, path, n)
    BY <1>2
  <2> DEFINE d == [i \in 0 .. n + 1 |-> IF i \in 0 .. n THEN c[i]
                                        ELSE c[n] + StepCost[path[n + 1].by]]
  <2>2. \A i \in 0 .. n + 1 : i = 0 \/ i - 1 \in 0 .. n
    OBVIOUS
  <2>3. \A i \in 0 .. n : d[i] = c[i]
    OBVIOUS
  <2>4. \A i \in 0 .. n : c[i] = IF i = 0 THEN c0 ELSE c[i - 1] + StepCost[path[i].by]
    BY <2>1 DEF Counts
  <2>5. d[n + 1] = d[n] + StepCost[path[n + 1].by]
    BY <2>3
  <2>6. \A i \in 0 .. n + 1 : d[i] = IF i = 0 THEN c0 ELSE d[i - 1] + StepCost[path[i].by]
    <3> TAKE i \in 0 .. n + 1
    <3>1. CASE i = n + 1
      <4>1. i # 0 /\ i - 1 = n
        BY <3>1
      <4> HIDE DEF d
      <4> QED
        BY <3>1, <4>1, <2>5
    <3>2. CASE i # n + 1
      <4>1. i \in 0 .. n /\ (i = 0 \/ i - 1 \in 0 .. n)
        BY <3>2, <2>2
      <4> HIDE DEF d
      <4> QED
        BY <4>1, <2>3, <2>4
    <3> QED
      BY <3>1, <3>2
  <2>7. d = [i \in 0 .. n + 1 |-> d[i]]
    OBVIOUS
  <2>8. Counts(d, c0, path, n + 1)
    <3> HIDE DEF d
    <3> QED
      BY <2>6, <2>7 DEF Counts
  <2> HIDE DEF d
  <2> QED
    BY <2>8
<1> HIDE DEF T
<1>3. Nat \subseteq T
  BY <1>1, <1>2, SetInduction
<1> QED
  BY <1>3 DEF T

\* PathCost from a root that costs c0.
CostFrom(c0, path) ==
  LET cost[i \in 0 .. Len(path)] ==
        IF i = 0 THEN c0 ELSE cost[i - 1] + StepCost[path[i].by]
  IN  cost[Len(path)]

LEMMA CostCounts ==
  ASSUME NEW c0, NEW path, Len(path) \in Nat
  PROVE  \E c : Counts(c, c0, path, Len(path)) /\ CostFrom(c0, path) = c[Len(path)]
<1> DEFINE c == CHOOSE c : c = [i \in 0 .. Len(path) |->
                  IF i = 0 THEN c0 ELSE c[i - 1] + StepCost[path[i].by]]
<1>1. CostFrom(c0, path) = c[Len(path)]
  BY DEF CostFrom
<1>2. \E x : Counts(x, c0, path, Len(path))
  BY CountExists
<1>3. Counts(c, c0, path, Len(path))
  BY <1>2 DEF Counts
<1> QED
  BY <1>1, <1>3

\* One step of such a function.
LEMMA CountStep ==
  ASSUME NEW c, NEW c0, NEW path, NEW n \in Nat, Counts(c, c0, path, n)
  PROVE  /\ c[0] = c0
         /\ \A i \in Nat : i + 1 <= n => c[i + 1] = c[i] + StepCost[path[i + 1].by]
<1>1. \A i \in 0 .. n : c[i] = IF i = 0 THEN c0 ELSE c[i - 1] + StepCost[path[i].by]
  BY DEF Counts
<1>2. c[0] = c0
  BY <1>1
<1>3. ASSUME NEW i \in Nat, i + 1 <= n
      PROVE  c[i + 1] = c[i] + StepCost[path[i + 1].by]
  <2>1. i + 1 \in 0 .. n /\ i + 1 # 0 /\ (i + 1) - 1 = i
    BY <1>3
  <2> QED
    BY <1>1, <2>1
<1> QED
  BY <1>2, <1>3

LEMMA CountType ==
  ASSUME NEW c, NEW c0 \in Nat, NEW path, NEW n \in Nat, Counts(c, c0, path, n),
         \A i \in 1 .. n : path[i].by \in Actions
  PROVE  \A i \in 0 .. n : c[i] \in Nat
<1> DEFINE T == {i \in Nat : i <= n => c[i] \in Nat}
<1>1. 0 \in T
  BY CountStep
<1>2. ASSUME NEW i \in Nat, i \in T
      PROVE  i + 1 \in T
  <2> SUFFICES ASSUME i + 1 <= n
               PROVE  c[i + 1] \in Nat
    OBVIOUS
  <2>1. c[i + 1] = c[i] + StepCost[path[i + 1].by]
    BY CountStep
  <2>2. path[i + 1].by \in Actions
    OBVIOUS
  <2>3. StepCost[path[i + 1].by] \in Nat
    BY <2>2, TreeAssumption
  <2>4. c[i] \in Nat
    BY <1>2
  <2> QED
    BY <2>1, <2>3, <2>4
<1> HIDE DEF T
<1>3. Nat \subseteq T
  BY <1>1, <1>2, SetInduction
<1> QED
  BY <1>3 DEF T

LEMMA CostType ==
  ASSUME NEW c0 \in Nat, NEW path \in Seq(Step)
  PROVE  CostFrom(c0, path) \in Nat
<1>1. Len(path) \in Nat /\ \A i \in 1 .. Len(path) : path[i].by \in Actions
  <2>1. Len(path) \in Nat /\ \A i \in 1 .. Len(path) : path[i] \in Step
    OBVIOUS
  <2> QED
    BY <2>1 DEF Step
<1>2. PICK c : Counts(c, c0, path, Len(path)) /\ CostFrom(c0, path) = c[Len(path)]
  BY <1>1, CostCounts
<1> QED
  BY <1>1, <1>2, CountType

\* What the first actions of a path cost is what the path to there costs.
LEMMA SpentIs ==
  ASSUME NEW c0 \in Nat, NEW p \in Seq(Step), NEW as,
         \A i \in 1 .. Len(p) : as[i] = p[i].by
  PROVE  Spent(c0, as, Len(p)) = CostFrom(c0, p)
<1> DEFINE n == Len(p)
           q == [i \in 1 .. n |-> [by |-> as[i]]]
           sum == CHOOSE c : c = [i \in 0 .. n |->
                    IF i = 0 THEN c0 ELSE c[i - 1] + StepCost[as[i]]]
<1>0. n \in Nat
  OBVIOUS
<1>1. PICK c : Counts(c, c0, p, n) /\ CostFrom(c0, p) = c[n]
  BY <1>0, CostCounts
<1>2. Spent(c0, as, n) = sum[n]
  BY DEF Spent
<1>3. PICK x : Counts(x, c0, q, n)
  BY <1>0, CountExists
<1> HIDE DEF n
<1>4. \A i \in 1 .. n : q[i].by = as[i]
  OBVIOUS
<1> HIDE DEF q
<1>5. \A i \in 0 .. n : i = 0 \/ i \in 1 .. n
  BY <1>0
<1>6. x = [i \in 0 .. n |-> IF i = 0 THEN c0 ELSE x[i - 1] + StepCost[as[i]]]
  BY <1>3, <1>4, <1>5 DEF Counts
<1>7. sum = [i \in 0 .. n |-> IF i = 0 THEN c0 ELSE sum[i - 1] + StepCost[as[i]]]
  BY <1>6
<1> HIDE DEF sum
<1>8. Counts(sum, c0, q, n)
  BY <1>4, <1>5, <1>7 DEF Counts
<1>9. \A i \in 1 .. n : q[i].by = p[i].by
  BY <1>4 DEF n
<1> DEFINE T == {i \in Nat : i <= n => c[i] = sum[i]}
<1>10. 0 \in T
  BY <1>0, <1>1, <1>8, CountStep
<1>11. ASSUME NEW i \in Nat, i \in T
      PROVE  i + 1 \in T
  <2> SUFFICES ASSUME i + 1 <= n
               PROVE  c[i + 1] = sum[i + 1]
    OBVIOUS
  <2>1. /\ c[i + 1] = c[i] + StepCost[p[i + 1].by]
        /\ sum[i + 1] = sum[i] + StepCost[q[i + 1].by]
    BY <1>0, <1>1, <1>8, CountStep
  <2>2. q[i + 1].by = p[i + 1].by /\ c[i] = sum[i]
    BY <1>0, <1>9, <1>11
  <2> QED
    BY <2>1, <2>2
<1> HIDE DEF T
<1>12. Nat \subseteq T
  BY <1>10, <1>11, SetInduction
<1>13. c[n] = sum[n]
  BY <1>0, <1>12 DEF T
<1> QED
  BY <1>1, <1>2, <1>13 DEF n

\* A path costs at least as much as what is left of it when its first step becomes
\* the root.
LEMMA RestCostsLess ==
  ASSUME NEW c0 \in Nat, NEW d0 \in Nat, NEW step \in Step, NEW rest \in Seq(Step),
         d0 <= StepCost[step.by]
  PROVE  CostFrom(d0, rest) <= CostFrom(c0, <<step>> \o rest)
<1> DEFINE n == Len(rest)
           q == <<step>> \o rest
<1>0. n \in Nat /\ q \in Seq(Step) /\ Len(q) = n + 1
  OBVIOUS
<1>1. q[1] = step /\ \A i \in 1 .. n : q[i + 1] = rest[i]
  OBVIOUS
<1>2. /\ \A i \in 1 .. n : rest[i].by \in Actions
      /\ \A i \in 1 .. n + 1 : q[i].by \in Actions
  <2>1. \A i \in 1 .. n : rest[i] \in Step
    OBVIOUS
  <2>2. \A i \in 1 .. n + 1 : q[i] \in Step
    BY <1>0
  <2> QED
    BY <2>1, <2>2 DEF Step
<1> HIDE DEF n, q
<1>3. PICK d : Counts(d, d0, rest, n) /\ CostFrom(d0, rest) = d[n]
  BY <1>0, CostCounts DEF n
<1>4. PICK c : Counts(c, c0, q, n + 1) /\ CostFrom(c0, q) = c[n + 1]
  BY <1>0, CostCounts
<1>5. /\ \A i \in 0 .. n : d[i] \in Nat
      /\ \A i \in 0 .. n + 1 : c[i] \in Nat
  <2>1. n \in Nat /\ n + 1 \in Nat
    BY <1>0
  <2>2. \A i \in 0 .. n : d[i] \in Nat
    BY <2>1, <1>2, <1>3, CountType
  <2>3. \A i \in 0 .. n + 1 : c[i] \in Nat
    BY <2>1, <1>2, <1>4, CountType
  <2> QED
    BY <2>2, <2>3
<1> DEFINE T == {i \in Nat : i <= n => d[i] <= c[i + 1]}
<1>6. 0 \in T
  <2>1. d[0] = d0 /\ c[0] = c0 /\ c[1] = c[0] + StepCost[q[1].by]
    <3>1. n + 1 \in Nat /\ 0 \in Nat /\ 0 + 1 <= n + 1 /\ 0 + 1 = 1
      BY <1>0
    <3>2. \A i \in Nat : i + 1 <= n + 1 => c[i + 1] = c[i] + StepCost[q[i + 1].by]
      BY <3>1, <1>4, CountStep
    <3>3. c[0 + 1] = c[0] + StepCost[q[0 + 1].by]
      BY <3>1, <3>2
    <3> QED
      BY <3>1, <3>3, <1>0, <1>3, <1>4, CountStep
  <2>2. StepCost[step.by] \in Nat
    BY TreeAssumption DEF Step
  <2> QED
    BY <2>1, <2>2, <1>1
<1>7. ASSUME NEW i \in Nat, i \in T
      PROVE  i + 1 \in T
  <2> SUFFICES ASSUME i + 1 <= n
               PROVE  d[i + 1] <= c[i + 2]
    OBVIOUS
  <2>1. d[i + 1] = d[i] + StepCost[rest[i + 1].by]
    BY <1>0, <1>3, CountStep
  <2>2. c[(i + 1) + 1] = c[i + 1] + StepCost[q[(i + 1) + 1].by]
    BY <1>0, <1>4, CountStep
  <2>3. q[(i + 1) + 1] = rest[i + 1] /\ (i + 1) + 1 = i + 2
    BY <1>0, <1>1
  <2>4. StepCost[rest[i + 1].by] \in Nat
    BY <1>2, TreeAssumption
  <2>5. d[i] <= c[i + 1] /\ d[i] \in Nat /\ c[i + 1] \in Nat
    BY <1>0, <1>5, <1>7
  <2> QED
    BY <2>1, <2>2, <2>3, <2>4, <2>5
<1> HIDE DEF T
<1>8. Nat \subseteq T
  BY <1>6, <1>7, SetInduction
<1>9. d[n] <= c[n + 1]
  BY <1>0, <1>8 DEF T
<1> QED
  BY <1>3, <1>4, <1>9 DEF q
-----------------------------------------------------------------------------
(* MCTS: what holds of every path of the tree. *)

\* The i-th step of a path could be taken when the tree was grown.
StepHolds(path, i) ==
  LET before == StateAt(Upto(path, i - 1)) IN
  /\ Satisfies(before, Pre[path[i].by])
  /\ path[i].to \in Results(before, path[i].by)
  /\ path[i].by \in grown.actions
  /\ setting.budget # NoBudget => CostFrom(RootCost, Upto(path, i - 1)) < setting.budget

\* What is left to try can be done there; a terminal node meets some call's aim.
NodeHolds(node, path) ==
  /\ node \in [untried : SUBSET Actions, terminal : BOOLEAN]
  /\ \A a \in node.untried : a \in grown.actions /\ Satisfies(StateAt(path), Pre[a])
  /\ node.terminal => \E aim \in grown.aims : Satisfies(StateAt(path), aim)

TreeHolds(tree) ==
  /\ DOMAIN tree \subseteq Seq(Step)
  /\ \A n \in DOMAIN tree :
       (\A i \in 1 .. Len(n) : StepHolds(n, i)) /\ NodeHolds(tree[n], n)

TreeTypes ==
  /\ setting \in Settings
  /\ top.state \in World /\ top.by \in Actions \cup {NoPlan}
  /\ call \in [aim : TreeAims \cup {NoPlan}, start : World, barred : SUBSET Actions]

TreeInv ==
  /\ TreeTypes
  /\ call.start = top.state
  /\ ~Idle => /\ call.aim \in grown.aims /\ Actions \ call.barred \subseteq grown.actions
              /\ carried = NoPlan
  /\ TreeHolds(nodes)
  /\ carried # NoPlan => \E n \in DOMAIN nodes : n # <<>> /\ n[1] = carried
  /\ Idle /\ returned \notin {NoPlan, EmptyPlan} =>
       \E n \in DOMAIN nodes : returned = PlanTo(n) /\ (nodes[n].terminal \/ setting.fallback)

LEMMA ResultsType ==
  ASSUME NEW w \in World, NEW a \in Actions
  PROVE  Results(w, a) \subseteq World
<1>1. Outcomes[a] \subseteq World /\ Eff[a] \in World
  BY TreeAssumption, DomainAssumption
<1> QED
  BY <1>1, ApplyType DEF Results

LEMMA StateType ==
  ASSUME TreeTypes, NEW n \in Seq(Step)
  PROVE  StateAt(n) \in World
<1>1. CASE n = <<>>
  BY <1>1 DEF StateAt, TreeTypes
<1>2. CASE n # <<>>
  <2>1. n[Len(n)] \in Step
    BY <1>2
  <2> QED
    BY <1>2, <2>1 DEF StateAt, Step
<1> QED
  BY <1>1, <1>2

LEMMA RootCostType ==
  ASSUME TreeTypes
  PROVE  RootCost \in Nat
BY TreeAssumption DEF RootCost, TreeTypes

LEMMA PathCostIs ==
  ASSUME NEW n
  PROVE  PathCost(n) = CostFrom(RootCost, n)
BY DEF PathCost, CostFrom, RootCost

\* A path that is not too long yet is below the budget.
LEMMA BelowBudget ==
  ASSUME TreeTypes, NEW n \in Seq(Step), ~OverBudget(n), setting.budget # NoBudget
  PROVE  CostFrom(RootCost, n) < setting.budget
<1>1. CostFrom(RootCost, n) \in Nat
  BY RootCostType, CostType
<1>2. setting.budget \in Nat
  BY TreeAssumption DEF TreeTypes
<1>3. ~(CostFrom(RootCost, n) >= setting.budget)
  BY PathCostIs DEF OverBudget
<1> QED
  BY <1>1, <1>2, <1>3

LEMMA AppendedPath ==
  ASSUME NEW n \in Seq(Step), NEW step \in Step
  PROVE  LET m == Append(n, step) IN
         /\ m \in Seq(Step) /\ m # <<>> /\ Len(m) = Len(n) + 1 /\ m[Len(m)] = step
         /\ m[Len(n) + 1] = step
         /\ StateAt(m) = step.to
         /\ Upto(m, Len(n)) = n
         /\ \A i \in 1 .. Len(n) : m[i] = n[i] /\ Upto(m, i - 1) = Upto(n, i - 1)
<1> DEFINE m == Append(n, step)
<1>1. m \in Seq(Step) /\ m # <<>> /\ Len(m) = Len(n) + 1 /\ m[Len(m)] = step
  OBVIOUS
<1>2. \A i \in 1 .. Len(n) : m[i] = n[i]
  OBVIOUS
<1>3. Len(n) \in Nat /\ n \in [1 .. Len(n) -> Step]
  OBVIOUS
<1> HIDE DEF m
<1>4. StateAt(m) = step.to
  BY <1>1 DEF StateAt
<1>5. Upto(m, Len(n)) = n
  <2>1. Upto(m, Len(n)) = [i \in 1 .. Len(n) |-> m[i]]
    BY <1>1, <1>3 DEF Upto
  <2> QED
    BY <2>1, <1>2, <1>3
<1>6. ASSUME NEW i \in 1 .. Len(n)
      PROVE  Upto(m, i - 1) = Upto(n, i - 1)
  <2>1. /\ Upto(m, i - 1) = [j \in 1 .. i - 1 |-> m[j]]
        /\ Upto(n, i - 1) = [j \in 1 .. i - 1 |-> n[j]]
    BY <1>1, <1>3 DEF Upto
  <2>2. 1 .. i - 1 \subseteq 1 .. Len(n)
    BY <1>3
  <2> QED
    BY <2>1, <2>2, <1>2
<1> QED
  BY <1>1, <1>2, <1>3, <1>4, <1>5, <1>6 DEF m

\* A node added below one that is within the budget, by an action possible there.
LEMMA NodeAdded ==
  ASSUME TreeInv, ~Idle, NEW tree, TreeHolds(tree), NEW n \in DOMAIN tree,
         NEW a \in Actions, a \in grown.actions, Satisfies(StateAt(n), Pre[a]),
         NEW w \in Results(StateAt(n), a), ~OverBudget(n)
  PROVE  TreeHolds(With(tree, Append(n, [by |-> a, to |-> w])))
<1> DEFINE step == [by |-> a, to |-> w]
           m == Append(n, step)
           new == With(tree, m)
<1>1. TreeTypes /\ n \in Seq(Step)
  BY DEF TreeInv, TreeHolds
<1>2. w \in World
  BY <1>1, StateType, ResultsType
<1>3. step \in Step /\ step.by = a /\ step.to = w
  BY <1>2 DEF Step
<1> HIDE DEF step
<1>4. /\ m \in Seq(Step) /\ Len(m) = Len(n) + 1 /\ m[Len(n) + 1] = step
      /\ StateAt(m) = w
      /\ Upto(m, Len(n)) = n
      /\ \A i \in 1 .. Len(n) : m[i] = n[i] /\ Upto(m, i - 1) = Upto(n, i - 1)
  BY <1>1, <1>3, AppendedPath
<1> HIDE DEF m
<1>5. \A i \in 1 .. Len(n) : StepHolds(n, i)
  BY DEF TreeHolds
<1>6. ASSUME NEW i \in 1 .. Len(m)
      PROVE  StepHolds(m, i)
  <2>1. CASE i \in 1 .. Len(n)
    BY <2>1, <1>4, <1>5 DEF StepHolds
  <2>2. CASE i \notin 1 .. Len(n)
    <3>1. i = Len(n) + 1 /\ i - 1 = Len(n)
      BY <2>2, <1>1, <1>4
    <3>2. setting.budget # NoBudget => CostFrom(RootCost, n) < setting.budget
      BY <1>1, BelowBudget
    <3> QED
      BY <3>1, <3>2, <1>3, <1>4 DEF StepHolds
  <2> QED
    BY <2>1, <2>2
<1>7. NodeHolds(Fresh(StateAt(m)), m)
  BY DEF NodeHolds, Fresh, Satisfies, TreeInv
<1>8. DOMAIN new = DOMAIN tree \cup {m}
  BY DEF With
<1>9. \A k \in DOMAIN new : new[k] = IF k = m THEN Fresh(StateAt(m)) ELSE tree[k]
  BY DEF With
<1> HIDE DEF new
<1>10. TreeHolds(new)
  BY <1>4, <1>6, <1>7, <1>8, <1>9 DEF TreeHolds
<1> QED
  BY <1>10 DEF new, m, step
LEMMA ExpandedHolds ==
  ASSUME TreeInv, ~Idle, NEW tree, TreeHolds(tree), NEW n \in DOMAIN tree,
         NEW new \in Expanded(tree, n)
  PROVE  TreeHolds(new)
<1>1. NodeHolds(tree[n], n) /\ n \in Seq(Step)
  BY DEF TreeHolds
<1>2. CASE Satisfies(StateAt(n), call.aim)
  <2>1. new = [tree EXCEPT ![n].terminal = TRUE]
    BY <1>2 DEF Expanded
  <2>2. DOMAIN new = DOMAIN tree /\ \A k \in DOMAIN tree : k # n => new[k] = tree[k]
    BY <2>1
  <2>3. new[n] = [tree[n] EXCEPT !.terminal = TRUE]
    BY <2>1
  <2>4. NodeHolds(new[n], n)
    BY <2>3, <1>1, <1>2 DEF NodeHolds, TreeInv
  <2> QED
    BY <2>2, <2>4 DEF TreeHolds
<1>3. CASE new = tree
  BY <1>3
<1>4. CASE ~Satisfies(StateAt(n), call.aim) /\ new # tree
  <2>1. ~OverBudget(n)
    BY <1>4 DEF Expanded
  <2>2. PICK a \in tree[n].untried : \E w \in Results(StateAt(n), a) :
           new = With([tree EXCEPT ![n].untried = @ \ {a}], Append(n, [by |-> a, to |-> w]))
    BY <1>4 DEF Expanded
  <2> DEFINE less == [tree EXCEPT ![n].untried = @ \ {a}]
  <2>3. DOMAIN less = DOMAIN tree /\ \A k \in DOMAIN tree : k # n => less[k] = tree[k]
    OBVIOUS
  <2>4. less[n] = [tree[n] EXCEPT !.untried = @ \ {a}]
    OBVIOUS
  <2> HIDE DEF less
  <2>5. NodeHolds(less[n], n)
    BY <2>4, <1>1 DEF NodeHolds
  <2>6. TreeHolds(less)
    BY <2>3, <2>5 DEF TreeHolds
  <2>7. a \in Actions /\ a \in grown.actions /\ Satisfies(StateAt(n), Pre[a])
    BY <1>1 DEF NodeHolds
  <2>8. PICK w \in Results(StateAt(n), a) : new = With(less, Append(n, [by |-> a, to |-> w]))
    BY <2>2 DEF less
  <2> QED
    BY <2>1, <2>3, <2>6, <2>7, <2>8, NodeAdded
<1> QED
  BY <1>2, <1>3, <1>4

\* A child shows that its last action can be done at its parent.
LEMMA KidStep ==
  ASSUME TreeInv, NEW n \in DOMAIN nodes, NEW k \in Kids(n)
  PROVE  /\ k[Len(k)].by \in Actions /\ k[Len(k)].by \in grown.actions
         /\ Satisfies(StateAt(n), Pre[k[Len(k)].by])
<1>1. k \in DOMAIN nodes /\ Len(k) = Len(n) + 1 /\ Upto(k, Len(n)) = n
  BY DEF Kids
<1>2. n \in Seq(Step) /\ k \in Seq(Step) /\ \A i \in 1 .. Len(k) : StepHolds(k, i)
  BY <1>1 DEF TreeInv, TreeHolds
<1>3. Len(k) \in 1 .. Len(k) /\ Len(k) - 1 = Len(n) /\ k[Len(k)] \in Step
  BY <1>1, <1>2
<1>4. StepHolds(k, Len(k))
  BY <1>2, <1>3
<1> QED
  BY <1>1, <1>3, <1>4 DEF StepHolds, Step

LEMMA SampledHolds ==
  ASSUME TreeInv, ~Idle, NEW n \in Sampled
  PROVE  TreeHolds(With(nodes, n))
<1>1. PICK p \in DOMAIN nodes : ~Stops(p) /\ n \in OutcomesBelow(p)
  BY DEF Sampled
<1>2. PICK a \in {k[Len(k)].by : k \in Kids(p)} :
        n \in {Append(p, [by |-> a, to |-> w]) : w \in Results(StateAt(p), a)}
  BY <1>1 DEF OutcomesBelow
<1>3. PICK w \in Results(StateAt(p), a) : n = Append(p, [by |-> a, to |-> w])
  BY <1>2
<1>5. a \in Actions /\ a \in grown.actions /\ Satisfies(StateAt(p), Pre[a])
  BY KidStep
<1>4. TreeHolds(nodes) /\ ~OverBudget(p)
  BY <1>1 DEF Stops, TreeInv
<1> QED
  BY <1>3, <1>4, <1>5, NodeAdded

LEMMA IterateStep ==
  ASSUME TreeInv, Iterate
  PROVE  TreeInv'
<1>1. TreeHolds(nodes) /\ ~Idle
  BY DEF TreeInv, Iterate
<1>2. PICK new : new = nodes' /\ TreeHolds(new)
  <2>1. ASSUME NEW n \in Selected, nodes' \in Expanded(nodes, n)
        PROVE  TreeHolds(nodes')
    <3>1. n \in DOMAIN nodes
      BY DEF Selected
    <3>2. \A new \in Expanded(nodes, n) : TreeHolds(new)
      BY <1>1, <3>1, ExpandedHolds
    <3> QED
      BY <2>1, <3>2
  <2>2. ASSUME NEW n \in Sampled \ DOMAIN nodes,
               nodes' \in Expanded(With(nodes, n), n)
        PROVE  TreeHolds(nodes')
    <3>1. TreeHolds(With(nodes, n))
      BY <1>1, <2>2, SampledHolds
    <3>2. n \in DOMAIN With(nodes, n)
      BY DEF With
    <3>3. \A new \in Expanded(With(nodes, n), n) : TreeHolds(new)
      BY <1>1, <3>1, <3>2, ExpandedHolds
    <3> QED
      BY <2>2, <3>3
  <2> QED
    BY <2>1, <2>2 DEF Iterate
<1>3. UNCHANGED <<setting, call, top, carried, returned, grown>>
  BY DEF Iterate
<1>4. TreeHolds(new)'
  BY <1>2, <1>3 DEF TreeHolds, StepHolds, NodeHolds, StateAt, Results, RootCost
<1>5. TreeHolds(nodes)'
  BY <1>2, <1>4
<1>7. TreeTypes' /\ ~Idle'
  BY <1>1, <1>3 DEF TreeTypes, TreeInv, Idle
<1> QED
  BY <1>1, <1>3, <1>5, <1>7 DEF TreeInv, Idle
\* A step from the root becomes the root: what remains of a path through it.
LEMMA ShiftedPath ==
  ASSUME NEW m \in Seq(Step), m # <<>>
  PROVE  LET n == SubSeq(m, 2, Len(m)) IN
         /\ n \in Seq(Step) /\ m = <<m[1]>> \o n /\ Len(m) = Len(n) + 1
         /\ n = <<>> => Len(m) = 1
         /\ \A i \in 1 .. Len(n) : /\ n[i] = m[i + 1]
                                   /\ Upto(m, i) = <<m[1]>> \o Upto(n, i - 1)
                                   /\ Upto(n, i - 1) \in Seq(Step)
                                   /\ Upto(m, i) \in Seq(Step)
<1> DEFINE n == SubSeq(m, 2, Len(m))
           l == Len(m) - 1
<1>1. l \in Nat /\ Len(m) = l + 1 /\ m \in [1 .. l + 1 -> Step]
  OBVIOUS
<1>2. n = [i \in 1 .. l |-> m[i + 1]]
  OBVIOUS
<1>3. n \in Seq(Step) /\ Len(n) = l
  BY <1>1, <1>2
<1> HIDE DEF n, l
<1>4. m = <<m[1]>> \o n
  <2> DEFINE q == <<m[1]>> \o n
  <2>1. q \in Seq(Step) /\ Len(q) = l + 1
    BY <1>1, <1>3
  <2>2. \A i \in 1 .. l + 1 : q[i] = m[i]
    BY <1>1, <1>2, <1>3
  <2>3. q = [i \in 1 .. l + 1 |-> q[i]] /\ m = [i \in 1 .. l + 1 |-> m[i]]
    <3> HIDE DEF q
    <3> QED
      BY <1>1, <2>1
  <2> QED
    BY <2>2, <2>3
<1>5. ASSUME NEW i \in 1 .. l
      PROVE  /\ n[i] = m[i + 1]
             /\ Upto(m, i) = <<m[1]>> \o Upto(n, i - 1)
             /\ Upto(n, i - 1) \in Seq(Step) /\ Upto(m, i) \in Seq(Step)
  <2>1. n[i] = m[i + 1]
    BY <1>1, <1>2
  <2>2. /\ Upto(n, i - 1) = [j \in 1 .. i - 1 |-> n[j]]
        /\ Upto(m, i) = [j \in 1 .. i |-> m[j]]
    BY <1>1, <1>3 DEF Upto
  <2> DEFINE u == [j \in 1 .. i - 1 |-> n[j]]
             v == [j \in 1 .. i |-> m[j]]
             q == <<m[1]>> \o u
  <2>3. u \in Seq(Step) /\ v \in Seq(Step) /\ Len(u) = i - 1 /\ Len(v) = i
    <3>1. /\ i - 1 \in Nat /\ i \in Nat
          /\ \A j \in 1 .. i - 1 : n[j] \in Step
          /\ \A j \in 1 .. i : m[j] \in Step
      BY <1>1, <1>3
    <3> QED
      BY <3>1
  <2>4. q \in Seq(Step) /\ Len(q) = i
    <3> HIDE DEF u
    <3> QED
      BY <2>3, <1>1
  <2>5. \A j \in 1 .. i : q[j] = v[j]
    <3> TAKE j \in 1 .. i
    <3>1. q[j] = IF j = 1 THEN m[1] ELSE u[j - 1]
      <4> HIDE DEF u
      <4> QED
        BY <2>3
    <3>2. j # 1 => u[j - 1] = m[j]
      <4>1. j # 1 => j - 1 \in 1 .. i - 1 /\ j - 1 \in 1 .. l /\ (j - 1) + 1 = j
        BY <1>1
      <4> QED
        BY <4>1, <1>2
    <3> QED
      BY <3>1, <3>2
  <2>6. q = v
    <3> HIDE DEF u, v, q
    <3> QED
      BY <2>3, <2>4, <2>5
  <2> QED
    BY <2>1, <2>2, <2>3, <2>6
<1>6. n = <<>> => Len(m) = 1
  BY <1>1, <1>3
<1> QED
  BY <1>1, <1>3, <1>4, <1>5, <1>6 DEF n

LEMMA TreeInitial == TreeInit => TreeInv
<1> SUFFICES ASSUME TreeInit PROVE TreeInv
  OBVIOUS
<1>1. Idle /\ TreeTypes
  BY NothingType DEF TreeInit, Idle, TreeTypes
<1>2. TreeHolds(nodes)
  BY DEF TreeInit, TreeHolds
<1> QED
  BY <1>1, <1>2 DEF TreeInit, TreeInv

LEMMA PlanNothingStep ==
  ASSUME TreeInv, NEW start, NEW aim, PlanNothing(start, aim)
  PROVE  TreeInv'
<1>1. TreeHolds(nodes)'
  BY DEF PlanNothing, TreeInv, TreeHolds, StepHolds, NodeHolds, StateAt, Results, RootCost
<1> QED
  BY <1>1 DEF PlanNothing, TreeInv, TreeTypes, Idle

LEMMA AdvanceStep ==
  ASSUME TreeInv, Advance
  PROVE  TreeInv'
<1>1. TreeHolds(nodes)'
  BY DEF Advance, TreeInv, TreeHolds, StepHolds, NodeHolds, StateAt, Results, RootCost
<1>2. carried' # NoPlan => \E n \in DOMAIN nodes : n # <<>> /\ n[1] = carried'
  <2> SUFFICES ASSUME NEW n \in Kids(<<>>)
               PROVE  n \in DOMAIN nodes /\ n # <<>>
    BY DEF Advance, FirstOf
  <2> QED
    BY DEF Kids
<1> QED
  BY <1>1, <1>2 DEF Advance, TreeInv, TreeTypes, Idle, PlanTo

LEMMA ExtractStep ==
  ASSUME TreeInv, Extract
  PROVE  TreeInv'
<1>1. TreeHolds(nodes)'
  BY DEF Extract, TreeInv, TreeHolds, StepHolds, NodeHolds, StateAt, Results, RootCost
<1>2. TreeTypes' /\ call'.start = call.start
  BY DEF Extract, TreeInv, TreeTypes
<1>3. Idle' /\ ~Idle
  BY DEF Extract, Idle, TreeInv, TreeTypes
<1>4. returned' = NoPlan \/ \E n \in DOMAIN nodes : returned' = PlanTo(n) /\ (nodes[n].terminal \/ setting.fallback)
  BY DEF Extract, Terminals, Descents
<1> QED
  BY <1>1, <1>2, <1>3, <1>4 DEF Extract, TreeInv, PlanTo
\* A call that goes on with the tree below what was carried over.
LEMMA ReuseStep ==
  ASSUME TreeInv, NEW start \in TreeStarts, NEW aim \in TreeAims, NEW barred \in TreeBars,
         BeginPlan(start, aim, barred), Reusable(start)
  PROVE  TreeHolds(nodes)' /\ top'.state = start /\ TreeTypes'
<1> DEFINE root == [state |-> carried.to, by |-> carried.by]
<1>1. top' = root /\ nodes' = Subtree(carried) /\ setting' = setting
  BY DEF BeginPlan
<1>2. carried.to = start /\ carried # NoPlan
  BY DEF Reusable
<1>3. PICK r \in DOMAIN nodes : r # <<>> /\ r[1] = carried
  BY <1>2 DEF TreeInv
<1>4. TreeTypes /\ TreeHolds(nodes) /\ DOMAIN nodes \subseteq Seq(Step)
  BY DEF TreeInv, TreeHolds
<1>5. carried \in Step
  BY <1>3, <1>4
<1>6. TreeTypes' /\ top'.state = start /\ top'.by = carried.by
  BY <1>1, <1>2, <1>4, <1>5, TreeAssumption DEF BeginPlan, TreeTypes, Step
<1>7. grown.actions \subseteq grown'.actions /\ grown.aims \subseteq grown'.aims
  BY DEF BeginPlan, Reusable
<1>8. RootCost \in Nat /\ RootCost' \in Nat /\ RootCost' <= StepCost[carried.by]
  <2>1. StepCost[carried.by] \in Nat
    BY <1>5, TreeAssumption DEF Step
  <2> QED
    BY <2>1, <1>4, <1>6, RootCostType DEF RootCost
<1>9. \A w, a : Results(w, a)' = Results(w, a)
  BY <1>1 DEF Results
<1> HIDE DEF root
<1>10. ASSUME NEW n \in DOMAIN nodes'
       PROVE  /\ n \in Seq(Step)
              /\ \A i \in 1 .. Len(n) : StepHolds(n, i)'
              /\ NodeHolds(nodes[n], n)'
  <2>1. PICK m \in DOMAIN nodes : m # <<>> /\ m[1] = carried /\ n = SubSeq(m, 2, Len(m))
    BY <1>1 DEF Subtree, FirstOf
  <2>2. m \in Seq(Step)
    BY <1>4
  <2>3. /\ n \in Seq(Step) /\ m = <<carried>> \o n /\ Len(m) = Len(n) + 1
        /\ n = <<>> => Len(m) = 1
        /\ \A i \in 1 .. Len(n) : /\ n[i] = m[i + 1]
                                  /\ Upto(m, i) = <<carried>> \o Upto(n, i - 1)
                                  /\ Upto(n, i - 1) \in Seq(Step)
                                  /\ Upto(m, i) \in Seq(Step)
    BY <2>1, <2>2, ShiftedPath
  <2>4. nodes'[n] = nodes[m]
    BY <1>1, <2>3 DEF Subtree
  <2>5. \A k \in Seq(Step) : StateAt(k)' = StateAt(<<carried>> \o k)
    <3> TAKE k \in Seq(Step)
    <3>1. CASE k = <<>>
      <4>1. <<carried>> \o k = <<carried>>
        BY <3>1, <1>5
      <4> QED
        BY <3>1, <4>1, <1>2, <1>6 DEF StateAt
    <3>2. CASE k # <<>>
      <4> DEFINE q == <<carried>> \o k
      <4>1. q # <<>> /\ Len(q) = Len(k) + 1 /\ q[Len(q)] = k[Len(k)]
        BY <3>2, <1>5
      <4> HIDE DEF q
      <4>2. StateAt(q) = k[Len(k)].to
        BY <4>1 DEF StateAt
      <4> QED
        BY <3>2, <4>2 DEF StateAt, q
    <3> QED
      BY <3>1, <3>2
  <2>6. NodeHolds(nodes[m], m)
    BY <1>4 DEF TreeHolds
  <2>7. NodeHolds(nodes[n], n)'
    <3>1. StateAt(n)' = StateAt(m)
      BY <2>3, <2>5
    <3> QED
      BY <3>1, <2>4, <2>6, <1>7 DEF NodeHolds
  <2>8. ASSUME NEW i \in 1 .. Len(n)
        PROVE  StepHolds(n, i)'
    <3>1. i + 1 \in 1 .. Len(m) /\ (i + 1) - 1 = i
      BY <2>2, <2>3
    <3>2. StepHolds(m, i + 1)
      BY <1>4, <3>1 DEF TreeHolds
    <3> DEFINE u == Upto(n, i - 1)
    <3>3. u \in Seq(Step) /\ Upto(m, i) = <<carried>> \o u /\ n[i] = m[i + 1]
      BY <2>3
    <3> HIDE DEF u
    <3>4. StateAt(u)' = StateAt(Upto(m, i))
      BY <2>5, <3>3
    <3>5. setting.budget # NoBudget => CostFrom(RootCost', u) < setting.budget
      <4> SUFFICES ASSUME setting.budget # NoBudget
                   PROVE  CostFrom(RootCost', u) < setting.budget
        OBVIOUS
      <4>1. CostFrom(RootCost, <<carried>> \o u) < setting.budget
        BY <3>1, <3>2, <3>3 DEF StepHolds
      <4>2. CostFrom(RootCost', u) <= CostFrom(RootCost, <<carried>> \o u)
        BY <1>5, <1>8, <3>3, RestCostsLess
      <4>3. /\ CostFrom(RootCost', u) \in Nat
            /\ CostFrom(RootCost, <<carried>> \o u) \in Nat
        <5>1. <<carried>> \o u \in Seq(Step)
          BY <1>5, <3>3
        <5> QED
          BY <1>8, <3>3, <5>1, CostType
      <4>4. setting.budget \in Nat
        BY <1>4, TreeAssumption DEF TreeTypes
      <4> QED
        BY <4>1, <4>2, <4>3, <4>4
    <3>6. /\ Satisfies(StateAt(Upto(m, i)), Pre[n[i].by])
          /\ n[i].to \in Results(StateAt(Upto(m, i)), n[i].by)
          /\ n[i].by \in grown.actions
      BY <3>1, <3>2, <3>3 DEF StepHolds
    <3>7. /\ Satisfies(StateAt(u)', Pre[n[i].by])
          /\ n[i].to \in Results(StateAt(u)', n[i].by)
          /\ n[i].by \in grown'.actions
      BY <3>4, <3>6, <1>7
    <3>8. Results(StateAt(u), n[i].by)' = Results(StateAt(u)', n[i].by)
      BY <1>1 DEF Results
    <3> QED
      BY <3>5, <3>7, <3>8, <1>1 DEF StepHolds, u
  <2> QED
    BY <2>3, <2>7, <2>8
<1> QED
  BY <1>6, <1>10 DEF TreeHolds

LEMMA BeginPlanStep ==
  ASSUME TreeInv, NEW start \in TreeStarts, NEW aim \in TreeAims, NEW barred \in TreeBars,
         BeginPlan(start, aim, barred)
  PROVE  TreeInv'
<1>1. start \in World /\ aim # NoPlan /\ barred \subseteq Actions
  BY TreeAssumption
<1>2. call' = [aim |-> aim, start |-> start, barred |-> barred] /\ carried' = NoPlan
  BY DEF BeginPlan
<1>3. ~Idle' /\ call'.start = start
  BY <1>1, <1>2 DEF Idle
<1>4. aim \in grown'.aims /\ Actions \ barred \subseteq grown'.actions
  BY DEF BeginPlan
<1>5. TreeHolds(nodes)' /\ top'.state = start /\ TreeTypes'
  <2>1. CASE Reusable(start)
    BY <2>1, ReuseStep
  <2>2. CASE ~Reusable(start)
    <3>1. /\ top' = [state |-> start, by |-> NoPlan]
          /\ nodes' = [n \in {<<>>} |->
                 [untried  |-> {a \in Actions \ barred : Satisfies(start, Pre[a])},
                  terminal |-> FALSE]]
      BY <2>2 DEF BeginPlan
    <3>2. TreeTypes' /\ top'.state = start
      BY <1>1, <1>2, <3>1 DEF BeginPlan, TreeInv, TreeTypes
    <3>3. DOMAIN nodes' = {<<>>} /\ <<>> \in Seq(Step) /\ Len(<<>>) = 0
      BY <3>1
    <3>4. NodeHolds(nodes[<<>>], <<>>)'
      BY <1>4, <3>1 DEF NodeHolds, StateAt
    <3> QED
      BY <3>2, <3>3, <3>4 DEF TreeHolds
  <2> QED
    BY <2>1, <2>2
<1> QED
  BY <1>2, <1>3, <1>4, <1>5 DEF TreeInv

LEMMA TreeStep == TreeInv /\ [TreeNext]_treeVars => TreeInv'
<1> SUFFICES ASSUME TreeInv, [TreeNext]_treeVars PROVE TreeInv'
  OBVIOUS
<1>1. CASE UNCHANGED treeVars
  <2>1. TreeHolds(nodes)'
    BY <1>1 DEF treeVars, TreeInv, TreeHolds, StepHolds, NodeHolds, StateAt, Results, RootCost
  <2> QED
    BY <1>1, <2>1 DEF treeVars, TreeInv, TreeTypes, Idle, PlanTo
<1>2. CASE TreeNext
  BY <1>2, PlanNothingStep, BeginPlanStep, IterateStep, ExtractStep, AdvanceStep DEF TreeNext
<1> QED
  BY <1>1, <1>2

LEMMA TreePlansFollow ==
  ASSUME TreeInv
  PROVE  TreePlansHold
<1> SUFFICES ASSUME Idle, returned \notin {NoPlan, EmptyPlan}
             PROVE  LET p == returned
                        led == IF top.by = NoPlan THEN 0 ELSE StepCost[top.by]
                    IN  /\ \A i \in DOMAIN p.actions :
                             LET a == p.actions[i]
                                 before == Before(call.start, p, i)
                             IN  /\ Satisfies(before, Pre[a])
                                 /\ p.expected[i] \in Results(before, a)
                                 /\ a \in grown.actions
                                 /\ setting.budget # NoBudget =>
                                      Spent(led, p.actions, i - 1) < setting.budget
                        /\ \/ setting.fallback
                           \/ \E aim \in grown.aims : Satisfies(After(call.start, p), aim)
  BY DEF TreePlansHold
<1>1. PICK n \in DOMAIN nodes : returned = PlanTo(n) /\ (nodes[n].terminal \/ setting.fallback)
  BY DEF TreeInv
<1>2. /\ n \in Seq(Step) /\ NodeHolds(nodes[n], n) /\ TreeTypes
      /\ \A i \in 1 .. Len(n) : StepHolds(n, i)
  BY DEF TreeInv, TreeHolds
<1> DEFINE l == Len(n)
<1>3. l \in Nat /\ DOMAIN n = 1 .. l /\ \A i \in 1 .. l : n[i] \in Step
  BY <1>2
<1>4. /\ DOMAIN returned.actions = 1 .. l /\ Len(returned.actions) = l
      /\ \A i \in 1 .. l : returned.actions[i] = n[i].by /\ returned.expected[i] = n[i].to
  <2>1. /\ returned.actions = [i \in 1 .. l |-> n[i].by]
        /\ returned.expected = [i \in 1 .. l |-> n[i].to]
    BY <1>1, <1>3 DEF PlanTo
  <2>2. Len(returned.actions) = l
    <3>1. returned.actions \in Seq(Actions)
      BY <2>1, <1>3 DEF Step
    <3> QED
      BY <2>1, <1>3, <3>1
  <2> QED
    BY <2>1, <2>2
<1>5. \A i \in 1 .. l + 1 : Before(call.start, returned, i) = StateAt(Upto(n, i - 1))
  <2> TAKE i \in 1 .. l + 1
  <2>1. Upto(n, i - 1) = [j \in 1 .. i - 1 |-> n[j]] /\ Len(Upto(n, i - 1)) = i - 1
    BY <1>2, <1>3 DEF Upto
  <2>2. CASE i = 1
    <3>1. Upto(n, i - 1) = <<>>
      BY <2>1, <2>2
    <3> QED
      BY <2>2, <3>1 DEF Before, StateAt, TreeInv
  <2>3. CASE i # 1
    <3>1. i - 1 \in 1 .. l /\ i - 1 \in 1 .. i - 1
      BY <2>3, <1>3
    <3>2. Upto(n, i - 1) # <<>> /\ Upto(n, i - 1)[i - 1] = n[i - 1]
      BY <2>1, <3>1
    <3> QED
      BY <2>1, <2>3, <3>1, <3>2, <1>4 DEF Before, StateAt
  <2> QED
    BY <2>2, <2>3
<1>6. ASSUME NEW i \in 1 .. l
      PROVE  Spent(RootCost, returned.actions, i - 1) = CostFrom(RootCost, Upto(n, i - 1))
  <2> DEFINE u == Upto(n, i - 1)
  <2>1. /\ u = [j \in 1 .. i - 1 |-> n[j]]
        /\ i - 1 \in Nat /\ 1 .. i - 1 \subseteq 1 .. l
    BY <1>2, <1>3 DEF Upto
  <2>2. u \in Seq(Step) /\ Len(u) = i - 1
    <3> HIDE DEF u
    <3>1. \A j \in 1 .. i - 1 : n[j] \in Step
      BY <1>3, <2>1
    <3> QED
      BY <2>1, <3>1
  <2>3. \A j \in 1 .. i - 1 : returned.actions[j] = u[j].by
    BY <1>4, <2>1
  <2> HIDE DEF u
  <2>4. Spent(RootCost, returned.actions, Len(u)) = CostFrom(RootCost, u)
    BY <1>2, <2>2, <2>3, RootCostType, SpentIs
  <2> QED
    BY <2>2, <2>4 DEF u
<1>7. ASSUME NEW i \in DOMAIN returned.actions
      PROVE  /\ Satisfies(Before(call.start, returned, i), Pre[returned.actions[i]])
             /\ returned.expected[i] \in Results(Before(call.start, returned, i), returned.actions[i])
             /\ returned.actions[i] \in grown.actions
             /\ setting.budget # NoBudget =>
                  Spent(RootCost, returned.actions, i - 1) < setting.budget
  <2>1. i \in 1 .. l /\ i \in 1 .. l + 1
    BY <1>3, <1>4
  <2>2. StepHolds(n, i)
    BY <1>2, <2>1
  <2>3. Before(call.start, returned, i) = StateAt(Upto(n, i - 1))
    BY <1>5, <2>1
  <2>4. returned.actions[i] = n[i].by /\ returned.expected[i] = n[i].to
    BY <1>4, <2>1
  <2>5. Spent(RootCost, returned.actions, i - 1) = CostFrom(RootCost, Upto(n, i - 1))
    BY <1>6, <2>1
  <2> QED
    BY <2>2, <2>3, <2>4, <2>5 DEF StepHolds
<1>8. setting.fallback \/ \E aim \in grown.aims : Satisfies(After(call.start, returned), aim)
  <2>1. After(call.start, returned) = StateAt(n)
    <3>1. After(call.start, returned) = StateAt(Upto(n, (l + 1) - 1))
      BY <1>3, <1>4, <1>5 DEF After
    <3>2. Upto(n, (l + 1) - 1) = n
      BY <1>2, <1>3 DEF Upto
    <3> QED
      BY <3>1, <3>2
  <2> QED
    BY <2>1, <1>1, <1>2 DEF NodeHolds
<1> QED
  BY <1>7, <1>8 DEF RootCost

\* A plan taken from the tree can be followed from where the call began: however
\* often the tree was carried over, whichever nodes the search went to, and
\* whatever the caller asked for, barred and reported in between.
THEOREM TreePlansSound == TreeSpec => []TreePlansHold
<1>1. TreeInit => TreeInv
  BY TreeInitial
<1>2. TreeInv /\ [TreeNext]_treeVars => TreeInv'
  BY TreeStep
<1>3. TreeInv => TreePlansHold
  BY TreePlansFollow
<1> QED
  BY <1>1, <1>2, <1>3, PTL DEF TreeSpec
-----------------------------------------------------------------------------
(* Sums, as the community modules fold them: an element is picked from what is *)
(* left until nothing is.                                                      *)

LEMMA SubsetInduction ==
  ASSUME NEW D, IsFiniteSet(D), NEW T,
         {} \in T,
         \A s \in SUBSET D : \A x \in s : s \ {x} \in T => s \in T
  PROVE  SUBSET D \subseteq T
<1> DEFINE N == {n \in Nat : \A s \in SUBSET D : Cardinality(s) = n => s \in T}
<1>1. \A s \in SUBSET D : IsFiniteSet(s) /\ Cardinality(s) \in Nat
  BY FS_Subset, FS_CardinalityType
<1>2. 0 \in N
  BY <1>1, FS_EmptySet
<1>3. ASSUME NEW n \in Nat, n \in N
      PROVE  n + 1 \in N
  <2> SUFFICES ASSUME NEW s \in SUBSET D, Cardinality(s) = n + 1
               PROVE  s \in T
    OBVIOUS
  <2>1. s # {}
    <3>1. n + 1 # 0
      OBVIOUS
    <3> QED
      BY <3>1, FS_EmptySet
  <2>2. PICK x \in s : TRUE
    BY <2>1
  <2>3. Cardinality(s \ {x}) = n
    BY <1>1, FS_RemoveElement
  <2>4. s \ {x} \in SUBSET D
    OBVIOUS
  <2> QED
    BY <2>3, <2>4, <1>3
<1> HIDE DEF N
<1>4. Nat \subseteq N
  BY <1>2, <1>3, SetInduction
<1> QED
  BY <1>1, <1>4 DEF N

\* The equation such a sum obeys: w is what is added up, pick what comes next.
Sums(g, D, w, pick) ==
  g = [s \in SUBSET D |-> IF s = {} THEN 0 ELSE g[s \ {pick[s]}] + w[pick[s]]]

Picks(pick, D) == \A s \in SUBSET D : s # {} => pick[s] \in s

LEMMA SumExists ==
  ASSUME NEW D, IsFiniteSet(D), NEW w, NEW pick, Picks(pick, D)
  PROVE  \E g : Sums(g, D, w, pick)
<1> DEFINE Val(g, s) == IF s = {} THEN 0 ELSE g[s \ {pick[s]}] + w[pick[s]]
           N == {n \in Nat : \E g : \A s \in SUBSET D : Cardinality(s) <= n => g[s] = Val(g, s)}
<1>1. \A s \in SUBSET D : IsFiniteSet(s) /\ Cardinality(s) \in Nat
  BY FS_Subset, FS_CardinalityType
<1>2. 0 \in N
  <2> DEFINE g == [s \in SUBSET D |-> 0]
  <2>1. ASSUME NEW s \in SUBSET D, Cardinality(s) <= 0
        PROVE  g[s] = Val(g, s)
    <3>1. s = {}
      BY <1>1, <2>1, FS_EmptySet
    <3> QED
      BY <3>1
  <2> HIDE DEF g, Val
  <2>2. \E f : \A s \in SUBSET D : Cardinality(s) <= 0 => f[s] = Val(f, s)
    BY <2>1
  <2> QED
    BY <2>2
<1>3. ASSUME NEW n \in Nat, n \in N
      PROVE  n + 1 \in N
  <2>1. PICK g : \A s \in SUBSET D : Cardinality(s) <= n => g[s] = Val(g, s)
    BY <1>3
  <2> DEFINE h == [s \in SUBSET D |-> IF Cardinality(s) <= n THEN g[s] ELSE Val(g, s)]
  <2>2. ASSUME NEW s \in SUBSET D, Cardinality(s) <= n + 1
        PROVE  h[s] = Val(h, s)
    <3>1. h[s] = Val(g, s)
      <4> HIDE DEF Val
      <4> QED
        BY <2>1
    <3>2. CASE s = {}
      BY <3>1, <3>2
    <3>3. CASE s # {}
      <4>1. pick[s] \in s
        BY <3>3 DEF Picks
      <4>2. Cardinality(s \ {pick[s]}) <= n /\ s \ {pick[s]} \in SUBSET D
        BY <1>1, <2>2, <4>1, FS_RemoveElement
      <4>3. h[s \ {pick[s]}] = g[s \ {pick[s]}]
        <5> HIDE DEF Val
        <5> QED
          BY <4>2
      <4> HIDE DEF h
      <4> QED
        BY <3>1, <3>3, <4>3
    <3> QED
      BY <3>2, <3>3
  <2> HIDE DEF h, Val
  <2>3. \E f : \A s \in SUBSET D : Cardinality(s) <= n + 1 => f[s] = Val(f, s)
    BY <2>2
  <2> QED
    BY <2>3
<1>4. Nat \subseteq N
  <2> HIDE DEF N
  <2> QED
    BY <1>2, <1>3, SetInduction
<1>5. PICK g : \A s \in SUBSET D : Cardinality(s) <= Cardinality(D) => g[s] = Val(g, s)
  <2>1. Cardinality(D) \in N
    BY <1>1, <1>4
  <2> QED
    BY <2>1
<1>6. \A s \in SUBSET D : g[s] = Val(g, s)
  <2> HIDE DEF Val
  <2>1. \A s \in SUBSET D : Cardinality(s) <= Cardinality(D)
    BY FS_Subset
  <2> QED
    BY <2>1, <1>5
<1> DEFINE f == [s \in SUBSET D |-> g[s]]
<1>7. \A s \in SUBSET D : Val(f, s) = Val(g, s)
  <2> TAKE s \in SUBSET D
  <2>1. CASE s # {}
    <3>1. s \ {pick[s]} \in SUBSET D
      OBVIOUS
    <3>2. f[s \ {pick[s]}] = g[s \ {pick[s]}]
      BY <3>1
    <3> HIDE DEF f
    <3> QED
      BY <3>2
  <2> QED
    BY <2>1
<1>8. f = [s \in SUBSET D |-> Val(f, s)]
  <2>1. \A s \in SUBSET D : f[s] = Val(f, s)
    <3>1. \A s \in SUBSET D : f[s] = g[s]
      OBVIOUS
    <3> HIDE DEF f, Val
    <3> QED
      BY <3>1, <1>6, <1>7
  <2> HIDE DEF Val
  <2> QED
    BY <2>1
<1>9. Sums(f, D, w, pick)
  <2> HIDE DEF f
  <2> QED
    BY <1>8 DEF Sums
<1> HIDE DEF f
<1> QED
  BY <1>9

LEMMA SumStep ==
  ASSUME NEW g, NEW D, NEW w, NEW pick, Sums(g, D, w, pick), NEW s \in SUBSET D
  PROVE  g[s] = IF s = {} THEN 0 ELSE g[s \ {pick[s]}] + w[pick[s]]
BY DEF Sums

LEMMA SumType ==
  ASSUME NEW g, NEW D, IsFiniteSet(D), NEW w, NEW pick, Sums(g, D, w, pick), Picks(pick, D),
         \A x \in D : w[x] \in Int
  PROVE  \A s \in SUBSET D : g[s] \in Int
<1> DEFINE N == {n \in Nat : \A s \in SUBSET D : Cardinality(s) = n => g[s] \in Int}
<1>1. \A s \in SUBSET D : IsFiniteSet(s) /\ Cardinality(s) \in Nat
  BY FS_Subset, FS_CardinalityType
<1>2. 0 \in N
  <2>1. \A s \in SUBSET D : Cardinality(s) = 0 => g[s] = 0
    BY <1>1, FS_EmptySet, SumStep
  <2> QED
    BY <2>1
<1>3. ASSUME NEW n \in Nat, n \in N
      PROVE  n + 1 \in N
  <2> SUFFICES ASSUME NEW s \in SUBSET D, Cardinality(s) = n + 1
               PROVE  g[s] \in Int
    OBVIOUS
  <2>1. s # {}
    <3>1. n + 1 # 0
      OBVIOUS
    <3> QED
      BY <3>1, FS_EmptySet
  <2>2. pick[s] \in s /\ s \ {pick[s]} \in SUBSET D
    BY <2>1 DEF Picks
  <2>3. Cardinality(s \ {pick[s]}) = n
    <3>1. Cardinality(s \ {pick[s]}) = Cardinality(s) - 1
      BY <1>1, <2>2, FS_RemoveElement
    <3> QED
      BY <3>1
  <2>4. g[s \ {pick[s]}] \in Int
    BY <1>3, <2>2, <2>3
  <2>5. g[s] = g[s \ {pick[s]}] + w[pick[s]]
    BY <2>1, SumStep
  <2> QED
    BY <2>2, <2>4, <2>5
<1> HIDE DEF N
<1>4. Nat \subseteq N
  BY <1>2, <1>3, SetInduction
<1> QED
  BY <1>1, <1>4 DEF N

\* A sum of numbers that are not negative is positive if one of them is.
LEMMA PositiveSum ==
  ASSUME NEW g, NEW D, IsFiniteSet(D), NEW w, NEW pick, Sums(g, D, w, pick), Picks(pick, D),
         \A x \in D : w[x] \in Nat
  PROVE  \A s \in SUBSET D : g[s] \in Nat /\ (g[s] > 0 <=> \E x \in s : w[x] > 0)
<1> DEFINE Good(s) == g[s] \in Nat /\ (g[s] > 0 <=> \E x \in s : w[x] > 0)
           N == {n \in Nat : \A s \in SUBSET D : Cardinality(s) = n => Good(s)}
<1>1. \A s \in SUBSET D : IsFiniteSet(s) /\ Cardinality(s) \in Nat
  BY FS_Subset, FS_CardinalityType
<1>2. 0 \in N
  <2> SUFFICES ASSUME NEW s \in SUBSET D, Cardinality(s) = 0
               PROVE  Good(s)
    OBVIOUS
  <2>1. s = {}
    BY <1>1, FS_EmptySet
  <2>2. g[s] = 0
    BY <2>1, SumStep
  <2> QED
    BY <2>1, <2>2
<1>3. ASSUME NEW n \in Nat, n \in N
      PROVE  n + 1 \in N
  <2> SUFFICES ASSUME NEW s \in SUBSET D, Cardinality(s) = n + 1
               PROVE  Good(s)
    OBVIOUS
  <2>1. s # {}
    <3>1. n + 1 # 0
      OBVIOUS
    <3> QED
      BY <3>1, FS_EmptySet
  <2> DEFINE x == pick[s]
             rest == s \ {pick[s]}
  <2>2. x \in s /\ rest \in SUBSET D /\ x \in D
    BY <2>1 DEF Picks
  <2>3. Cardinality(rest) = n
    <3>1. Cardinality(rest) = Cardinality(s) - 1
      BY <1>1, <2>2, FS_RemoveElement
    <3> QED
      BY <3>1
  <2>4. Good(rest)
    <3> HIDE DEF Good, rest
    <3> QED
      BY <1>3, <2>2, <2>3
  <2>5. g[s] = g[rest] + w[x]
    <3>1. g[s] = IF s = {} THEN 0 ELSE g[s \ {pick[s]}] + w[pick[s]]
      <4> HIDE DEF Good, N
      <4> QED
        BY SumStep
    <3> HIDE DEF Good, N
    <3> QED
      BY <3>1, <2>1
  <2>6. w[x] \in Nat /\ \A y \in s : y = x \/ y \in rest
    BY <2>2
  <2>7. rest \subseteq s
    OBVIOUS
  <2> HIDE DEF x, rest
  <2>8. g[s] \in Nat /\ (g[s] > 0 <=> g[rest] > 0 \/ w[x] > 0)
    BY <2>4, <2>5, <2>6
  <2>9. (\E y \in s : w[y] > 0) <=> (\E y \in rest : w[y] > 0) \/ w[x] > 0
    BY <2>2, <2>6, <2>7
  <2> QED
    BY <2>4, <2>8, <2>9
<1>4. Nat \subseteq N
  <2> HIDE DEF N
  <2> QED
    BY <1>2, <1>3, SetInduction
<1> QED
  BY <1>1, <1>4

\* The greatest position, with which a fold over a sequence begins.
LEMMA GreatestPosition ==
  ASSUME NEW n \in Nat
  PROVE  /\ IsFiniteSet(1 .. n)
         /\ \A s \in SUBSET (1 .. n) : s # {} => Ext!Max(s) \in s
<1>1. IsFiniteSet(1 .. n)
  BY FS_Interval
<1>2. ASSUME NEW s \in SUBSET (1 .. n), s # {}
      PROVE  \E x \in s : \A y \in s : x >= y
  <2> DEFINE T == {m \in Nat : n - m \in s}
  <2>1. \A x \in s : n - x \in T /\ n - (n - x) = x
    OBVIOUS
  <2>2. T # {} /\ T \subseteq Nat
    BY <1>2, <2>1
  <2>3. PICK m \in T : \A k \in T : m <= k
    <3> HIDE DEF T
    <3> QED
      BY <2>2, LeastNumber
  <2>4. n - m \in s /\ m \in Nat
    BY <2>3
  <2>5. \A y \in s : m <= n - y
    BY <2>1, <2>3
  <2>6. \A y \in s : n - m >= y
    BY <2>4, <2>5
  <2> QED
    BY <2>4, <2>6
<1>3. ASSUME NEW s \in SUBSET (1 .. n), s # {}
      PROVE  Ext!Max(s) \in s
  BY <1>2, <1>3 DEF Ext!Max
<1> QED
  BY <1>1, <1>3

LEMMA TotalType ==
  ASSUME NEW p \in Plan, NEW r \in Resources
  PROVE  Total(p, r) \in Int
<1> DEFINE D == 1 .. Len(p.actions)
           w == [i \in D |-> Uses[p.actions[i]][r]]
           pick == [s \in SUBSET D |-> Ext!Max(s)]
           iter == CHOOSE iter : iter = [s \in SUBSET DOMAIN p.actions |->
                     IF s = {} THEN 0 ELSE LET x == Ext!Max(s)
                                           IN  iter[s \ {x}] + Uses[p.actions[x]][r]]
<1>1. p.actions \in Seq(Actions) /\ DOMAIN p.actions = D /\ Len(p.actions) \in Nat
  BY DEF Plan
<1>2. Total(p, r) = iter[DOMAIN p.actions]
  BY DEF Total, Ext!FoldLeft, Ext!MapThenFoldSet
<1>3. IsFiniteSet(D) /\ \A s \in SUBSET D : s # {} => pick[s] \in s
  BY <1>1, GreatestPosition
<1>4. Picks(pick, D)
  BY <1>3 DEF Picks
<1>5. \A i \in D : w[i] \in Int
  <2>1. \A i \in D : p.actions[i] \in Actions
    BY <1>1
  <2> QED
    BY <2>1, StrategyAssumption
<1>6. \A g : Sums(g, D, w, pick)
        <=> g = [s \in SUBSET DOMAIN p.actions |->
                  IF s = {} THEN 0 ELSE LET x == Ext!Max(s)
                                        IN  g[s \ {x}] + Uses[p.actions[x]][r]]
  <2> TAKE g
  <2>1. \A s \in SUBSET D : s # {} => w[pick[s]] = Uses[p.actions[Ext!Max(s)]][r]
    BY <1>3
  <2>2. \A s \in SUBSET D : pick[s] = Ext!Max(s)
    OBVIOUS
  <2> HIDE DEF pick, w, D
  <2> QED
    BY <1>1, <2>1, <2>2 DEF Sums
<1>7. Sums(iter, D, w, pick)
  <2>1. \E g : Sums(g, D, w, pick)
    <3> HIDE DEF pick, w, D
    <3> QED
      BY <1>3, <1>4, SumExists
  <2> QED
    BY <2>1, <1>6
<1> HIDE DEF D, w, pick, iter
<1>8. \A s \in SUBSET D : iter[s] \in Int
  BY <1>3, <1>4, <1>5, <1>7, SumType
<1> QED
  BY <1>1, <1>2, <1>8
-----------------------------------------------------------------------------
(* The Pareto front. *)

Dominated(i) == \E j \in Feasible : Beats(j, i)

FrontTypes ==
  /\ request.goal \in Goals /\ request.plans \in Seq(Plan)
  /\ request.most \in Nat \cup {Unbounded}
  /\ request.first = NoPlan => Objectives(request.goal) = {}
  /\ row \in Nat /\ dominated \subseteq Feasible

FrontInv ==
  /\ FrontTypes
  /\ \A i \in dominated : Dominated(i)
  /\ row # 0 => \A i \in Feasible : i < row /\ Dominated(i) => i \in dominated
  /\ row = 0 => \E order \in Ext!SetToSeqs({i \in Feasible : ~Dominated(i)}) :
                  Sorted(order) /\ front = Kept(order)

LEMMA ObjectivesKnown ==
  ASSUME FrontTypes
  PROVE  Objectives(request.goal) \subseteq Resources
BY StrategyAssumption DEF FrontTypes, IsGoal, Objectives

LEMMA FeasibleFinite ==
  ASSUME FrontTypes
  PROVE  /\ DOMAIN request.plans = 1 .. Len(request.plans) /\ Len(request.plans) \in Nat
         /\ Feasible \subseteq 1 .. Len(request.plans)
         /\ IsFiniteSet(Feasible)
         /\ \A i \in Feasible : request.plans[i] \in Plan
<1>1. /\ DOMAIN request.plans = 1 .. Len(request.plans) /\ Len(request.plans) \in Nat
      /\ \A i \in 1 .. Len(request.plans) : request.plans[i] \in Plan
  BY DEF FrontTypes
<1>2. Feasible \subseteq 1 .. Len(request.plans)
  BY <1>1 DEF Feasible
<1>3. IsFiniteSet(1 .. Len(request.plans))
  <2>1. \A n \in Nat : IsFiniteSet(1 .. n)
    BY FS_Interval
  <2> QED
    BY <1>1, <2>1
<1> QED
  BY <1>1, <1>2, <1>3, FS_Subset

\* Being dominated is a strict order.
LEMMA BeatsIrreflexive ==
  ASSUME FrontTypes, NEW i \in Feasible
  PROVE  ~Beats(i, i)
<1>1. \A r \in Objectives(request.goal) : Total(request.plans[i], r) \in Int
  BY ObjectivesKnown, FeasibleFinite, TotalType
<1> QED
  BY <1>1 DEF Beats, Dominates, NoWorse

LEMMA BeatsTransitive ==
  ASSUME FrontTypes, NEW i \in Feasible, NEW j \in Feasible, NEW k \in Feasible,
         Beats(i, j), Beats(j, k)
  PROVE  Beats(i, k)
<1> DEFINE p == request.plans[i]
           q == request.plans[j]
           s == request.plans[k]
<1>1. \A r \in Objectives(request.goal) :
        Total(p, r) \in Int /\ Total(q, r) \in Int /\ Total(s, r) \in Int
  BY ObjectivesKnown, FeasibleFinite, TotalType
<1>2. Dominates(p, q) /\ Dominates(q, s)
  BY DEF Beats
<1> HIDE DEF p, q, s
<1>3. ASSUME NEW r \in Objectives(request.goal)
      PROVE  NoWorse(p, s, r) /\ (~NoWorse(q, p, r) => ~NoWorse(s, p, r))
  <2>1. NoWorse(p, q, r) /\ NoWorse(q, s, r)
    BY <1>2 DEF Dominates
  <2> QED
    BY <1>1, <2>1 DEF NoWorse
<1>4. Dominates(p, s)
  BY <1>2, <1>3 DEF Dominates
<1> QED
  BY <1>4 DEF Beats, p, s

\* What is dominated at all is dominated by something that is not.
LEMMA UndominatedBeats ==
  ASSUME FrontTypes, NEW i \in Feasible, Dominated(i)
  PROVE  \E j \in Feasible : Beats(j, i) /\ ~Dominated(j)
<1> DEFINE Over(j) == {k \in Feasible : Beats(k, j)}
           Sizes == {Cardinality(Over(j)) : j \in Over(i)}
<1>1. \A j : IsFiniteSet(Over(j)) /\ Cardinality(Over(j)) \in Nat
  BY FeasibleFinite, FS_Subset, FS_CardinalityType
<1>2. Sizes # {} /\ Sizes \subseteq Nat
  <2>1. Over(i) # {}
    BY DEF Dominated
  <2> HIDE DEF Over
  <2> QED
    BY <2>1, <1>1
<1>3. PICK n \in Sizes : \A m \in Sizes : n <= m
  <2> HIDE DEF Sizes
  <2> QED
    BY <1>2, LeastNumber
<1>4. PICK j \in Over(i) : n = Cardinality(Over(j))
  BY <1>3
<1>5. ASSUME NEW k \in Feasible, Beats(k, j)
      PROVE  FALSE
  <2>1. j \in Feasible /\ Beats(j, i)
    BY <1>4
  <2>2. k \in Over(i)
    BY <1>5, <2>1, BeatsTransitive
  <2>3. Over(k) \subseteq Over(j)
    BY <1>5, <2>1, BeatsTransitive
  <2>4. k \in Over(j) /\ k \notin Over(k)
    BY <1>5, BeatsIrreflexive
  <2> HIDE DEF Over
  <2>5. Cardinality(Over(k)) <= Cardinality(Over(j)) /\ Cardinality(Over(k)) # Cardinality(Over(j))
    BY <2>3, <2>4, <1>1, FS_Subset
  <2>6. Cardinality(Over(j)) <= Cardinality(Over(k))
    BY <1>3, <1>4, <2>2
  <2> QED
    BY <2>5, <2>6, <1>1
<1> QED
  BY <1>4, <1>5 DEF Dominated

\* The orders of a finite set have each of its members once.
LEMMA OrdersOf ==
  ASSUME NEW U, IsFiniteSet(U), NEW order \in Ext!SetToSeqs(U)
  PROVE  /\ order \in Seq(U) /\ Len(order) = Cardinality(U)
         /\ \A u \in U : \E i \in DOMAIN order : order[i] = u
<1> DEFINE n == Cardinality(U)
<1>1. n \in Nat /\ IsFiniteSet(1 .. n) /\ Cardinality(1 .. n) = n
  <2>1. n \in Nat
    BY FS_CardinalityType
  <2>2. IsFiniteSet(1 .. n) /\ Cardinality(1 .. n) = IF 1 > n THEN 0 ELSE n - 1 + 1
    BY <2>1, FS_Interval
  <2> QED
    BY <2>1, <2>2
<1>2. order \in [1 .. n -> U] /\ \A i, j \in 1 .. n : i # j => order[i] # order[j]
  <2>1. Ext!Cardinality(U) = Cardinality(U)
    BY DEF Ext!Cardinality, Cardinality
  <2> QED
    BY <2>1 DEF Ext!SetToSeqs
<1>3. order \in Injection(1 .. n, U)
  BY <1>2 DEF Injection, IsInjective
<1>4. order \in Surjection(1 .. n, U)
  BY <1>1, <1>3, FS_Injection
<1>5. \A u \in U : \E i \in 1 .. n : order[i] = u
  BY <1>4 DEF Surjection
<1>6. order \in Seq(U) /\ Len(order) = n /\ DOMAIN order = 1 .. n
  BY <1>1, <1>2
<1> QED
  BY <1>5, <1>6
LEMMA FrontInitial == FrontInit => FrontInv
<1> SUFFICES ASSUME FrontInit PROVE FrontInv
  OBVIOUS
<1>1. /\ request.goal \in Goals /\ request.first \in Resources \cup {NoPlan}
      /\ request.plans \in Seq(Plan) /\ request.most \in Nat \cup {Unbounded}
  BY FrontAssumption DEF FrontInit
<1>2. request.first = NoPlan => Objectives(request.goal) = {}
  <2>1. Objectives(request.goal) \subseteq Resources
    BY <1>1, StrategyAssumption DEF IsGoal, Objectives
  <2> QED
    BY <2>1, FrontAssumption DEF FrontInit
<1>3. row = 1 /\ dominated = {}
  BY DEF FrontInit
<1>4. FrontTypes
  BY <1>1, <1>2, <1>3 DEF FrontTypes
<1>5. \A i \in Feasible : ~(i < row)
  BY <1>3, <1>4, FeasibleFinite
<1> QED
  BY <1>3, <1>4, <1>5 DEF FrontInv

\* The request, and what follows from it, stays as it is.
LEMMA SameRequest ==
  ASSUME request' = request
  PROVE  /\ Feasible' = Feasible
         /\ \A i : Dominated(i)' <=> Dominated(i)
         /\ \A order : Sorted(order)' <=> Sorted(order)
         /\ \A order : Kept(order)' = Kept(order)
<1>1. Feasible' = Feasible
  BY DEF Feasible
<1>2. \A i, j : Beats(i, j)' <=> Beats(i, j)
  BY DEF Beats, Dominates, NoWorse
<1>3. \A i : Dominated(i)' <=> Dominated(i)
  BY <1>1, <1>2 DEF Dominated
<1>4. \A p, q : Precedes(p, q)' <=> Precedes(p, q)
  BY DEF Precedes, NoWorse
<1>5. \A order : Sorted(order)' <=> Sorted(order)
  BY <1>4 DEF Sorted
<1>6. \A order : Kept(order)' = Kept(order)
  BY DEF Kept
<1> QED
  BY <1>1, <1>3, <1>5, <1>6

LEMMA CompareStep ==
  ASSUME FrontInv, Compare
  PROVE  FrontInv'
<1>1. /\ request' = request /\ row' = row + 1 /\ row \in DOMAIN request.plans
      /\ dominated' = IF row \in Feasible /\ Beaten(row) THEN dominated \cup {row} ELSE dominated
  BY DEF Compare
<1>2. FrontTypes /\ row \in Nat
  BY DEF FrontInv, FrontTypes
<1>3. row # 0 /\ row' # 0
  BY <1>1, <1>2, FeasibleFinite
<1>4. FrontTypes'
  BY <1>1, <1>2, SameRequest DEF FrontTypes
<1>5. Beaten(row) => Dominated(row)
  BY DEF Beaten, Dominated
<1>6. row \in Feasible /\ Dominated(row) => Beaten(row)
  <2> SUFFICES ASSUME row \in Feasible, Dominated(row) PROVE Beaten(row)
    OBVIOUS
  <2>1. PICK j \in Feasible : Beats(j, row) /\ ~Dominated(j)
    BY <1>2, UndominatedBeats
  <2>2. j \notin dominated
    BY <2>1 DEF FrontInv
  <2>3. j # row
    BY <2>1, <1>2, BeatsIrreflexive
  <2> QED
    BY <2>1, <2>2, <2>3 DEF Beaten
<1>7. \A i \in dominated' : Dominated(i)
  BY <1>1, <1>5 DEF FrontInv
<1>8. ASSUME NEW i \in Feasible, i < row', Dominated(i)
      PROVE  i \in dominated'
  <2>1. i \in Nat
    BY <1>2, FeasibleFinite
  <2>2. i < row \/ i = row
    BY <1>1, <1>2, <1>8, <2>1
  <2>3. CASE i < row
    BY <2>3, <1>1, <1>3, <1>8 DEF FrontInv
  <2>4. CASE i = row
    BY <2>4, <1>1, <1>6, <1>8
  <2> QED
    BY <2>2, <2>3, <2>4
<1>9. /\ \A i : i \in dominated' => Dominated(i)'
      /\ \A i : i \in Feasible' /\ i < row' /\ Dominated(i)' => i \in dominated'
  BY <1>1, <1>7, <1>8, SameRequest
<1> QED
  BY <1>3, <1>4, <1>9 DEF FrontInv

LEMMA ReturnStep ==
  ASSUME FrontInv, ReturnFront
  PROVE  FrontInv'
<1>1. request' = request /\ row' = 0 /\ dominated' = dominated /\ row # 0
  BY DEF ReturnFront
<1>2. FrontTypes
  BY DEF FrontInv
<1>3. FrontTypes'
  BY <1>1, <1>2, SameRequest DEF FrontTypes
<1>4. ASSUME NEW i \in Feasible, Dominated(i)
      PROVE  i \in dominated
  <2>1. request.first # NoPlan
    BY <1>2, <1>4 DEF FrontTypes, Dominated, Beats, Dominates
  <2>2. row \notin DOMAIN request.plans
    BY <2>1 DEF ReturnFront
  <2>3. i < row
    BY <1>1, <1>2, <2>2, FeasibleFinite DEF FrontTypes
  <2> QED
    BY <1>1, <1>4, <2>3 DEF FrontInv
<1> DEFINE best == {i \in Feasible : ~Dominated(i)}
<1>5. Feasible \ dominated = best
  BY <1>4 DEF FrontInv
<1>6. PICK order \in Ext!SetToSeqs(best) : Sorted(order) /\ front' = Kept(order)
  BY <1>5 DEF ReturnFront
<1>7. best = {i \in Feasible' : ~Dominated(i)'}
  BY <1>1, SameRequest
<1> HIDE DEF best
<1>8. \E o \in Ext!SetToSeqs({i \in Feasible' : ~Dominated(i)'}) : Sorted(o)' /\ front' = Kept(o)'
  BY <1>1, <1>6, <1>7, SameRequest
<1>9. \A i : i \in dominated' => Dominated(i)'
  BY <1>1, SameRequest DEF FrontInv
<1> QED
  BY <1>1, <1>3, <1>8, <1>9 DEF FrontInv

LEMMA FrontStutters ==
  ASSUME FrontInv, UNCHANGED frontVars
  PROVE  FrontInv'
<1>1. request' = request /\ row' = row /\ dominated' = dominated /\ front' = front
  BY DEF frontVars
<1>2. FrontTypes'
  BY <1>1, SameRequest DEF FrontInv, FrontTypes
<1>3. \A i : i \in dominated' => Dominated(i)'
  BY <1>1, SameRequest DEF FrontInv
<1>4. row' # 0 => \A i : i \in Feasible' /\ i < row' /\ Dominated(i)' => i \in dominated'
  BY <1>1, SameRequest DEF FrontInv
<1>5. {i \in Feasible : ~Dominated(i)} = {i \in Feasible' : ~Dominated(i)'}
  BY <1>1, SameRequest
<1>6. row' = 0 => \E o \in Ext!SetToSeqs({i \in Feasible' : ~Dominated(i)'}) :
                    Sorted(o)' /\ front' = Kept(o)'
  BY <1>1, <1>5, SameRequest DEF FrontInv
<1> QED
  BY <1>2, <1>3, <1>4, <1>6 DEF FrontInv

\* What the list kept of an order is: its beginning, all of it if it is not cut off.
LEMMA KeptOf ==
  ASSUME FrontTypes, NEW U, NEW order \in Seq(U)
  PROVE  /\ Kept(order) \in Seq(U) /\ Len(Kept(order)) <= Len(order)
         /\ \A i \in DOMAIN Kept(order) : i \in DOMAIN order /\ Kept(order)[i] = order[i]
         /\ Len(Kept(order)) # request.most => Kept(order) = order
<1>1. CASE request.most = Unbounded \/ Len(order) <= request.most
  BY <1>1 DEF Kept
<1>2. CASE ~(request.most = Unbounded \/ Len(order) <= request.most)
  <2> DEFINE m == request.most
  <2>1. m \in Nat /\ m < Len(order) /\ Len(order) \in Nat
    BY <1>2 DEF FrontTypes
  <2>2. Kept(order) = SubSeq(order, 1, m)
    BY <1>2 DEF Kept
  <2> HIDE DEF m
  <2>3. /\ SubSeq(order, 1, m) \in Seq(U) /\ Len(SubSeq(order, 1, m)) = m
        /\ \A i \in 1 .. m : i \in 1 .. Len(order) /\ SubSeq(order, 1, m)[i] = order[i]
    BY <2>1
  <2> QED
    BY <2>1, <2>2, <2>3 DEF m
<1> QED
  BY <1>1, <1>2
\* Admissible is what the filter lets through.
LEMMA AdmissibleIs ==
  ASSUME NEW goal, NEW p
  PROVE  Verdict(goal, p) # "infeasible" <=> Limited(goal) = {} \/ MeetsHardLimits(goal, p)
<1>1. Limited(goal) = {} => MeetsHardLimits(goal, p)
  BY DEF MeetsHardLimits, Missed, Hard
<1> QED
  BY <1>1 DEF Verdict

LEMMA FrontFound ==
  ASSUME FrontInv
  PROVE  FrontIsPareto
<1> SUFFICES ASSUME row = 0 PROVE FrontIsPareto
  BY DEF FrontIsPareto
<1> DEFINE plans == request.plans
           best == {i \in Feasible : ~Dominated(i)}
           shown == {plans[front[i]] : i \in DOMAIN front}
           admissible(p) == Limited(request.goal) = {} \/ MeetsHardLimits(request.goal, p)
           all == {p \in {plans[i] : i \in DOMAIN plans} : admissible(p)}
<1>1. FrontTypes
  BY DEF FrontInv
<1>2. PICK order \in Ext!SetToSeqs(best) : Sorted(order) /\ front = Kept(order)
  BY DEF FrontInv
<1>3. all = {plans[i] : i \in Feasible}
  BY AdmissibleIs DEF Feasible
<1>4. best \subseteq Feasible /\ IsFiniteSet(best)
  BY <1>1, FeasibleFinite, FS_Subset
<1>5. /\ order \in Seq(best) /\ DOMAIN order = 1 .. Len(order) /\ Len(order) \in Nat
      /\ \A u \in best : \E i \in DOMAIN order : order[i] = u
  <2> HIDE DEF best
  <2> QED
    BY <1>4, OrdersOf
<1>6. /\ front \in Seq(best) /\ Len(front) <= Len(order)
      /\ DOMAIN front = 1 .. Len(front) /\ Len(front) \in Nat
      /\ \A i \in DOMAIN front : i \in DOMAIN order /\ front[i] = order[i]
      /\ Len(front) # request.most => front = order
  <2> HIDE DEF best
  <2>1. /\ front \in Seq(best) /\ Len(front) <= Len(order)
        /\ \A i \in DOMAIN front : i \in DOMAIN order /\ front[i] = order[i]
        /\ Len(front) # request.most => front = order
    BY <1>1, <1>2, <1>5, KeptOf
  <2> QED
    BY <2>1
<1>7. \A i \in DOMAIN front : front[i] \in best
  <2> HIDE DEF best
  <2> QED
    BY <1>6
<1>8. shown \subseteq all
  BY <1>3, <1>7
<1>9. ASSUME NEW p \in shown, NEW q \in all
      PROVE  ~Dominates(q, p)
  <2>1. PICK i \in DOMAIN front : p = plans[front[i]]
    OBVIOUS
  <2>2. PICK j \in Feasible : q = plans[j]
    BY <1>3
  <2>3. ~Dominated(front[i])
    BY <1>7
  <2> QED
    BY <2>1, <2>2, <2>3 DEF Dominated, Beats
<1>10. Sorted(front)
  BY <1>2, <1>6 DEF Sorted
<1>11. ASSUME NEW q \in all \ shown
       PROVE  IF Len(front) = request.most
                THEN \/ \E p \in all : Dominates(p, q)
                     \/ \A p \in shown : Precedes(p, q)
                ELSE \E p \in shown : Dominates(p, q)
  <2>1. PICK i \in Feasible : q = plans[i]
    BY <1>3
  <2>2. CASE Dominated(i)
    <3>1. PICK j \in Feasible : Beats(j, i) /\ ~Dominated(j)
      BY <1>1, <2>2, UndominatedBeats
    <3>2. plans[j] \in all /\ Dominates(plans[j], q)
      BY <1>3, <2>1, <3>1 DEF Beats
    <3>3. Len(front) # request.most => plans[j] \in shown
      <4> SUFFICES ASSUME Len(front) # request.most PROVE plans[j] \in shown
        OBVIOUS
      <4>1. j \in best
        BY <3>1
      <4>2. PICK k \in DOMAIN order : order[k] = j
        BY <4>1, <1>5
      <4> QED
        BY <4>2, <1>6
    <3> HIDE DEF shown, all
    <3> QED
      BY <3>2, <3>3
  <2>3. CASE ~Dominated(i)
    <3>1. PICK k \in DOMAIN order : order[k] = i
      BY <2>3, <1>5
    <3>2. k \notin DOMAIN front
      BY <3>1, <2>1, <1>6
    <3>3. Len(front) = request.most
      BY <3>1, <3>2, <1>6
    <3>4. ASSUME NEW p \in shown
          PROVE  Precedes(p, q)
      <4>1. PICK l \in DOMAIN front : p = plans[front[l]]
        OBVIOUS
      <4>2. l < k /\ l \in DOMAIN order /\ order[l] = front[l]
        BY <3>1, <3>2, <1>5, <1>6
      <4> QED
        BY <4>1, <4>2, <3>1, <2>1, <1>2 DEF Sorted
    <3> HIDE DEF shown, all
    <3> QED
      BY <3>3, <3>4
  <2> QED
    BY <2>2, <2>3
<1> QED
  BY <1>8, <1>9, <1>10, <1>11 DEF FrontIsPareto

\* pareto_plans answers with the front: for any plans in any order, any objectives
\* and limits, although what is found dominated is not compared with any more.
THEOREM FrontSound == FrontSpec => []FrontIsPareto
<1>1. FrontInv /\ [FrontNext]_frontVars => FrontInv'
  BY CompareStep, ReturnStep, FrontStutters DEF FrontNext
<1>2. FrontInv => FrontIsPareto
  BY FrontFound
<1> QED
  BY <1>1, <1>2, FrontInitial, PTL DEF FrontSpec

-----------------------------------------------------------------------------
(* The solver's whole units. *)

\* What \div means for a number that is not negative.
LEMMA Divided ==
  ASSUME NEW x \in Nat, NEW g \in Nat \ {0}
  PROVE  /\ x \div g \in Nat
         /\ g * (x \div g) <= x /\ x <= g * (x \div g) + g - 1
OBVIOUS

LEMMA Scaled ==
  ASSUME NEW g \in Nat, NEW p \in Int, NEW q \in Int, p <= q
  PROVE  g * p <= g * q /\ g * p \in Int /\ g * q \in Int
<1>1. q - p \in Nat /\ g * (q - p) \in Nat
  OBVIOUS
<1>2. g * (q - p) = g * q - g * p /\ g * p \in Int /\ g * q \in Int
  OBVIOUS
<1> QED
  BY <1>1, <1>2

\* For numbers that are not negative: less than one unit is lost.
LEMMA DividedLess ==
  ASSUME NEW x \in Nat, NEW y \in Nat, NEW g \in Nat \ {0}
  PROVE  /\ x <= y => x \div g <= y \div g
         /\ x \div g <= y \div g => x <= y + g - 1
<1> DEFINE p == x \div g
           q == y \div g
<1>1. /\ p \in Nat /\ g * p <= x /\ x <= g * p + g - 1
      /\ q \in Nat /\ g * q <= y /\ y <= g * q + g - 1
      /\ g * p \in Int /\ g * q \in Int
  BY Divided
<1> HIDE DEF p, q
<1>2. ASSUME p <= q
      PROVE  x <= y + g - 1
  <2>1. g * p <= g * q
    BY <1>1, <1>2, Scaled
  <2> QED
    BY <1>1, <2>1
<1>3. ASSUME x <= y, ~(p <= q)
      PROVE  FALSE
  <2>1. g * (q + 1) <= g * p /\ g * (q + 1) \in Int
    <3>1. q + 1 <= p /\ q + 1 \in Int /\ p \in Int
      BY <1>1, <1>3
    <3> QED
      BY <3>1, Scaled
  <2>2. g * (q + 1) = g * q + g
    BY <1>1
  <2> QED
    BY <1>1, <1>3, <2>1, <2>2
<1>4. (x <= y => p <= q) /\ (p <= q => x <= y + g - 1)
  BY <1>2, <1>3
<1> QED
  BY <1>4 DEF p, q

LEMMA TruncatedOrder ==
  ASSUME NEW x \in Int, NEW y \in Int
  PROVE  /\ Truncated(x) \in Int
         /\ x <= y => Truncated(x) <= Truncated(y)
         /\ Truncated(x) >= 0 \/ Truncated(y) >= 0 =>
              (Truncated(x) <= Truncated(y) => x - Slack(x, y) <= y /\ x <= y + Slack(y, x))
<1>1. Grain \in Nat \ {0}
  BY StrategyAssumption
<1> DEFINE g == Grain
<1>2. g \in Nat \ {0}
  BY <1>1
<1>3. ASSUME NEW z \in Int, z >= 0
      PROVE  Truncated(z) = z \div g /\ z \in Nat /\ z \div g \in Nat
  BY <1>2, <1>3, Divided DEF Truncated
<1>4. ASSUME NEW z \in Int, z < 0
      PROVE  /\ Truncated(z) = -((-z) \div g) /\ -z \in Nat /\ (-z) \div g \in Nat
             /\ Truncated(z) >= 0 => z >= -(g - 1)
  <2>1. ~(z >= 0) /\ -z \in Nat
    BY <1>4
  <2>2. Truncated(z) = -((-z) \div g)
    BY <2>1 DEF Truncated
  <2>3. (-z) \div g \in Nat /\ -z <= g * ((-z) \div g) + g - 1
    BY <1>2, <2>1, Divided
  <2>4. ASSUME Truncated(z) >= 0
        PROVE  z >= -(g - 1)
    <3>1. (-z) \div g = 0
      BY <2>2, <2>3, <2>4
    <3>2. g * 0 = 0
      BY <1>2
    <3>3. -z <= g - 1
      BY <1>2, <2>3, <3>1, <3>2
    <3> QED
      BY <1>2, <3>3
  <2> QED
    BY <2>1, <2>2, <2>3, <2>4
<1> HIDE DEF g
<1>5. CASE x >= 0 /\ y >= 0
  <2>1. Slack(x, y) = g - 1 /\ Slack(y, x) = g - 1
    BY <1>5 DEF Slack, g
  <2>2. /\ Truncated(x) = x \div g /\ x \in Nat /\ x \div g \in Nat
        /\ Truncated(y) = y \div g /\ y \in Nat /\ y \div g \in Nat
    BY <1>3, <1>5
  <2>3. /\ x <= y => x \div g <= y \div g
        /\ x \div g <= y \div g => x <= y + g - 1
    BY <1>2, <2>2, DividedLess
  <2> QED
    BY <1>2, <2>1, <2>2, <2>3
<1>6. CASE x < 0 /\ y >= 0
  <2>1. Slack(x, y) = 2 * (g - 1) /\ Slack(y, x) = 2 * (g - 1)
    BY <1>6 DEF Slack, g
  <2> QED
    BY <1>2, <1>3, <1>4, <1>6, <2>1
<1>7. CASE x >= 0 /\ y < 0
  <2>1. Slack(x, y) = 2 * (g - 1) /\ Slack(y, x) = 2 * (g - 1)
    BY <1>7 DEF Slack, g
  <2>2. /\ Truncated(x) = x \div g /\ x \in Nat /\ x \div g \in Nat
    BY <1>3, <1>7
  <2>3. Truncated(x) \in Int /\ Truncated(y) \in Int /\ Truncated(y) <= 0 /\ Truncated(x) >= 0
    BY <1>4, <1>7, <2>2
  <2>4. ASSUME Truncated(x) <= Truncated(y)
        PROVE  x <= g - 1 /\ y >= -(g - 1)
    <3>1. x \div g = 0 /\ Truncated(y) >= 0
      BY <2>2, <2>3, <2>4
    <3>2. x <= g * (x \div g) + g - 1 /\ g * 0 = 0
      BY <1>2, <2>2, Divided
    <3> QED
      BY <1>2, <1>4, <1>7, <2>2, <3>1, <3>2
  <2> QED
    BY <1>2, <1>7, <2>1, <2>3, <2>4
<1>8. CASE x < 0 /\ y < 0
  <2>1. Slack(x, y) = g - 1 /\ Slack(y, x) = g - 1
    BY <1>8 DEF Slack, g
  <2>2. /\ Truncated(x) = -((-x) \div g) /\ -x \in Nat /\ (-x) \div g \in Nat
        /\ Truncated(y) = -((-y) \div g) /\ -y \in Nat /\ (-y) \div g \in Nat
    BY <1>4, <1>8
  <2>3. /\ -y <= -x => (-y) \div g <= (-x) \div g
        /\ (-y) \div g <= (-x) \div g => -y <= -x + g - 1
    BY <1>2, <2>2, DividedLess
  <2> QED
    BY <1>2, <1>8, <2>1, <2>2, <2>3
<1> QED
  BY <1>5, <1>6, <1>7, <1>8

-----------------------------------------------------------------------------
(* Sums over sets. *)

\* Two folds that pick the same elements and agree at each step are the same.
LEMMA SameFold ==
  ASSUME NEW D, IsFiniteSet(D), NEW pick, Picks(pick, D), NEW g, NEW h,
         g[{}] = h[{}],
         \A s \in SUBSET D :
           s # {} /\ g[s \ {pick[s]}] = h[s \ {pick[s]}] => g[s] = h[s]
  PROVE  \A s \in SUBSET D : g[s] = h[s]
<1> DEFINE N == {n \in Nat : \A s \in SUBSET D : Cardinality(s) = n => g[s] = h[s]}
<1>1. \A s \in SUBSET D : IsFiniteSet(s) /\ Cardinality(s) \in Nat
  BY FS_Subset, FS_CardinalityType
<1>2. 0 \in N
  <2>1. \A s \in SUBSET D : Cardinality(s) = 0 => s = {}
    BY <1>1, FS_EmptySet
  <2> QED
    BY <2>1
<1>3. ASSUME NEW n \in Nat, n \in N
      PROVE  n + 1 \in N
  <2> SUFFICES ASSUME NEW s \in SUBSET D, Cardinality(s) = n + 1
               PROVE  g[s] = h[s]
    OBVIOUS
  <2>1. s # {}
    <3>1. n + 1 # 0
      OBVIOUS
    <3> QED
      BY <3>1, FS_EmptySet
  <2>2. pick[s] \in s /\ s \ {pick[s]} \in SUBSET D
    BY <2>1 DEF Picks
  <2>3. Cardinality(s \ {pick[s]}) = n
    <3>1. Cardinality(s \ {pick[s]}) = Cardinality(s) - 1
      BY <1>1, <2>2, FS_RemoveElement
    <3> QED
      BY <3>1
  <2>4. g[s \ {pick[s]}] = h[s \ {pick[s]}]
    BY <1>3, <2>2, <2>3
  <2> QED
    BY <2>1, <2>4
<1> HIDE DEF N
<1>4. Nat \subseteq N
  BY <1>2, <1>3, SetInduction
<1> QED
  BY <1>1, <1>4 DEF N

LEMMA SumFunctionIs ==
  ASSUME NEW f, IsFiniteSet(DOMAIN f), \A x \in DOMAIN f : f[x] \in Int
  PROVE  \E g, pick : /\ Picks(pick, DOMAIN f) /\ Sums(g, DOMAIN f, f, pick)
                      /\ Ext!SumFunction(f) = g[DOMAIN f]
<1> DEFINE D == DOMAIN f
           pick == [s \in SUBSET D |-> CHOOSE x \in s : TRUE]
           Folds(g) == g = [s \in SUBSET D |->
                             IF s = {} THEN 0 ELSE LET x == CHOOSE x \in s : TRUE
                                                   IN  f[x] + g[s \ {x}]]
           iter == CHOOSE iter : iter = [s \in SUBSET D |->
                             IF s = {} THEN 0 ELSE LET x == CHOOSE x \in s : TRUE
                                                   IN  f[x] + iter[s \ {x}]]
<1>1. Ext!SumFunction(f) = iter[D]
  BY DEF Ext!SumFunction, Ext!SumFunctionOnSet, Ext!FoldFunctionOnSet, Ext!MapThenFoldSet
<1>2. Picks(pick, D) /\ \A s \in SUBSET D : pick[s] = CHOOSE x \in s : TRUE
  BY DEF Picks
<1>3. iter = CHOOSE g : Folds(g)
  OBVIOUS
<1>4. \A g : Folds(g) <=> g = [s \in SUBSET D |-> IF s = {} THEN 0
                                                  ELSE f[pick[s]] + g[s \ {pick[s]}]]
  <2> HIDE DEF pick, D
  <2> QED
    BY <1>2
<1> HIDE DEF D, pick, iter, Folds
<1>5. PICK g : Sums(g, D, f, pick)
  BY <1>2, SumExists DEF D
<1>6. \A s \in SUBSET D : g[s] \in Int
  BY <1>2, <1>5, SumType DEF D
<1>7. \A s \in SUBSET D : s # {} => /\ pick[s] \in D /\ s \ {pick[s]} \in SUBSET D
                                    /\ f[pick[s]] \in Int /\ g[s \ {pick[s]}] \in Int
  BY <1>2, <1>6 DEF Picks, D
<1>8. Folds(g)
  <2>1. g = [s \in SUBSET D |-> IF s = {} THEN 0 ELSE g[s \ {pick[s]}] + f[pick[s]]]
    BY <1>5 DEF Sums
  <2>2. \A s \in SUBSET D : (IF s = {} THEN 0 ELSE g[s \ {pick[s]}] + f[pick[s]])
                              = (IF s = {} THEN 0 ELSE f[pick[s]] + g[s \ {pick[s]}])
    <3>1. \A x, y \in Int : x + y = y + x
      OBVIOUS
    <3>2. \A s \in SUBSET D : s # {} =>
            g[s \ {pick[s]}] + f[pick[s]] = f[pick[s]] + g[s \ {pick[s]}]
      BY <1>7, <3>1
    <3> QED
      BY <3>2
  <2>3. g = [s \in SUBSET D |-> IF s = {} THEN 0 ELSE f[pick[s]] + g[s \ {pick[s]}]]
    BY <2>1, <2>2
  <2> QED
    BY <1>4, <2>3
<1>9. Folds(iter)
  BY <1>3, <1>8
<1>10. \A s \in SUBSET D : iter[s] = g[s]
  <2>1. \A s \in SUBSET D : /\ iter[s] = IF s = {} THEN 0 ELSE f[pick[s]] + iter[s \ {pick[s]}]
                            /\ g[s] = IF s = {} THEN 0 ELSE f[pick[s]] + g[s \ {pick[s]}]
    BY <1>4, <1>8, <1>9
  <2>2. iter[{}] = g[{}]
    BY <2>1
  <2>3. \A s \in SUBSET D : s # {} /\ iter[s \ {pick[s]}] = g[s \ {pick[s]}] => iter[s] = g[s]
    BY <2>1
  <2> QED
    BY <1>2, <2>2, <2>3, SameFold DEF D
<1>11. iter[D] = g[D]
  BY <1>10
<1> QED
  BY <1>1, <1>2, <1>5, <1>11 DEF D

LEMMA SumFunctionType ==
  ASSUME NEW f, IsFiniteSet(DOMAIN f), \A x \in DOMAIN f : f[x] \in Int
  PROVE  Ext!SumFunction(f) \in Int
<1>1. PICK g, pick : /\ Picks(pick, DOMAIN f) /\ Sums(g, DOMAIN f, f, pick)
                     /\ Ext!SumFunction(f) = g[DOMAIN f]
  BY SumFunctionIs
<1>2. \A s \in SUBSET DOMAIN f : g[s] \in Int
  BY <1>1, SumType
<1> QED
  BY <1>1, <1>2

LEMMA SumFunctionPositive ==
  ASSUME NEW f, IsFiniteSet(DOMAIN f), \A x \in DOMAIN f : f[x] \in Nat
  PROVE  Ext!SumFunction(f) \in Nat /\ (Ext!SumFunction(f) > 0 <=> \E x \in DOMAIN f : f[x] > 0)
<1>1. PICK g, pick : /\ Picks(pick, DOMAIN f) /\ Sums(g, DOMAIN f, f, pick)
                     /\ Ext!SumFunction(f) = g[DOMAIN f]
  BY SumFunctionIs
<1>2. \A s \in SUBSET DOMAIN f : g[s] \in Nat /\ (g[s] > 0 <=> \E x \in s : f[x] > 0)
  BY <1>1, PositiveSum
<1> QED
  BY <1>1, <1>2

LEMMA CostOfType ==
  ASSUME NEW p \in Plan
  PROVE  CostOf(p) \in Int
<1> DEFINE D == 1 .. Len(p.actions)
           w == [i \in D |-> Price[p.actions[i]]]
           pick == [s \in SUBSET D |-> Ext!Max(s)]
           iter == CHOOSE iter : iter = [s \in SUBSET DOMAIN p.actions |->
                     IF s = {} THEN 0 ELSE LET x == Ext!Max(s)
                                           IN  iter[s \ {x}] + Price[p.actions[x]]]
<1>1. p.actions \in Seq(Actions) /\ DOMAIN p.actions = D /\ Len(p.actions) \in Nat
  BY DEF Plan
<1>2. CostOf(p) = iter[DOMAIN p.actions]
  BY DEF CostOf, Ext!FoldLeft, Ext!MapThenFoldSet
<1>3. IsFiniteSet(D) /\ \A s \in SUBSET D : s # {} => pick[s] \in s
  BY <1>1, GreatestPosition
<1>4. Picks(pick, D)
  BY <1>3 DEF Picks
<1>5. \A i \in D : w[i] \in Int
  <2>1. \A i \in D : p.actions[i] \in Actions
    BY <1>1
  <2> QED
    BY <2>1, StrategyAssumption
<1>6. \A g : Sums(g, D, w, pick)
        <=> g = [s \in SUBSET DOMAIN p.actions |->
                  IF s = {} THEN 0 ELSE LET x == Ext!Max(s)
                                        IN  g[s \ {x}] + Price[p.actions[x]]]
  <2> TAKE g
  <2>1. \A s \in SUBSET D : s # {} => w[pick[s]] = Price[p.actions[Ext!Max(s)]]
    BY <1>3
  <2>2. \A s \in SUBSET D : pick[s] = Ext!Max(s)
    OBVIOUS
  <2> HIDE DEF pick, w, D
  <2> QED
    BY <1>1, <2>1, <2>2 DEF Sums
<1>7. Sums(iter, D, w, pick)
  <2>1. \E g : Sums(g, D, w, pick)
    <3> HIDE DEF pick, w, D
    <3> QED
      BY <1>3, <1>4, SumExists
  <2> QED
    BY <2>1, <1>6
<1> HIDE DEF D, w, pick, iter
<1>8. \A s \in SUBSET D : iter[s] \in Int
  BY <1>3, <1>4, <1>5, <1>7, SumType
<1> QED
  BY <1>1, <1>2, <1>8

-----------------------------------------------------------------------------
(* Limits, scores and explanations. *)

\* The limits of a goal, and what a plan comes to against them.
LEMMA LimitsKnown ==
  ASSUME NEW goal \in Goals, NEW p \in Plan
  PROVE  /\ IsFiniteSet(Resources) /\ Limited(goal) \subseteq Resources
         /\ Hard(goal) \subseteq Limited(goal) /\ Missed(goal, p) \subseteq Hard(goal)
         /\ goal.minimise \subseteq Resources /\ goal.maximise \subseteq Resources
         /\ \A r \in Limited(goal) : /\ IsBound(goal.limits[r].low) /\ IsBound(goal.limits[r].high)
                                     /\ goal.limits[r].weight \in Nat
         /\ \A r \in Resources : Total(p, r) \in Int
  BY StrategyAssumption, TotalType DEF IsGoal, IsLimit, Limited, Hard, Missed

LEMMA PenaltyIs ==
  ASSUME NEW goal \in Goals, NEW p \in Plan, NEW r \in Hard(goal)
  PROVE  /\ Penalty(goal, p, r) \in Nat
         /\ Penalty(goal, p, r) > 0 <=> r \in Missed(goal, p) /\ goal.limits[r].weight > 0
<1> DEFINE x == Total(p, r)
           l == goal.limits[r]
           miss == IF Above(x, l.high) THEN x - l.high
                   ELSE IF Below(x, l.low) THEN l.low - x ELSE 0
<1>1. /\ x \in Int /\ IsBound(l.low) /\ IsBound(l.high) /\ l.weight \in Nat
  BY LimitsKnown
<1>2. Penalty(goal, p, r) = l.weight * miss
  BY DEF Penalty
<1>3. r \in Missed(goal, p) <=> Below(x, l.low) \/ Above(x, l.high)
  BY DEF Missed
<1> HIDE DEF x, l
<1>4. miss \in Nat /\ (miss > 0 <=> Below(x, l.low) \/ Above(x, l.high))
  BY <1>1 DEF Below, Above, IsBound
<1> HIDE DEF miss
<1>5. \A m, n \in Nat : m * n \in Nat /\ (m * n > 0 <=> m > 0 /\ n > 0)
  OBVIOUS
<1>6. l.weight * miss \in Nat /\ (l.weight * miss > 0 <=> l.weight > 0 /\ miss > 0)
  BY <1>1, <1>4, <1>5
<1>7. Penalty(goal, p, r) > 0 <=> r \in Missed(goal, p) /\ l.weight > 0
  BY <1>2, <1>3, <1>4, <1>6
<1> QED
  BY <1>2, <1>6, <1>7 DEF l

LEMMA ScoreIsHonest ==
  ASSUME NEW goal \in Goals, NEW p \in Plan
  PROVE  HardScore(goal, p) < 0 <=> \E r \in Missed(goal, p) : goal.limits[r].weight > 0
<1> DEFINE f == [r \in Hard(goal) |-> Penalty(goal, p, r)]
           sum == Ext!SumFunction(f)
<1>1. IsFiniteSet(Hard(goal)) /\ Missed(goal, p) \subseteq Hard(goal)
  BY LimitsKnown, FS_Subset
<1>2. DOMAIN f = Hard(goal) /\ \A r \in Hard(goal) :
        f[r] \in Nat /\ (f[r] > 0 <=> r \in Missed(goal, p) /\ goal.limits[r].weight > 0)
  BY PenaltyIs
<1>3. sum \in Nat /\ (sum > 0 <=> \E r \in Hard(goal) : f[r] > 0)
  <2> HIDE DEF f
  <2> QED
    BY <1>1, <1>2, SumFunctionPositive
<1>4. HardScore(goal, p) = -sum
  BY DEF HardScore
<1> HIDE DEF f, sum
<1>5. HardScore(goal, p) < 0 <=> sum > 0
  BY <1>3, <1>4
<1> QED
  BY <1>1, <1>2, <1>3, <1>5

\* The reduction ends with one limit, the last it looks at.
LEMMA EssentialIsLast ==
  ASSUME NEW goal \in Goals, NEW p \in Plan, Missed(goal, p) # {},
         NEW order \in Ext!SetToSeqs(Missed(goal, p))
  PROVE  \E r \in Missed(goal, p) : Essential(goal, p, order) = {r}
<1> DEFINE M == Missed(goal, p)
           n == Len(order)
           D == DOMAIN order
           Look(acc, r) == IF (acc.remaining \ {r}) \cap M = {}
                             THEN [acc EXCEPT !.mus = @ \cup {r}]
                             ELSE [acc EXCEPT !.remaining = acc.remaining \ {r}]
           base == [mus |-> {}, remaining |-> M]
           Folds(g) == g = [s \in SUBSET D |->
                              IF s = {} THEN base
                              ELSE LET x == Ext!Max(s) IN Look(g[s \ {x}], order[x])]
           iter == CHOOSE g : Folds(g)
           last == order[n]
           seen == [s \in SUBSET D |->
                      IF s = D THEN [mus |-> {last}, remaining |-> {last}]
                      ELSE [mus |-> {}, remaining |-> M \ {order[i] : i \in s}]]
           pick == [s \in SUBSET D |-> Ext!Max(s)]
<1>1. IsFiniteSet(M)
  BY LimitsKnown, FS_Subset
<1>2. /\ order \in Seq(M) /\ n = Cardinality(M) /\ D = 1 .. n /\ n \in Nat
      /\ \A u \in M : \E i \in D : order[i] = u
      /\ \A i \in D : order[i] \in M
  <2>1. /\ order \in Seq(M) /\ n = Cardinality(M)
        /\ \A u \in M : \E i \in D : order[i] = u
    BY <1>1, OrdersOf
  <2> QED
    BY <2>1
<1>3. \A i, j \in D : i # j => order[i] # order[j]
  <2>1. Ext!Cardinality(M) = Cardinality(M)
    BY DEF Ext!Cardinality, Cardinality
  <2> QED
    BY <1>2, <2>1 DEF Ext!SetToSeqs
<1>4. Essential(goal, p, order) = iter[D].mus
  BY DEF Essential, Ext!FoldLeft, Ext!MapThenFoldSet
<1>5. n \in D /\ last \in M /\ D # {}
  BY <1>2
<1>6. /\ IsFiniteSet(D) /\ Picks(pick, D)
      /\ \A s \in SUBSET D : s # {} => Ext!Max(s) \in s
  BY <1>2, GreatestPosition DEF Picks
<1>7. Ext!Max(D) = n
  <2>1. \A x, y \in D : x >= y /\ y >= x => x = y
    BY <1>2
  <2>2. n \in D /\ \A y \in D : n >= y
    BY <1>2, <1>5
  <2>3. Ext!Max(D) \in D /\ \A y \in D : Ext!Max(D) >= y
    BY <2>2 DEF Ext!Max
  <2> QED
    BY <2>1, <2>2, <2>3
<1> HIDE DEF D, n, M, last
<1>a. \A R, r : (R \ {r}) \cap M # {} =>
        Look([mus |-> {}, remaining |-> R], r) = [mus |-> {}, remaining |-> R \ {r}]
  OBVIOUS
<1>8. ASSUME NEW s \in SUBSET D
      PROVE  seen[s] = IF s = {} THEN base
                       ELSE Look(seen[s \ {Ext!Max(s)}], order[Ext!Max(s)])
  <2>1. CASE s = {}
    BY <1>5, <2>1
  <2>2. CASE s # {} /\ s # D
    <3> DEFINE x == Ext!Max(s)
    <3>1. x \in s
      BY <1>6, <2>2
    <3>2. seen[s \ {x}] = [mus |-> {}, remaining |-> M \ {order[i] : i \in s \ {x}}]
      <4>1. s \ {x} \in SUBSET D /\ s \ {x} # D
        BY <3>1
      <4> HIDE DEF x
      <4> QED
        BY <4>1
    <3> HIDE DEF x
    <3>3. (M \ {order[i] : i \in s \ {x}}) \ {order[x]} = M \ {order[i] : i \in s}
      BY <3>1
    <3>4. (M \ {order[i] : i \in s}) \cap M # {}
      <4>1. PICK j \in D : j \notin s
        BY <2>2
      <4>2. order[j] \in M
        BY <1>2
      <4>3. \A i \in s : order[i] # order[j]
        BY <1>3, <4>1
      <4> QED
        BY <4>2, <4>3
    <3>5. Look(seen[s \ {x}], order[x]) = [mus |-> {}, remaining |-> M \ {order[i] : i \in s}]
      <4> HIDE DEF seen, Look
      <4> QED
        BY <1>a, <3>2, <3>3, <3>4
    <3>6. seen[s] = [mus |-> {}, remaining |-> M \ {order[i] : i \in s}]
      BY <2>2
    <3> HIDE DEF seen, Look
    <3> QED
      BY <2>2, <3>5, <3>6 DEF x
  <2>3. CASE s = D
    <3>1. seen[D \ {n}] = [mus |-> {}, remaining |-> {last}]
      <4>1. D \ {n} \in SUBSET D /\ D \ {n} # D
        BY <1>5
      <4>2. M \ {order[i] : i \in D \ {n}} = {last}
        <5>1. \A u \in M : (\E i \in D \ {n} : order[i] = u) \/ u = last
          BY <1>2 DEF last
        <5>2. \A i \in D \ {n} : order[i] # last
          BY <1>3, <1>5 DEF last
        <5> QED
          BY <1>5, <5>1, <5>2
      <4>3. seen[D \ {n}] = [mus |-> {}, remaining |-> M \ {order[i] : i \in D \ {n}}]
        BY <4>1
      <4> HIDE DEF seen
      <4> QED
        BY <4>2, <4>3
    <3>2. Look(seen[D \ {n}], last) = [mus |-> {last}, remaining |-> {last}]
      <4> HIDE DEF seen
      <4> QED
        BY <3>1
    <3>3. seen[D] = [mus |-> {last}, remaining |-> {last}]
      OBVIOUS
    <3> HIDE DEF seen, Look
    <3> QED
      BY <1>5, <1>7, <2>3, <3>2, <3>3 DEF last
  <2> QED
    BY <2>1, <2>2, <2>3
<1>9. Folds(seen)
  <2> DEFINE Val(s) == IF s = {} THEN base ELSE Look(seen[s \ {Ext!Max(s)}], order[Ext!Max(s)])
  <2>1. \A s \in SUBSET D : seen[s] = Val(s)
    BY <1>8
  <2>2. seen = [s \in SUBSET D |-> seen[s]]
    OBVIOUS
  <2>3. seen = [s \in SUBSET D |-> Val(s)]
    <3> HIDE DEF seen, Val
    <3> QED
      BY <2>1, <2>2
  <2> HIDE DEF seen
  <2> QED
    BY <2>3
<1>10. Folds(iter)
  <2> HIDE DEF Folds
  <2> QED
    BY <1>9
<1>11. \A s \in SUBSET D : iter[s] = IF s = {} THEN base
                                     ELSE Look(iter[s \ {Ext!Max(s)}], order[Ext!Max(s)])
  <2> HIDE DEF iter
  <2> QED
    BY <1>10
<1>12. \A s \in SUBSET D : pick[s] = Ext!Max(s)
  OBVIOUS
<1> HIDE DEF iter, seen, Look, base, pick
<1>13. iter[{}] = seen[{}]
  BY <1>8, <1>11
<1>14. \A s \in SUBSET D : s # {} /\ iter[s \ {pick[s]}] = seen[s \ {pick[s]}] => iter[s] = seen[s]
  BY <1>8, <1>11, <1>12
<1>15. \A s \in SUBSET D : iter[s] = seen[s]
  BY <1>6, <1>13, <1>14, SameFold
<1>16. iter[D] = seen[D]
  BY <1>15
<1>17. seen[D].mus = {last}
  BY DEF seen
<1> QED
  BY <1>4, <1>5, <1>16, <1>17 DEF M

LEMMA NamedIsEssential ==
  ASSUME NEW goal \in Goals, NEW p \in Plan, ~MeetsHardLimits(goal, p),
         NEW order \in Ext!SetToSeqs(Missed(goal, p))
  PROVE  LET named == Conflicting(goal, p, order)
         IN  /\ named \cap Missed(goal, p) # {}
             /\ \A r \in named : (named \ {r}) \cap Missed(goal, p) = {}
<1>1. PICK r \in Missed(goal, p) : Essential(goal, p, order) = {r}
  BY EssentialIsLast DEF MeetsHardLimits
<1>2. Conflicting(goal, p, order) = {r}
  BY <1>1 DEF Conflicting
<1> QED
  BY <1>1, <1>2
-----------------------------------------------------------------------------
(* The solver's choice. *)

LEMMA UnitsType ==
  ASSUME NEW b, IsBound(b)
  PROVE  /\ b = Unbounded => InUnits(b) = Unbounded
         /\ b # Unbounded => b \in Int /\ InUnits(b) = Truncated(b) /\ InUnits(b) \in Int
BY TruncatedOrder DEF IsBound, InUnits

\* A plan within the hard limits, without negative totals, is one the solver may select.
LEMMA WithinIsSelectable ==
  ASSUME NEW goal \in Goals, NEW p \in Plan, MeetsHardLimits(goal, p),
         \A r \in Resources : Total(p, r) >= 0
  PROVE  Selectable(goal, p)
<1>1. ASSUME NEW r \in Resources
      PROVE  Truncated(Total(p, r)) >= 0 /\ Truncated(Total(p, r)) \in Int
  <2>1. Total(p, r) \in Nat /\ Grain \in Nat \ {0}
    BY LimitsKnown, StrategyAssumption
  <2>2. Total(p, r) \div Grain \in Nat /\ Total(p, r) >= 0
    BY <2>1, Divided
  <2>3. Truncated(Total(p, r)) = Total(p, r) \div Grain
    BY <2>2 DEF Truncated
  <2> QED
    BY <2>2, <2>3
<1>2. ASSUME NEW r \in Hard(goal)
      PROVE  /\ ~Below(Truncated(Total(p, r)), InUnits(goal.limits[r].low))
             /\ ~Above(Truncated(Total(p, r)), InUnits(goal.limits[r].high))
  <2> DEFINE x == Total(p, r)
             low == goal.limits[r].low
             high == goal.limits[r].high
  <2>1. x \in Int /\ IsBound(low) /\ IsBound(high) /\ Truncated(x) \in Int
    BY LimitsKnown, TruncatedOrder
  <2>2. ~Below(x, low) /\ ~Above(x, high)
    BY DEF MeetsHardLimits, Missed
  <2> HIDE DEF x, low, high
  <2>3. ~Below(Truncated(x), InUnits(low))
    <3>1. CASE low # Unbounded
      <4>1. low \in Int /\ low <= x /\ InUnits(low) = Truncated(low)
        BY <2>1, <2>2, <3>1, UnitsType DEF Below
      <4>2. Truncated(low) <= Truncated(x) /\ Truncated(low) \in Int
        BY <2>1, <4>1, TruncatedOrder
      <4> QED
        BY <2>1, <4>1, <4>2 DEF Below
    <3>2. CASE low = Unbounded
      BY <2>1, <3>2, UnitsType DEF Below
    <3> QED
      BY <3>1, <3>2
  <2>4. ~Above(Truncated(x), InUnits(high))
    <3>1. CASE high # Unbounded
      <4>1. high \in Int /\ x <= high /\ InUnits(high) = Truncated(high)
        BY <2>1, <2>2, <3>1, UnitsType DEF Above
      <4>2. Truncated(x) <= Truncated(high) /\ Truncated(high) \in Int
        BY <2>1, <4>1, TruncatedOrder
      <4> QED
        BY <2>1, <4>1, <4>2 DEF Above
    <3>2. CASE high = Unbounded
      BY <2>1, <3>2, UnitsType DEF Above
    <3> QED
      BY <3>1, <3>2
  <2> QED
    BY <2>3, <2>4 DEF x, low, high
<1> QED
  BY <1>1, <1>2 DEF Selectable

\* What the solver may select misses no limit by more than it cuts off.
LEMMA SelectableIsNear ==
  ASSUME NEW goal \in Goals, NEW p \in Plan, Selectable(goal, p)
  PROVE  WithinAUnit(goal, p)
<1> SUFFICES ASSUME NEW r \in Hard(goal)
             PROVE  LET x == Total(p, r)
                        l == goal.limits[r]
                    IN  ~Below(x + Slack(x, l.low), l.low) /\ ~Above(x - Slack(x, l.high), l.high)
  BY DEF WithinAUnit
<1> DEFINE x == Total(p, r)
           low == goal.limits[r].low
           high == goal.limits[r].high
<1>1. x \in Int /\ IsBound(low) /\ IsBound(high) /\ Truncated(x) \in Int /\ r \in Resources
  BY LimitsKnown, TruncatedOrder
<1>2. /\ Truncated(x) >= 0
      /\ ~Below(Truncated(x), InUnits(low)) /\ ~Above(Truncated(x), InUnits(high))
  BY <1>1 DEF Selectable
<1> HIDE DEF x, low, high
<1>3. Unbounded \notin Int /\ Grain \in Nat
  BY StrategyAssumption
<1>4. \A y \in Int : Slack(x, y) \in Int
  BY <1>3 DEF Slack
<1>5. ~Below(x + Slack(x, low), low)
  <2>1. CASE low # Unbounded
    <3>1. low \in Int /\ InUnits(low) = Truncated(low) /\ Truncated(low) \in Int
      BY <1>1, <2>1, UnitsType, TruncatedOrder
    <3>2. Truncated(low) <= Truncated(x)
      BY <1>1, <1>2, <1>3, <3>1 DEF Below
    <3>3. low <= x + Slack(x, low)
      BY <1>1, <1>2, <3>1, <3>2, TruncatedOrder
    <3>4. x + Slack(x, low) \in Int
      BY <1>1, <1>4, <3>1
    <3> QED
      BY <3>1, <3>3, <3>4 DEF Below
  <2>2. CASE low = Unbounded
    BY <2>2 DEF Below
  <2> QED
    BY <2>1, <2>2
<1>6. ~Above(x - Slack(x, high), high)
  <2>1. CASE high # Unbounded
    <3>1. high \in Int /\ InUnits(high) = Truncated(high) /\ Truncated(high) \in Int
      BY <1>1, <2>1, UnitsType, TruncatedOrder
    <3>2. Truncated(x) <= Truncated(high)
      BY <1>1, <1>2, <1>3, <3>1 DEF Above
    <3>3. x - Slack(x, high) <= high
      BY <1>1, <1>2, <3>1, <3>2, TruncatedOrder
    <3>4. x - Slack(x, high) \in Int
      BY <1>1, <1>4, <3>1
    <3> QED
      BY <3>1, <3>3, <3>4 DEF Above
  <2>2. CASE high = Unbounded
    BY <2>2 DEF Above
  <2> QED
    BY <2>1, <2>2
<1> QED
  BY <1>5, <1>6 DEF x, low, high

LEMMA BadnessType ==
  ASSUME NEW goal \in Goals, NEW p \in Plan
  PROVE  Badness(goal, p) \in Int
<1> DEFINE soft == Limited(goal) \ Hard(goal)
           least == [r \in goal.minimise |-> Truncated(Total(p, r))]
           most == [r \in goal.maximise |-> Truncated(Total(p, r))]
           missing == [r \in soft |-> Excess(goal, p, r)]
<1>1. /\ IsFiniteSet(goal.minimise) /\ IsFiniteSet(goal.maximise) /\ IsFiniteSet(soft)
      /\ soft \subseteq Limited(goal)
  BY LimitsKnown, FS_Subset
<1>2. \A r \in Resources : Truncated(Total(p, r)) \in Int
  BY LimitsKnown, TruncatedOrder
<1>3. Truncated(CostOf(p)) \in Int
  BY CostOfType, TruncatedOrder
<1>4. ASSUME NEW r \in soft
      PROVE  Excess(goal, p, r) \in Int
  <2> DEFINE x == Truncated(Total(p, r))
             low == InUnits(goal.limits[r].low)
             high == InUnits(goal.limits[r].high)
             weight == goal.limits[r].weight
  <2>1. x \in Int /\ weight \in Nat
    BY <1>2, LimitsKnown
  <2>2. low \in Int \cup {Unbounded} /\ high \in Int \cup {Unbounded}
    BY <1>1, LimitsKnown, UnitsType
  <2>3. Excess(goal, p, r) = weight * ((IF Above(x, high) THEN x - high ELSE 0)
                                         + (IF Below(x, low) THEN low - x ELSE 0))
    BY DEF Excess
  <2> HIDE DEF x, low, high, weight
  <2>4. (IF Above(x, high) THEN x - high ELSE 0) \in Int
    BY <2>1, <2>2 DEF Above
  <2>5. (IF Below(x, low) THEN low - x ELSE 0) \in Int
    BY <2>1, <2>2 DEF Below
  <2>6. \A m, n \in Int : weight * (m + n) \in Int
    BY <2>1
  <2> QED
    BY <2>3, <2>4, <2>5, <2>6
<1>5. Ext!SumFunction(least) \in Int
  <2>1. DOMAIN least = goal.minimise /\ \A r \in goal.minimise : least[r] \in Int
    BY <1>2, LimitsKnown
  <2> HIDE DEF least
  <2> QED
    BY <1>1, <2>1, SumFunctionType
<1>6. Ext!SumFunction(most) \in Int
  <2>1. DOMAIN most = goal.maximise /\ \A r \in goal.maximise : most[r] \in Int
    BY <1>2, LimitsKnown
  <2> HIDE DEF most
  <2> QED
    BY <1>1, <2>1, SumFunctionType
<1>7. Ext!SumFunction(missing) \in Int
  <2>1. DOMAIN missing = soft /\ \A r \in soft : missing[r] \in Int
    BY <1>4
  <2> HIDE DEF missing, soft
  <2> QED
    BY <1>1, <2>1, SumFunctionType
<1>8. Badness(goal, p) = IF goal.minimise \cup goal.maximise \cup soft = {} THEN Truncated(CostOf(p))
        ELSE Ext!SumFunction(least) - Ext!SumFunction(most) + Ext!SumFunction(missing)
  BY DEF Badness
<1> HIDE DEF soft, least, most, missing
<1> QED
  BY <1>3, <1>5, <1>6, <1>7, <1>8

\* When there is a plan to select, there is a best one.
LEMMA OptimalExists ==
  ASSUME NEW goal \in Goals, NEW ps \in SUBSET Plan, IsFiniteSet(ps),
         NEW q \in ps, Selectable(goal, q)
  PROVE  Optimal(goal, ps) # {}
<1> DEFINE able == {p \in ps : Selectable(goal, p)}
           T == {s \in SUBSET able : s # {} =>
                   \E p \in s : \A r \in s : Badness(goal, p) <= Badness(goal, r)}
<1>1. IsFiniteSet(able) /\ \A p \in able : Badness(goal, p) \in Int
  BY FS_Subset, BadnessType
<1>2. {} \in T
  OBVIOUS
<1>3. ASSUME NEW s \in SUBSET able, NEW x \in s, s \ {x} \in T
      PROVE  s \in T
  <2>1. CASE s \ {x} = {}
    <3>1. \A r \in s : r = x
      BY <2>1
    <3>2. \A r \in s : Badness(goal, x) <= Badness(goal, r)
      BY <1>1, <3>1
    <3> QED
      BY <3>2
  <2>2. CASE s \ {x} # {}
    <3>1. PICK p \in s \ {x} : \A r \in s \ {x} : Badness(goal, p) <= Badness(goal, r)
      BY <1>3, <2>2
    <3>2. Badness(goal, p) \in Int /\ Badness(goal, x) \in Int /\ p \in s
      BY <1>1
    <3>3. CASE Badness(goal, p) <= Badness(goal, x)
      <4>1. \A r \in s : Badness(goal, p) <= Badness(goal, r)
        BY <3>1, <3>3
      <4> QED
        BY <3>2, <4>1
    <3>4. CASE ~(Badness(goal, p) <= Badness(goal, x))
      <4>1. \A r \in s : Badness(goal, x) <= Badness(goal, r)
        <5>1. ASSUME NEW r \in s \ {x} PROVE Badness(goal, x) <= Badness(goal, r)
          <6>1. Badness(goal, p) <= Badness(goal, r) /\ Badness(goal, r) \in Int
            BY <1>1, <3>1
          <6> QED
            BY <3>2, <3>4, <6>1
        <5>2. Badness(goal, x) <= Badness(goal, x)
          BY <3>2
        <5> QED
          BY <5>1, <5>2
      <4> QED
        BY <4>1
    <3> QED
      BY <3>3, <3>4
  <2> QED
    BY <2>1, <2>2
<1>4. SUBSET able \subseteq T
  <2> HIDE DEF T, able
  <2> QED
    BY <1>1, <1>2, <1>3, SubsetInduction
<1>5. PICK p \in able : \A r \in able : Badness(goal, p) <= Badness(goal, r)
  <2>1. able \in T /\ able # {}
    BY <1>4
  <2> QED
    BY <2>1
<1>6. p \in Optimal(goal, ps)
  BY <1>5 DEF Optimal
<1> QED
  BY <1>6

-----------------------------------------------------------------------------
(* What is said of a plan. *)

\* VerdictIsHonest of one answer: the plan, its status, the alternatives seen.
Honest(goal, p, status, seen) ==
  /\ p # NoPlan /\ status # "none" =>
       (HardScore(goal, p) < 0
          <=> \E r \in Missed(goal, p) : goal.limits[r].weight > 0)
  /\ status = "feasible" => MeetsHardLimits(goal, p)
  /\ status = "optimal" => WithinAUnit(goal, p)
  /\ status = "infeasible" =>
       /\ ~MeetsHardLimits(goal, p)
       /\ \A order \in Ext!SetToSeqs(Missed(goal, p)) :
            LET named == Conflicting(goal, p, order)
            IN  /\ named \cap Missed(goal, p) # {}
                /\ \A r \in named : (named \ {r}) \cap Missed(goal, p) = {}
       /\ \A q \in seen :
            MeetsHardLimits(goal, q) => \E r \in Resources : Total(q, r) < 0

\* What is known of a call under way besides StrategyInv: its goal is one of those
\* the limits are known of, the pipeline looks for alternatives to a plan that
\* misses a limit, and there are finitely many.
VerdictInv ==
  /\ ask.goal \in Goals
  /\ ask.way = "refine" => ask.prior \in Plan
  /\ IsFiniteSet(alternatives)
  /\ stage \notin {"alternatives", "done"} => alternatives = {}
  /\ stage = "alternatives" => Verdict(ask.goal, primary) = "infeasible"
  /\ VerdictIsHonest

LEMMA VerdictInitial == StrategiesInit => VerdictInv
<1> SUFFICES ASSUME StrategiesInit PROVE VerdictInv
  OBVIOUS
<1>1. ask.goal \in Goals /\ (ask.way = "refine" => ask.prior \in Plan)
  <2>1. PICK C \in {Calls} \cup {Repairs(g) : g \in {g \in Goals : ~NeedsCsp(g)}}
                           \cup {Refinements(g) : g \in {g \in Goals : NeedsCsp(g)}} :
          ask \in C
    BY DEF StrategiesInit, AllCalls
  <2>2. CASE C = Calls
    BY <2>1, <2>2 DEF Calls
  <2>3. ASSUME NEW g \in Goals, C = Repairs(g)
        PROVE  ask.goal \in Goals /\ ask.way = "repair"
    BY <2>1, <2>3 DEF Repairs
  <2>4. ASSUME NEW g \in Goals, C = Refinements(g)
        PROVE  ask.goal \in Goals /\ ask.prior \in PriorPlans(g)
    BY <2>1, <2>4 DEF Refinements
  <2> QED
    BY <2>1, <2>2, <2>3, <2>4, PriorIsPlan
<1> QED
  BY <1>1, FS_EmptySet DEF StrategiesInit, VerdictInv, VerdictIsHonest

\* A plan with the verdict that validate_plan gives it.
LEMMA VerdictOf ==
  ASSUME NEW goal \in Goals, NEW p \in Plan
  PROVE  /\ Verdict(goal, p) \in {"skipped", "feasible", "infeasible"}
         /\ Verdict(goal, p) = "infeasible" <=> ~MeetsHardLimits(goal, p)
         /\ Honest(goal, p, Verdict(goal, p), {})
<1>1. Verdict(goal, p) \in {"skipped", "feasible", "infeasible"}
  BY DEF Verdict
<1>2. Verdict(goal, p) = "infeasible" <=> ~MeetsHardLimits(goal, p)
  <2>1. Limited(goal) = {} => MeetsHardLimits(goal, p)
    BY DEF MeetsHardLimits, Missed, Hard
  <2> QED
    BY <2>1 DEF Verdict
<1>3. Verdict(goal, p) = "feasible" => MeetsHardLimits(goal, p)
  BY <1>2
<1> QED
  BY <1>1, <1>2, <1>3, ScoreIsHonest, NamedIsEssential DEF Honest

\* An answer nothing is said of.
LEMMA SilentIsHonest ==
  ASSUME NEW goal, NEW p, NEW seen
  PROVE  Honest(goal, p, "none", seen)
BY DEF Honest

\* The invariant once a call is answered.
LEMMA HonestAnswer ==
  ASSUME VerdictInv, NEW p, NEW status, Answered(p, status), UNCHANGED <<ask, alternatives>>,
         Honest(ask.goal, p, status, alternatives)
  PROVE  VerdictInv'
<1>1. stage' = "done" /\ answer'.plan = p /\ answer'.status = status
  BY DEF Answered
<1>2. Honest(ask.goal, answer'.plan, answer'.status, alternatives)
  BY <1>1
<1>3. VerdictIsHonest'
  BY <1>2 DEF VerdictIsHonest, Honest
<1> QED
  BY <1>1, <1>3 DEF VerdictInv

\* The invariant while a call is under way and no plan is put by.
LEMMA HonestMeanwhile ==
  ASSUME VerdictInv, UNCHANGED <<ask, alternatives>>, stage' # "done", stage' # "alternatives",
         stage \notin {"alternatives", "done"}
  PROVE  VerdictInv'
BY DEF VerdictInv, VerdictIsHonest

LEMMA ChosenIsHonest ==
  ASSUME StrategyInv, VerdictInv, ChooseAlternative
  PROVE  VerdictInv'
<1> DEFINE goal == ask.goal
           best == Optimal(ask.goal, alternatives)
<1>1. /\ stage = "alternatives" /\ UNCHANGED <<ask, alternatives>>
      /\ IF best = {} THEN Answered(primary, "infeasible")
         ELSE \E p \in best : Answered(p, "optimal")
  BY DEF ChooseAlternative
<1>2. /\ goal \in Goals /\ IsFiniteSet(alternatives) /\ alternatives \in SUBSET Plan
      /\ primary \in Plan /\ Verdict(goal, primary) = "infeasible"
  BY <1>1 DEF StrategyInv, VerdictInv, Solves, Runs
<1>3. CASE best = {}
  <2>1. ASSUME NEW q \in alternatives, MeetsHardLimits(goal, q)
        PROVE  \E r \in Resources : Total(q, r) < 0
    <3>1. ~Selectable(goal, q)
      BY <1>2, <1>3, OptimalExists
    <3>2. PICK r \in Resources : ~(Total(q, r) >= 0)
      BY <1>2, <2>1, <3>1, WithinIsSelectable
    <3>3. Total(q, r) \in Int
      BY <1>2, TotalType
    <3> QED
      BY <3>2, <3>3
  <2>2. Honest(goal, primary, "infeasible", {}) /\ ~MeetsHardLimits(goal, primary)
    BY <1>2, VerdictOf
  <2>3. Honest(goal, primary, "infeasible", alternatives)
    BY <2>1, <2>2 DEF Honest
  <2> QED
    BY <1>1, <1>3, <2>3, HonestAnswer
<1>4. CASE best # {}
  <2>1. PICK p \in best : Answered(p, "optimal")
    BY <1>1, <1>4
  <2>2. p \in Plan /\ Selectable(goal, p)
    BY <1>2 DEF Optimal
  <2>3. WithinAUnit(goal, p)
    BY <1>2, <2>2, SelectableIsNear
  <2>4. Honest(goal, p, "optimal", alternatives)
    BY <1>2, <2>2, <2>3, ScoreIsHonest DEF Honest
  <2> QED
    BY <1>1, <2>1, <2>4, HonestAnswer
<1> QED
  BY <1>3, <1>4

LEMMA PrimaryIsHonest ==
  ASSUME StrategyInv, VerdictInv, FindPrimary
  PROVE  VerdictInv'
<1>1. PICK p \in Found(ask.start, ask.barred) :
        /\ primary' = p
        /\ IF p = NoPlan \/ p = EmptyPlan THEN Answered(p, "none")
           ELSE IF Verdict(ask.goal, p) \in {"feasible", "skipped"}
           THEN Answered(p, Verdict(ask.goal, p))
           ELSE stage' = "alternatives" /\ UNCHANGED answer
  BY DEF FindPrimary
<1>2. /\ stage = "primary" /\ UNCHANGED <<ask, alternatives>>
      /\ alternatives = {} /\ ask.goal \in Goals
  BY DEF FindPrimary, VerdictInv
<1>3. CASE p = NoPlan \/ p = EmptyPlan
  BY <1>1, <1>2, <1>3, SilentIsHonest, HonestAnswer
<1>4. CASE p # NoPlan /\ p # EmptyPlan
  <2>1. p \in Plan
    BY <1>4, FoundSolves DEF Solves, Runs
  <2>2. CASE Verdict(ask.goal, p) \in {"feasible", "skipped"}
    <3>1. Honest(ask.goal, p, Verdict(ask.goal, p), alternatives)
      BY <1>2, <2>1, VerdictOf
    <3> QED
      BY <1>1, <1>2, <1>4, <2>2, <3>1, HonestAnswer
  <2>3. CASE Verdict(ask.goal, p) \notin {"feasible", "skipped"}
    <3>1. Verdict(ask.goal, p) = "infeasible"
      BY <1>2, <2>1, <2>3, VerdictOf
    <3>2. stage' = "alternatives"
      BY <1>1, <1>4, <2>3
    <3> QED
      BY <1>1, <1>2, <3>1, <3>2 DEF VerdictInv, VerdictIsHonest
  <2> QED
    BY <2>2, <2>3
<1> QED
  BY <1>3, <1>4

LEMMA TriedIsHonest ==
  ASSUME VerdictInv, TryWithout
  PROVE  VerdictInv'
<1>1. /\ stage = "alternatives" /\ UNCHANGED <<ask, stage, primary, answer>>
      /\ \E p : alternatives' = alternatives \/ alternatives' = alternatives \cup {p}
  BY DEF TryWithout
<1>2. IsFiniteSet(alternatives')
  BY <1>1, FS_AddElement DEF VerdictInv
<1> QED
  BY <1>1, <1>2 DEF VerdictInv, VerdictIsHonest

LEMMA OtherIsHonest ==
  ASSUME VerdictInv,
         \/ Route \/ PlanFromScratch \/ StartRepair \/ KeepAction \/ PlanSuffix
         \/ PlanAhead \/ PlanInTime \/ BestAction \/ Refine
  PROVE  VerdictInv'
<1>1. CASE Route
  BY <1>1, HonestMeanwhile DEF Route
<1>2. CASE StartRepair
  BY <1>2, HonestMeanwhile DEF StartRepair
<1>3. CASE KeepAction
  BY <1>3, HonestMeanwhile DEF KeepAction
<1>4. ASSUME NEW p, Answered(p, "none"), UNCHANGED <<ask, alternatives>>
      PROVE  VerdictInv'
  BY <1>4, SilentIsHonest, HonestAnswer
<1>5. CASE PlanFromScratch
  BY <1>4, <1>5 DEF PlanFromScratch
<1>6. CASE PlanSuffix
  <2>1. /\ stage = "prefix" /\ UNCHANGED <<ask, alternatives>>
        /\ stage' = "search" \/ \E p : Answered(p, "none")
    BY <1>6 DEF PlanSuffix
  <2> QED
    BY <1>4, <2>1, HonestMeanwhile
<1>7. CASE PlanAhead
  BY <1>4, <1>7 DEF PlanAhead
<1>8. CASE PlanInTime
  BY <1>4, <1>8 DEF PlanInTime
<1>9. CASE BestAction
  <2>1. UNCHANGED <<ask, alternatives>> /\ \E p : Answered(p, "none")
    BY <1>9 DEF BestAction
  <2> QED
    BY <1>4, <2>1
<1>10. CASE Refine
  <2>1. /\ ask.prior \in Plan /\ ask.goal \in Goals /\ alternatives = {}
        /\ UNCHANGED <<ask, alternatives>>
        /\ Answered(ask.prior, Verdict(ask.goal, ask.prior))
    BY <1>10 DEF Refine, VerdictInv
  <2>2. Honest(ask.goal, ask.prior, Verdict(ask.goal, ask.prior), alternatives)
    BY <2>1, VerdictOf
  <2> QED
    BY <2>1, <2>2, HonestAnswer
<1> QED
  BY <1>1, <1>2, <1>3, <1>5, <1>6, <1>7, <1>8, <1>9, <1>10

\* Whatever the limits, the amounts and the order the limits are looked at: status,
\* score and explanation are true of the plan they come with, in the sense of the
\* solver's whole units where it chose.
THEOREM VerdictsHonest == StrategiesSpec => []VerdictIsHonest
<1>1. StrategyInv /\ VerdictInv /\ [StrategiesNext]_strategyVars => VerdictInv'
  <2>1. VerdictInv /\ UNCHANGED strategyVars => VerdictInv'
    BY DEF strategyVars, VerdictInv, VerdictIsHonest
  <2> QED
    BY <2>1, ChosenIsHonest, PrimaryIsHonest, TriedIsHonest, OtherIsHonest DEF StrategiesNext
<1>2. VerdictInv => VerdictIsHonest
  BY DEF VerdictInv
<1> QED
  BY <1>1, <1>2, StrategyStep, StrategyInitial, VerdictInitial, PTL DEF StrategiesSpec

-----------------------------------------------------------------------------
(* A* is complete where GoapDomain's Search says so: every walk is a path.      *)

\* The recursion of Paths, as an equation.
Levels(f, start, allowed, n) ==
  f = [m \in 0 .. n |->
        IF m = 0 THEN {EmptyPlan}
        ELSE UNION {{Extend(start, p, a) : a \in {a \in allowed : CanFollow(start, p, a)}} :
                      p \in f[m - 1]}]

LEMMA LevelsExist ==
  ASSUME NEW start, NEW allowed
  PROVE  \A n \in Nat : \E f : Levels(f, start, allowed, n)
<1> DEFINE Grown(L) ==
             UNION {{Extend(start, p, a) : a \in {a \in allowed : CanFollow(start, p, a)}} : p \in L}
           T == {n \in Nat : \E f : Levels(f, start, allowed, n)}
<1>1. \A f, n : Levels(f, start, allowed, n)
                  <=> f = [m \in 0 .. n |-> IF m = 0 THEN {EmptyPlan} ELSE Grown(f[m - 1])]
  BY DEF Levels
<1> HIDE DEF Grown
<1>2. 0 \in T
  <2> DEFINE f == [m \in 0 .. 0 |-> {EmptyPlan}]
  <2>1. f = [m \in 0 .. 0 |-> IF m = 0 THEN {EmptyPlan} ELSE Grown(f[m - 1])]
    OBVIOUS
  <2>2. Levels(f, start, allowed, 0)
    <3> HIDE DEF f
    <3> QED
      BY <1>1, <2>1
  <2> HIDE DEF f
  <2> QED
    BY <2>2
<1>3. ASSUME NEW n \in Nat, n \in T
      PROVE  n + 1 \in T
  <2>1. PICK f : Levels(f, start, allowed, n)
    BY <1>3
  <2> DEFINE d == [m \in 0 .. n + 1 |-> IF m \in 0 .. n THEN f[m] ELSE Grown(f[n])]
  <2>2. \A m \in 0 .. n + 1 : m = 0 \/ m - 1 \in 0 .. n
    OBVIOUS
  <2>3. \A m \in 0 .. n : d[m] = f[m]
    OBVIOUS
  <2>4. \A m \in 0 .. n : f[m] = IF m = 0 THEN {EmptyPlan} ELSE Grown(f[m - 1])
    BY <1>1, <2>1
  <2>5. d[n + 1] = Grown(d[n])
    BY <2>3
  <2>6. \A m \in 0 .. n + 1 : d[m] = IF m = 0 THEN {EmptyPlan} ELSE Grown(d[m - 1])
    <3> TAKE m \in 0 .. n + 1
    <3>1. CASE m = n + 1
      <4>1. m # 0 /\ m - 1 = n
        BY <3>1
      <4> HIDE DEF d
      <4> QED
        BY <3>1, <4>1, <2>5
    <3>2. CASE m # n + 1
      <4>1. m \in 0 .. n /\ (m = 0 \/ m - 1 \in 0 .. n)
        BY <3>2, <2>2
      <4> HIDE DEF d
      <4> QED
        BY <4>1, <2>3, <2>4
    <3> QED
      BY <3>1, <3>2
  <2>7. d = [m \in 0 .. n + 1 |-> d[m]]
    OBVIOUS
  <2>8. d = [m \in 0 .. n + 1 |-> IF m = 0 THEN {EmptyPlan} ELSE Grown(d[m - 1])]
    <3> HIDE DEF d
    <3> QED
      BY <2>6, <2>7
  <2>9. Levels(d, start, allowed, n + 1)
    <3> HIDE DEF d
    <3> QED
      BY <1>1, <2>8
  <2> HIDE DEF d
  <2> QED
    BY <2>9
<1> HIDE DEF T
<1>4. Nat \subseteq T
  BY <1>2, <1>3, SetInduction
<1> QED
  BY <1>4 DEF T

LEMMA PathsHaveLevels ==
  ASSUME NEW start, NEW allowed
  PROVE  \E f : /\ Paths(start, allowed) = UNION {f[n] : n \in 0 .. MaxPlanLen}
                /\ f[0] = {EmptyPlan}
                /\ \A n \in Nat : \A p, a : n + 1 <= MaxPlanLen /\ p \in f[n] /\ a \in allowed
                      /\ CanFollow(start, p, a) => Extend(start, p, a) \in f[n + 1]
<1> DEFINE f == CHOOSE f : f = [m \in 0 .. MaxPlanLen |->
                  IF m = 0 THEN {EmptyPlan}
                  ELSE UNION {{Extend(start, p, a) : a \in {a \in allowed : CanFollow(start, p, a)}} :
                                p \in f[m - 1]}]
<1>1. Paths(start, allowed) = UNION {f[n] : n \in 0 .. MaxPlanLen}
  BY DEF Paths
<1>2. MaxPlanLen \in Nat
  BY DomainAssumption
<1>3. Levels(f, start, allowed, MaxPlanLen)
  <2>1. \E g : Levels(g, start, allowed, MaxPlanLen)
    BY <1>2, LevelsExist
  <2> QED
    BY <2>1 DEF Levels
<1> HIDE DEF f
<1>4. \A m \in 0 .. MaxPlanLen : f[m] =
        IF m = 0 THEN {EmptyPlan}
        ELSE UNION {{Extend(start, p, a) : a \in {a \in allowed : CanFollow(start, p, a)}} :
                      p \in f[m - 1]}
  BY <1>3 DEF Levels
<1>5. f[0] = {EmptyPlan}
  <2>1. 0 \in 0 .. MaxPlanLen
    BY <1>2
  <2> QED
    BY <1>4, <2>1
<1>6. ASSUME NEW n \in Nat, NEW p, NEW a, n + 1 <= MaxPlanLen, p \in f[n], a \in allowed,
             CanFollow(start, p, a)
      PROVE  Extend(start, p, a) \in f[n + 1]
  <2>1. n + 1 \in 0 .. MaxPlanLen /\ n + 1 # 0 /\ (n + 1) - 1 = n
    BY <1>2, <1>6
  <2>2. f[n + 1] = UNION {{Extend(start, q, b) : b \in {b \in allowed : CanFollow(start, q, b)}} :
                            q \in f[n]}
    BY <1>4, <2>1
  <2> QED
    BY <1>6, <2>2
<1>7. \A n \in Nat : \A p, a : n + 1 <= MaxPlanLen /\ p \in f[n] /\ a \in allowed
                      /\ CanFollow(start, p, a) => Extend(start, p, a) \in f[n + 1]
  BY <1>6
<1> QED
  BY <1>1, <1>5, <1>7

\* The first n elements of a sequence.
LEMMA CutOff ==
  ASSUME NEW S, NEW s \in Seq(S), NEW n \in Nat, n <= Len(s)
  PROVE  /\ SubSeq(s, 1, n) \in Seq(S) /\ Len(SubSeq(s, 1, n)) = n
         /\ \A i \in 1 .. n : SubSeq(s, 1, n)[i] = s[i]
<1>1. \A i \in 1 .. n : s[i] \in S
  OBVIOUS
<1>2. /\ SubSeq(s, 1, n) \in Seq(S)
      /\ Len(SubSeq(s, 1, n)) = IF 1 <= n THEN n - 1 + 1 ELSE 0
      /\ \A i \in 1 .. n - 1 + 1 : SubSeq(s, 1, n)[i] = s[1 + i - 1]
  BY <1>1, SubSeqProperties
<1>3. n - 1 + 1 = n /\ (IF 1 <= n THEN n - 1 + 1 ELSE 0) = n /\ \A i \in 1 .. n : 1 + i - 1 = i
  OBVIOUS
<1> QED
  BY <1>2, <1>3

\* A walk is one action more than a shorter walk.
LEMMA WalkShortened ==
  ASSUME NEW start \in World, NEW allowed, allowed \subseteq Actions, NEW p,
         Walk(start, allowed, p), NEW n \in Nat, Len(p.actions) = n + 1
  PROVE  \E q, a : /\ Walk(start, allowed, q) /\ Len(q.actions) = n
                   /\ a \in allowed /\ CanFollow(start, q, a) /\ p = Extend(start, q, a)
<1> DEFINE q == [actions |-> SubSeq(p.actions, 1, n), expected |-> SubSeq(p.expected, 1, n)]
           a == p.actions[n + 1]
<1>1. /\ p \in Plan /\ p.actions \in Seq(Actions) /\ p.expected \in Seq(World)
      /\ Len(p.expected) = n + 1 /\ n + 1 \in 1 .. n + 1 /\ n + 1 \in Nat
      /\ DOMAIN p.actions = 1 .. n + 1
  BY DEF Walk, Plan
<1>2. /\ q.actions \in Seq(Actions) /\ Len(q.actions) = n
      /\ \A i \in 1 .. n : q.actions[i] = p.actions[i]
      /\ DOMAIN q.actions = 1 .. n
  <2>1. n <= Len(p.actions)
    OBVIOUS
  <2>2. /\ SubSeq(p.actions, 1, n) \in Seq(Actions) /\ Len(SubSeq(p.actions, 1, n)) = n
        /\ \A i \in 1 .. n : SubSeq(p.actions, 1, n)[i] = p.actions[i]
    BY <1>1, <2>1, CutOff
  <2>3. q.actions = SubSeq(p.actions, 1, n)
    OBVIOUS
  <2> HIDE DEF q
  <2> QED
    BY <2>2, <2>3
<1>3. /\ q.expected \in Seq(World) /\ Len(q.expected) = n
      /\ \A i \in 1 .. n : q.expected[i] = p.expected[i]
  BY <1>1, CutOff
<1>4. q \in Plan
  BY <1>2, <1>3 DEF Plan
<1> HIDE DEF q
<1>5. \A i \in 1 .. n + 1 : Before(start, q, i) = Before(start, p, i)
  <2>1. \A i \in 1 .. n + 1 : i # 1 => i - 1 \in 1 .. n
    OBVIOUS
  <2> QED
    BY <1>3, <2>1 DEF Before
<1>6. After(start, q) = Before(start, p, n + 1)
  BY <1>1, <1>2, <1>5 DEF After
<1>7. 1 .. n \subseteq 1 .. n + 1
  OBVIOUS
<1>8. ActionsOf(q) \subseteq {p.actions[i] : i \in 1 .. n}
  BY <1>2 DEF ActionsOf
<1>9. ActionsOf(q) \subseteq allowed /\ a \in allowed
  BY <1>1, <1>7, <1>8 DEF Walk, ActionsOf
<1>10. Walk(start, allowed, q)
  <2>1. \A i \in 1 .. n :
          /\ Satisfies(Before(start, q, i), Pre[q.actions[i]])
          /\ q.expected[i] = Apply(Before(start, q, i), Eff[q.actions[i]])
          /\ q.expected[i] # Before(start, q, i)
    BY <1>2, <1>3, <1>5, <1>7 DEF Walk
  <2>2. \A i, j \in 1 .. n :
          q.actions[i] = q.actions[j] /\ q.actions[i] \in SingleUse => i = j
    BY <1>2, <1>7 DEF Walk
  <2> QED
    BY <1>2, <1>3, <1>4, <1>9, <2>1, <2>2 DEF Walk
<1>11. /\ Satisfies(After(start, q), Pre[a])
       /\ p.expected[n + 1] = Apply(After(start, q), Eff[a])
       /\ p.expected[n + 1] # After(start, q)
  BY <1>1, <1>6 DEF Walk
<1>12. CanFollow(start, q, a)
  <2>1. ASSUME a \in SingleUse, a \in ActionsOf(q)
        PROVE  FALSE
    <3>1. PICK i \in 1 .. n : p.actions[i] = a
      BY <1>8, <2>1
    <3>2. i \in 1 .. n + 1 /\ i # n + 1
      OBVIOUS
    <3> QED
      BY <1>1, <2>1, <3>1, <3>2 DEF Walk
  <2> QED
    BY <1>11, <2>1 DEF CanFollow
<1>13. p = Extend(start, q, a)
  <2>1. p.actions = Append(q.actions, a)
    <3>1. /\ Append(q.actions, a) \in Seq(Actions) /\ Len(Append(q.actions, a)) = n + 1
          /\ \A i \in 1 .. n + 1 : Append(q.actions, a)[i] = p.actions[i]
      BY <1>1, <1>2
    <3> QED
      BY <1>1, <3>1, SeqEqual
  <2>2. p.expected = Append(q.expected, p.expected[n + 1])
    <3>1. p.expected[n + 1] \in World
      BY <1>1
    <3>2. /\ Append(q.expected, p.expected[n + 1]) \in Seq(World)
          /\ Len(Append(q.expected, p.expected[n + 1])) = n + 1
          /\ \A i \in 1 .. n + 1 : Append(q.expected, p.expected[n + 1])[i] = p.expected[i]
      BY <1>1, <1>3, <3>1
    <3> QED
      BY <1>1, <3>2, SeqEqual
  <2>3. p = [actions |-> p.actions, expected |-> p.expected]
    BY <1>1 DEF Plan
  <2> QED
    BY <1>11, <2>1, <2>2, <2>3 DEF Extend
<1> HIDE DEF a
<1> QED
  BY <1>2, <1>9, <1>10, <1>12, <1>13

LEMMA WalksArePaths ==
  ASSUME NEW start \in World, NEW allowed, allowed \subseteq Actions, NEW p,
         Walk(start, allowed, p), Len(p.actions) <= MaxPlanLen
  PROVE  p \in Paths(start, allowed)
<1>1. PICK f : /\ Paths(start, allowed) = UNION {f[n] : n \in 0 .. MaxPlanLen}
               /\ f[0] = {EmptyPlan}
               /\ \A n \in Nat : \A q, a : n + 1 <= MaxPlanLen /\ q \in f[n] /\ a \in allowed
                      /\ CanFollow(start, q, a) => Extend(start, q, a) \in f[n + 1]
  BY PathsHaveLevels
<1> DEFINE T == {n \in Nat : n <= MaxPlanLen =>
                   \A q : Walk(start, allowed, q) /\ Len(q.actions) = n => q \in f[n]}
<1>2. 0 \in T
  <2>1. ASSUME NEW q, Walk(start, allowed, q), Len(q.actions) = 0
        PROVE  q = EmptyPlan
    <3>1. /\ q.actions \in Seq(Actions) /\ q.expected \in Seq(World)
          /\ q = [actions |-> q.actions, expected |-> q.expected] /\ Len(q.expected) = 0
      BY <2>1 DEF Walk, Plan
    <3>2. q.actions = <<>> /\ q.expected = <<>>
      BY <2>1, <3>1, EmptySeq
    <3> QED
      BY <3>1, <3>2 DEF EmptyPlan
  <2> QED
    BY <1>1, <2>1
<1>3. ASSUME NEW n \in Nat, n \in T
      PROVE  n + 1 \in T
  <2> SUFFICES ASSUME n + 1 <= MaxPlanLen, NEW q, Walk(start, allowed, q), Len(q.actions) = n + 1
               PROVE  q \in f[n + 1]
    OBVIOUS
  <2>1. PICK r, a : /\ Walk(start, allowed, r) /\ Len(r.actions) = n
                    /\ a \in allowed /\ CanFollow(start, r, a) /\ q = Extend(start, r, a)
    BY WalkShortened
  <2>2. r \in f[n]
    <3>1. n <= MaxPlanLen
      BY DomainAssumption
    <3> QED
      BY <1>3, <2>1, <3>1
  <2> QED
    BY <1>1, <2>1, <2>2
<1> HIDE DEF T
<1>4. Nat \subseteq T
  BY <1>2, <1>3, SetInduction
<1>5. Len(p.actions) \in Nat /\ Len(p.actions) \in 0 .. MaxPlanLen
  BY DomainAssumption DEF Walk, Plan
<1>6. p \in f[Len(p.actions)]
  BY <1>4, <1>5 DEF T
<1> QED
  BY <1>1, <1>5, <1>6

-----------------------------------------------------------------------------
(* Nothing is overlooked. *)

\* No state is visited twice.
Simple(start, p) ==
  \A i, j \in 1 .. Len(p.actions) + 1 : Before(start, p, i) = Before(start, p, j) => i = j

\* MaxPlanLen, a bound of GoapDomain's Search that the code does not have, cuts off no
\* walk the search may make.
SimpleWalksFit ==
  \A start \in Starts, p \in Plan :
    Walk(start, Actions, p) /\ Simple(start, p) => Len(p.actions) <= MaxPlanLen

\* A node in the open list: no state on its path is known to be dearer than it is.
NodeFine(start, allowed, best, n) ==
  /\ Walk(start, allowed, n.path) /\ Simple(start, n.path) /\ n.g \in Nat
  /\ \A i \in 1 .. Len(n.path.actions) + 1 :
       Before(start, n.path, i) \in DOMAIN best /\ best[Before(start, n.path, i)] <= n.g

\* A state that is no goal, reached on some path whose successors are all known.
Explored(start, allowed, conditions, known, w) ==
  /\ ~Satisfies(w, conditions)
  /\ \E q : /\ Walk(start, allowed, q) /\ Simple(start, q) /\ After(start, q) = w
            /\ \A a \in allowed : CanFollow(start, q, a) => Apply(w, Eff[a]) \in known

\* Every state known waits in the open list at its best cost or has been expanded.
SearchInv ==
  /\ query.start \in DOMAIN bestG
  /\ \A w \in DOMAIN bestG :
       /\ bestG[w] \in Nat
       /\ \/ \E n \in open : Ends(n) = w /\ n.g = bestG[w]
          \/ Explored(query.start, Allowed, query.conditions, DOMAIN bestG, w)
  /\ \A n \in open : NodeFine(query.start, Allowed, bestG, n)

\* There is no plan the search has to find.
Dead(start, conditions, allowed) ==
  \A p \in PlansOver(start, conditions, allowed) : ~InReach(start, allowed, p)

LEMMA MoreAllowed ==
  ASSUME NEW start, NEW allowed, allowed \subseteq Actions, NEW p, Walk(start, allowed, p)
  PROVE  Walk(start, Actions, p)
BY DEF Walk

LEMMA SimpleIsPath ==
  ASSUME SimpleWalksFit, NEW start \in Starts, NEW allowed, allowed \subseteq Actions, NEW p,
         Walk(start, allowed, p), Simple(start, p)
  PROVE  Len(p.actions) <= MaxPlanLen /\ p \in Paths(start, allowed)
<1>1. start \in World /\ p \in Plan
  BY AStarAssumption DEF Walk
<1>2. Len(p.actions) <= MaxPlanLen
  BY <1>1, MoreAllowed DEF SimpleWalksFit
<1> QED
  BY <1>1, <1>2, WalksArePaths

\* A walk without a state twice that ends where it began has not left.
LEMMA SimpleLoop ==
  ASSUME NEW start, NEW allowed, NEW p, Walk(start, allowed, p), Simple(start, p),
         After(start, p) = start
  PROVE  ActionsOf(p) = {}
<1>1. Len(p.actions) \in Nat /\ DOMAIN p.actions = 1 .. Len(p.actions)
  BY DEF Walk, Plan
<1>2. 1 \in 1 .. Len(p.actions) + 1 /\ Len(p.actions) + 1 \in 1 .. Len(p.actions) + 1
  BY <1>1
<1>3. Before(start, p, 1) = Before(start, p, Len(p.actions) + 1)
  BY DEF After, Before
<1>4. Len(p.actions) = 0
  BY <1>1, <1>2, <1>3 DEF Simple
<1> QED
  BY <1>1, <1>4 DEF ActionsOf

\* When all that is known has been expanded, no plan in reach is left: its states are
\* known, one after the other, and the last would be a goal.
LEMMA ExhaustedIsDead ==
  ASSUME SimpleWalksFit, NEW start \in Starts, NEW allowed, allowed \subseteq Actions,
         NEW conditions, NEW known, start \in known,
         \A w \in known : Explored(start, allowed, conditions, known, w)
  PROVE  Dead(start, conditions, allowed)
<1> SUFFICES ASSUME NEW p, IsPlan(start, conditions, allowed, p), InReach(start, allowed, p)
             PROVE  FALSE
  BY DEF Dead, PlansOver
<1> DEFINE n == Len(p.actions)
           T == {i \in Nat : i <= n => Before(start, p, i + 1) \in known}
<1>1. /\ n \in Nat /\ n > 0 /\ Len(p.expected) = n
      /\ DOMAIN p.actions = 1 .. n
  BY DEF IsPlan, Plan
<1>2. 0 \in T
  BY DEF Before
<1>3. ASSUME NEW i \in Nat, i \in T
      PROVE  i + 1 \in T
  <2> SUFFICES ASSUME i + 1 <= n
               PROVE  Before(start, p, i + 1 + 1) \in known
    OBVIOUS
  <2> DEFINE k == i + 1
             w == Before(start, p, k)
             a == p.actions[k]
  <2>1. k \in 1 .. n /\ k \in Nat /\ w \in known
    BY <1>1, <1>3
  <2>2. PICK q : /\ Walk(start, allowed, q) /\ Simple(start, q) /\ After(start, q) = w
                 /\ \A b \in allowed : CanFollow(start, q, b) => Apply(w, Eff[b]) \in known
    <3> HIDE DEF w
    <3> QED
      BY <2>1 DEF Explored
  <2>3. /\ Satisfies(w, Pre[a]) /\ p.expected[k] = Apply(w, Eff[a]) /\ p.expected[k] # w
        /\ a \in allowed
    <3>1. a \in ActionsOf(p)
      BY <1>1, <2>1 DEF ActionsOf
    <3> QED
      BY <2>1, <3>1 DEF IsPlan
  <2>4. ASSUME a \in SingleUse
        PROVE  a \notin ActionsOf(q)
    <3>1. CASE k = 1
      <4>1. w = start
        BY <3>1 DEF Before
      <4> HIDE DEF w, a, k
      <4>2. ActionsOf(q) = {}
        BY <2>2, <4>1, SimpleLoop
      <4> QED
        BY <4>2
    <3>2. CASE k # 1
      <4>1. k \in 2 .. n
        BY <2>1, <3>2
      <4>2. q \in Paths(start, allowed)
        BY <2>2, SimpleIsPath
      <4> HIDE DEF k
      <4> QED
        BY <2>2, <2>4, <4>1, <4>2 DEF InReach
    <3> QED
      BY <3>1, <3>2
  <2>5. CanFollow(start, q, a)
    <3> HIDE DEF w, a, k
    <3> QED
      BY <2>2, <2>3, <2>4 DEF CanFollow
  <2>6. p.expected[k] \in known
    <3> HIDE DEF w, a, k
    <3> QED
      BY <2>2, <2>3, <2>5
  <2>7. k + 1 # 1 /\ (k + 1) - 1 = k
    OBVIOUS
  <2> QED
    BY <2>6, <2>7 DEF Before
<1> HIDE DEF T
<1>4. Nat \subseteq T
  BY <1>2, <1>3, SetInduction
<1>5. Before(start, p, n + 1) \in known
  BY <1>1, <1>4 DEF T
<1>6. n + 1 # 1 /\ (n + 1) - 1 = n
  BY <1>1
<1>7. Before(start, p, n + 1) = p.expected[n]
  BY <1>6 DEF Before
<1>8. ~Satisfies(p.expected[n], conditions)
  BY <1>5, <1>7 DEF Explored
<1> QED
  BY <1>1, <1>8 DEF IsPlan

\* What no allowed action produces and does not hold is never so.
LEMMA UnproducibleIsDead ==
  ASSUME NEW start \in World, NEW allowed, allowed \subseteq Actions, NEW conditions \in World,
         NEW k \in Mentioned(conditions), start[k] # conditions[k],
         \A a \in allowed : Eff[a][k] # conditions[k]
  PROVE  Dead(start, conditions, allowed)
<1> SUFFICES ASSUME NEW p, IsPlan(start, conditions, allowed, p)
             PROVE  FALSE
  BY DEF Dead, PlansOver
<1> DEFINE n == Len(p.actions)
           T == {i \in Nat : i <= n => Before(start, p, i + 1)[k] # conditions[k]}
<1>1. /\ n \in Nat /\ n > 0 /\ Len(p.expected) = n /\ DOMAIN p.actions = 1 .. n
      /\ k \in Keys /\ p \in Plan
  BY DEF IsPlan, Plan, Mentioned
<1>2. 0 \in T
  BY DEF Before
<1>3. ASSUME NEW i \in Nat, i \in T
      PROVE  i + 1 \in T
  <2> SUFFICES ASSUME i + 1 <= n
               PROVE  Before(start, p, i + 1 + 1)[k] # conditions[k]
    OBVIOUS
  <2> DEFINE j == i + 1
             w == Before(start, p, j)
             a == p.actions[j]
  <2>1. j \in 1 .. n /\ j \in Nat /\ w[k] # conditions[k]
    BY <1>1, <1>3
  <2>2. p.expected[j] = Apply(w, Eff[a]) /\ a \in allowed
    <3>1. a \in ActionsOf(p)
      BY <1>1, <2>1 DEF ActionsOf
    <3> QED
      BY <2>1, <3>1 DEF IsPlan
  <2>3. Apply(w, Eff[a])[k] # conditions[k]
    <3> HIDE DEF w, a
    <3> QED
      BY <1>1, <2>1, <2>2 DEF Apply
  <2>4. j + 1 # 1 /\ (j + 1) - 1 = j
    OBVIOUS
  <2> QED
    BY <2>2, <2>3, <2>4 DEF Before
<1> HIDE DEF T
<1>4. Nat \subseteq T
  BY <1>2, <1>3, SetInduction
<1>5. Before(start, p, n + 1)[k] # conditions[k]
  BY <1>1, <1>4 DEF T
<1>6. n + 1 # 1 /\ (n + 1) - 1 = n
  BY <1>1
<1>7. p.expected[n][k] # conditions[k]
  BY <1>5, <1>6 DEF Before
<1> QED
  BY <1>1, <1>7 DEF IsPlan, Satisfies

LEMMA ExtendBefore ==
  ASSUME NEW start \in World, NEW allowed, allowed \subseteq Actions, NEW p,
         Walk(start, allowed, p), NEW a \in allowed, CanFollow(start, p, a)
  PROVE  /\ Len(Extend(start, p, a).actions) = Len(p.actions) + 1 /\ Len(p.actions) \in Nat
         /\ \A i \in 1 .. Len(p.actions) + 1 :
              Before(start, Extend(start, p, a), i) = Before(start, p, i)
         /\ Before(start, Extend(start, p, a), Len(p.actions) + 2) = Apply(After(start, p), Eff[a])
<1> DEFINE e == Extend(start, p, a)
           n == Len(p.actions)
           w == Apply(After(start, p), Eff[a])
<1>1. /\ n \in Nat /\ Len(p.expected) = n /\ p.actions \in Seq(Actions)
      /\ p.expected \in Seq(World) /\ a \in Actions
  BY WalkStates DEF Walk, Plan
<1>2. w \in World
  BY <1>1, WalkStates, ApplyType, DomainAssumption DEF Walk
<1>3. e.actions = Append(p.actions, a) /\ e.expected = Append(p.expected, w)
  BY DEF Extend
<1> HIDE DEF e, n, w
<1>4. /\ Len(e.actions) = n + 1 /\ \A i \in 1 .. n : e.expected[i] = p.expected[i]
      /\ e.expected[n + 1] = w
  BY <1>1, <1>2, <1>3 DEF n
<1>5. \A i \in 1 .. n + 1 : Before(start, e, i) = Before(start, p, i)
  <2>1. \A i \in 1 .. n + 1 : i # 1 => i - 1 \in 1 .. n
    BY <1>1
  <2> QED
    BY <1>4, <2>1 DEF Before
<1>6. Before(start, e, n + 2) = w
  <2>1. n + 2 # 1 /\ (n + 2) - 1 = n + 1
    BY <1>1
  <2> QED
    BY <1>4, <2>1 DEF Before
<1> QED
  BY <1>1, <1>4, <1>5, <1>6 DEF e, n, w

\* Knowing more states, and those known no worse, changes nothing for a node.
LEMMA NodeStaysFine ==
  ASSUME NEW start, NEW allowed, NEW n, NEW best, NEW better,
         NodeFine(start, allowed, best, n),
         \A w \in DOMAIN best : best[w] \in Nat,
         \A w \in DOMAIN best : w \in DOMAIN better /\ better[w] \in Nat /\ better[w] <= best[w]
  PROVE  NodeFine(start, allowed, better, n)
BY DEF NodeFine

LEMMA ChildIsFine ==
  ASSUME NEW start \in World, NEW allowed, allowed \subseteq Actions, NEW n, NEW a \in allowed,
         NEW best, NEW better, NEW cost \in Nat,
         NodeFine(start, allowed, best, n), CanFollow(start, n.path, a),
         LET w == Apply(After(start, n.path), Eff[a])
         IN  /\ w \in DOMAIN best => n.g + cost < best[w]
             /\ w \in DOMAIN better /\ better[w] = n.g + cost,
         \A w \in DOMAIN best : best[w] \in Nat,
         \A w \in DOMAIN best : w \in DOMAIN better /\ better[w] \in Nat /\ better[w] <= best[w]
  PROVE  NodeFine(start, allowed, better,
                  [path |-> Extend(start, n.path, a), g |-> n.g + cost])
<1> DEFINE p == n.path
           m == Len(p.actions)
           e == Extend(start, p, a)
           w == Apply(After(start, p), Eff[a])
<1>1. Walk(start, allowed, p) /\ Simple(start, p) /\ n.g \in Nat
  BY DEF NodeFine
<1>2. Walk(start, allowed, e) /\ After(start, e) = w
  BY <1>1, WalkExtends
<1>3. /\ Len(e.actions) = m + 1 /\ m \in Nat
      /\ \A i \in 1 .. m + 1 : Before(start, e, i) = Before(start, p, i)
      /\ Before(start, e, m + 2) = w
  <2>1. CanFollow(start, p, a)
    OBVIOUS
  <2> HIDE DEF p
  <2>2. /\ Len(Extend(start, p, a).actions) = Len(p.actions) + 1 /\ Len(p.actions) \in Nat
        /\ \A i \in 1 .. Len(p.actions) + 1 :
              Before(start, Extend(start, p, a), i) = Before(start, p, i)
        /\ Before(start, Extend(start, p, a), Len(p.actions) + 2) = Apply(After(start, p), Eff[a])
    BY <1>1, <2>1, ExtendBefore
  <2> QED
    BY <2>2
<1>4. \A i \in 1 .. m + 1 : /\ Before(start, p, i) \in DOMAIN best
                            /\ best[Before(start, p, i)] <= n.g
  BY DEF NodeFine
<1>5. /\ w \in DOMAIN best => n.g + cost < best[w]
      /\ w \in DOMAIN better /\ better[w] = n.g + cost
  OBVIOUS
<1> HIDE DEF w, m, e, p
<1>6. \A i \in 1 .. m + 1 : Before(start, p, i) # w
  <2> SUFFICES ASSUME NEW i \in 1 .. m + 1, Before(start, p, i) = w PROVE FALSE
    OBVIOUS
  <2>1. w \in DOMAIN best /\ best[w] <= n.g /\ best[w] \in Nat
    BY <1>4
  <2> QED
    BY <1>1, <1>5, <2>1
<1>7. \A i \in 1 .. (m + 1) + 1 : i \in 1 .. m + 1 \/ i = m + 2
  BY <1>3
<1>8. Simple(start, e)
  <2> SUFFICES ASSUME NEW i \in 1 .. (m + 1) + 1, NEW j \in 1 .. (m + 1) + 1,
                      Before(start, e, i) = Before(start, e, j)
               PROVE  i = j
    BY <1>3 DEF Simple
  <2>1. CASE i \in 1 .. m + 1 /\ j \in 1 .. m + 1
    BY <1>1, <1>3, <2>1 DEF Simple, m
  <2>2. CASE i \in 1 .. m + 1 /\ j = m + 2
    BY <1>3, <1>6, <2>2
  <2>3. CASE i = m + 2 /\ j \in 1 .. m + 1
    BY <1>3, <1>6, <2>3
  <2> QED
    BY <1>7, <2>1, <2>2, <2>3
<1>9. n.g + cost \in Nat /\ n.g <= n.g + cost
  BY <1>1
<1>10. \A i \in 1 .. (m + 1) + 1 : /\ Before(start, e, i) \in DOMAIN better
                                   /\ better[Before(start, e, i)] <= n.g + cost
  <2> TAKE i \in 1 .. (m + 1) + 1
  <2>1. CASE i \in 1 .. m + 1
    <3> DEFINE v == Before(start, e, i)
    <3>1. v \in DOMAIN best /\ best[v] <= n.g
      BY <1>3, <1>4, <2>1
    <3> HIDE DEF v
    <3>2. v \in DOMAIN better /\ better[v] \in Nat /\ better[v] <= best[v] /\ best[v] \in Nat
      BY <3>1
    <3>3. better[v] <= n.g + cost
      BY <1>1, <1>9, <3>1, <3>2
    <3> QED
      BY <3>2, <3>3 DEF v
  <2>2. CASE i = m + 2
    BY <1>3, <1>5, <1>9, <2>2
  <2> QED
    BY <1>7, <2>1, <2>2
<1>11. NodeFine(start, allowed, better, [path |-> e, g |-> n.g + cost])
  BY <1>2, <1>3, <1>8, <1>9, <1>10 DEF NodeFine
<1> QED
  BY <1>11 DEF e, p

LEMMA StillExplored ==
  ASSUME NEW start, NEW allowed, NEW conditions, NEW known, NEW more, NEW w,
         known \subseteq more, Explored(start, allowed, conditions, known, w)
  PROVE  Explored(start, allowed, conditions, more, w)
BY DEF Explored

LEMMA OpenRootSearched ==
  ASSUME AStarInv, OpenRoot
  PROVE  SearchInv'
<1>1. /\ open' = {[path |-> EmptyPlan, g |-> 0]} /\ bestG' = [w \in {query.start} |-> 0]
      /\ UNCHANGED <<query, attempt>>
  BY DEF OpenRoot
<1>2. Walk(query.start, Allowed, EmptyPlan) /\ After(query.start, EmptyPlan) = query.start
  BY EmptyWalk
<1>3. Len(EmptyPlan.actions) = 0 /\ \A i \in 1 .. 0 + 1 : i = 1
  BY DEF EmptyPlan
<1>4. Before(query.start, EmptyPlan, 1) = query.start
  BY DEF Before
<1>5. Simple(query.start, EmptyPlan)
  BY <1>3 DEF Simple
<1>6. NodeFine(query.start, Allowed, bestG', [path |-> EmptyPlan, g |-> 0])
  BY <1>1, <1>2, <1>3, <1>4, <1>5 DEF NodeFine
<1>7. Allowed' = Allowed
  BY <1>1, AnswersKept
<1>8. \A w \in DOMAIN bestG' : w = query.start /\ bestG'[w] = 0
  BY <1>1
<1> QED
  BY <1>1, <1>2, <1>6, <1>7, <1>8 DEF SearchInv, Ends

LEMMA PopStaleSearched ==
  ASSUME AStarInv, SearchInv, PopStale
  PROVE  SearchInv'
<1>1. PICK n \in Least : n.g > bestG[Ends(n)] /\ open' = open \ {n}
  BY DEF PopStale
<1>2. UNCHANGED <<query, attempt, bestG>> /\ Allowed' = Allowed
  BY AnswersKept DEF PopStale
<1>3. n \in open /\ NodeFine(query.start, Allowed, bestG, n)
  BY DEF Least, SearchInv
<1>4. Ends(n) \in DOMAIN bestG
  <2>1. Len(n.path.actions) \in Nat
    BY <1>3 DEF NodeFine, Walk, Plan
  <2>2. Len(n.path.actions) + 1 \in 1 .. Len(n.path.actions) + 1
    BY <2>1
  <2> QED
    BY <1>3, <2>2 DEF NodeFine, Ends, After
<1>5. bestG[Ends(n)] \in Nat /\ n.g \in Nat
  BY <1>3, <1>4 DEF SearchInv, NodeFine
<1>6. n.g # bestG[Ends(n)]
  BY <1>1, <1>5
<1>7. \A w \in DOMAIN bestG :
        (\E m \in open : Ends(m) = w /\ m.g = bestG[w])
          => \E m \in open' : Ends(m) = w /\ m.g = bestG[w]
  BY <1>1, <1>6
<1>8. \A m : Ends(m)' = Ends(m)
  BY <1>2 DEF Ends
<1> QED
  BY <1>1, <1>2, <1>7, <1>8 DEF SearchInv, Ends

LEMMA ExpandSearched ==
  ASSUME AStarInv, SearchInv, PopAndExpand
  PROVE  SearchInv'
<1> DEFINE start == query.start
           to(n, a) == Apply(Ends(n), Eff[a])
           child(n, a) == [path |-> Extend(start, n.path, a), g |-> n.g + query.cost[a]]
<1>1. PICK n \in Least :
        /\ ~Satisfies(Ends(n), query.conditions)
        /\ \E chosen \in SUBSET Improving(n) :
             LET via(w) == CHOOSE a \in chosen : to(n, a) = w
                 reached == {to(n, a) : a \in chosen}
             IN  /\ OnePerState(n, chosen)
                 /\ open' = (open \ {n}) \cup {child(n, a) : a \in chosen}
                 /\ bestG' = [w \in DOMAIN bestG \cup reached |->
                                IF w \in reached THEN n.g + query.cost[via(w)] ELSE bestG[w]]
  BY DEF PopAndExpand
<1>2. PICK chosen \in SUBSET Improving(n) :
        LET via(w) == CHOOSE a \in chosen : to(n, a) = w
            reached == {to(n, a) : a \in chosen}
        IN  /\ OnePerState(n, chosen)
            /\ open' = (open \ {n}) \cup {child(n, a) : a \in chosen}
            /\ bestG' = [w \in DOMAIN bestG \cup reached |->
                           IF w \in reached THEN n.g + query.cost[via(w)] ELSE bestG[w]]
  BY <1>1
<1> DEFINE reached == {to(n, a) : a \in chosen}
<1>3. /\ UNCHANGED <<query, attempt>> /\ Allowed' = Allowed /\ Allowed \subseteq Actions
      /\ start \in World /\ phase = "search"
  BY AnswersKept, AllowedAreActions DEF PopAndExpand, AStarInv
<1>4. n \in open /\ NodeFine(start, Allowed, bestG, n) /\ n.g \in Nat
  BY DEF Least, SearchInv, NodeFine
<1>5. \A a \in chosen : /\ a \in Allowed /\ CanFollow(start, n.path, a) /\ query.cost[a] \in Nat
                        /\ to(n, a) \in DOMAIN bestG => n.g + query.cost[a] < bestG[to(n, a)]
  <2>1. \A a \in chosen : a \in Improving(n)
    BY <1>2
  <2>2. query.cost \in [Actions -> Nat]
    BY DEF AStarInv
  <2> QED
    BY <1>3, <2>1, <2>2 DEF Improving
<1>6. \A b, c \in chosen : to(n, b) = to(n, c) => b = c
  BY <1>2 DEF OnePerState
<1>7. DOMAIN bestG' = DOMAIN bestG \cup reached
  BY <1>2
<1>8. ASSUME NEW a \in chosen
      PROVE  to(n, a) \in DOMAIN bestG' /\ bestG'[to(n, a)] = n.g + query.cost[a]
  <2>1. to(n, a) \in reached
    OBVIOUS
  <2>2. (CHOOSE b \in chosen : to(n, b) = to(n, a)) = a
    <3> HIDE DEF to
    <3> QED
      BY <1>6
  <2> QED
    BY <1>2, <2>1, <2>2
<1>9. \A w \in DOMAIN bestG \ reached : bestG'[w] = bestG[w]
  BY <1>2
<1>10. \A w \in reached : \E a \in chosen : w = to(n, a)
  OBVIOUS
<1>11. \A w \in DOMAIN bestG : bestG[w] \in Nat
  BY DEF SearchInv
<1>12. \A a \in chosen : n.g + query.cost[a] \in Nat
  BY <1>4, <1>5
<1> HIDE DEF to, reached
<1>13. \A w \in DOMAIN bestG' : bestG'[w] \in Nat
  <2> TAKE w \in DOMAIN bestG'
  <2>1. CASE w \in reached
    BY <1>8, <1>10, <1>12, <2>1
  <2>2. CASE w \notin reached
    BY <1>7, <1>9, <1>11, <2>2
  <2> QED
    BY <2>1, <2>2
<1>14. \A w \in DOMAIN bestG : w \in DOMAIN bestG' /\ bestG'[w] \in Nat /\ bestG'[w] <= bestG[w]
  <2> TAKE w \in DOMAIN bestG
  <2>1. CASE w \in reached
    <3>1. PICK a \in chosen : w = to(n, a)
      BY <1>10, <2>1
    <3>2. bestG'[w] = n.g + query.cost[a] /\ n.g + query.cost[a] < bestG[w]
      BY <1>5, <1>8, <3>1
    <3> QED
      BY <1>7, <1>11, <1>12, <3>2
  <2>2. CASE w \notin reached
    <3>1. bestG'[w] = bestG[w] /\ bestG[w] \in Nat /\ w \in DOMAIN bestG'
      BY <1>7, <1>9, <1>11, <2>2
    <3> QED
      BY <3>1
  <2> QED
    BY <2>1, <2>2
<1>15. \A m \in open' : NodeFine(start, Allowed, bestG', m)
  <2> TAKE m \in open'
  <2>1. CASE m \in open
    <3>1. NodeFine(start, Allowed, bestG, m)
      BY <2>1 DEF SearchInv
    <3> QED
      BY <1>11, <1>14, <3>1, NodeStaysFine
  <2>2. CASE m \notin open
    <3>1. PICK a \in chosen : m = child(n, a)
      BY <1>2, <2>2
    <3>2. LET w == Apply(After(start, n.path), Eff[a])
          IN  /\ w \in DOMAIN bestG => n.g + query.cost[a] < bestG[w]
              /\ w \in DOMAIN bestG' /\ bestG'[w] = n.g + query.cost[a]
      BY <1>5, <1>8 DEF to, Ends
    <3>3. NodeFine(start, Allowed, bestG',
                   [path |-> Extend(start, n.path, a), g |-> n.g + query.cost[a]])
      BY <1>3, <1>4, <1>5, <1>11, <1>14, <3>2, ChildIsFine
    <3> QED
      BY <3>1, <3>3
  <2> QED
    BY <2>1, <2>2
<1>16. ASSUME NEW w \in DOMAIN bestG'
       PROVE  \/ \E m \in open' : After(start, m.path) = w /\ m.g = bestG'[w]
              \/ Explored(start, Allowed, query.conditions, DOMAIN bestG', w)
  <2>1. CASE w \in reached
    <3>1. PICK a \in chosen : w = to(n, a)
      BY <1>10, <2>1
    <3>2. child(n, a) \in open' /\ child(n, a).g = bestG'[w]
      BY <1>2, <1>8, <3>1
    <3>3. After(start, child(n, a).path) = w
      <4>1. After(start, Extend(start, n.path, a)) = Apply(After(start, n.path), Eff[a])
        <5>1. Walk(start, Allowed, n.path) /\ a \in Allowed /\ CanFollow(start, n.path, a)
          BY <1>4, <1>5 DEF NodeFine
        <5>2. start \in World /\ Allowed \subseteq Actions
          BY <1>3
        <5> HIDE DEF start
        <5> QED
          BY <5>1, <5>2, WalkExtends
      <4> QED
        BY <3>1, <4>1 DEF to, Ends
    <3> HIDE DEF child
    <3> QED
      BY <3>2, <3>3
  <2>2. CASE w \notin reached
    <3>1. w \in DOMAIN bestG /\ bestG'[w] = bestG[w]
      BY <1>7, <1>9, <2>2
    <3>2. CASE Explored(start, Allowed, query.conditions, DOMAIN bestG, w)
      BY <1>7, <3>2, StillExplored
    <3>3. ASSUME NEW m \in open, Ends(m) = w, m.g = bestG[w]
          PROVE  \/ \E l \in open' : After(start, l.path) = w /\ l.g = bestG'[w]
                 \/ Explored(start, Allowed, query.conditions, DOMAIN bestG', w)
      <4>1. CASE m # n
        <5>1. m \in open'
          BY <1>2, <4>1
        <5> QED
          BY <3>1, <3>3, <5>1 DEF Ends
      <4>2. CASE m = n
        <5>1. \A a \in Allowed : CanFollow(start, n.path, a) => to(n, a) \in DOMAIN bestG'
          <6> SUFFICES ASSUME NEW a \in Allowed, CanFollow(start, n.path, a)
                       PROVE  to(n, a) \in DOMAIN bestG'
            OBVIOUS
          <6>1. CASE a \in Improving(n)
            <7>1. PICK b \in chosen : to(n, b) = to(n, a)
              BY <1>2, <6>1 DEF OnePerState, to
            <7> QED
              BY <1>8, <7>1
          <6>2. CASE a \notin Improving(n)
            <7>1. to(n, a) \in DOMAIN bestG
              BY <6>2 DEF Improving, to
            <7> QED
              BY <1>7, <7>1
          <6> QED
            BY <6>1, <6>2
        <5>2. Walk(start, Allowed, n.path) /\ Simple(start, n.path)
              /\ After(start, n.path) = w /\ Ends(n) = w
          BY <1>4, <3>3, <4>2 DEF NodeFine, Ends
        <5> QED
          BY <1>1, <5>1, <5>2 DEF Explored, to
      <4> QED
        BY <4>1, <4>2
    <3> QED
      BY <3>1, <3>2, <3>3 DEF SearchInv
  <2> QED
    BY <2>1, <2>2
<1>17. start \in DOMAIN bestG'
  BY <1>7 DEF SearchInv
<1> QED
  BY <1>3, <1>13, <1>15, <1>16, <1>17 DEF SearchInv, Ends

\* What the answer rests on: a second attempt is made only when the first has nothing
\* to find, nothing is overlooked while searching, and no pass makes the path longer.
RefineInv ==
  /\ query.start \in Starts /\ attempt \in {1, 2}
  /\ attempt = 2 /\ ~expired
       => Dead(query.start, query.conditions, Actions \ query.barred)
  /\ phase = "search" => SearchInv
  /\ phase = "prune" => ~expired /\ Len(kept) + left <= MaxPlanLen
  /\ phase = "replay" => ~expired /\ Len(kept) <= MaxPlanLen /\ Len(out.actions) <= cursor - 1
  /\ SearchRefined

LEMMA RefineInitial == AStarInit => RefineInv
BY DEF AStarInit, RefineInv, SearchRefined, Search

\* None is the answer when neither search has a plan to find.
LEMMA NoPlanRight ==
  ASSUME NEW start, NEW conditions, NEW barred, ~Satisfies(start, conditions),
         Dead(start, conditions, Actions \ barred), Dead(start, conditions, Actions)
  PROVE  NoPlan \in Search(start, conditions, barred)
<1>1. /\ NoPlan \in SearchOutcomes(start, conditions, Actions \ barred)
      /\ NoPlan \in SearchOutcomes(start, conditions, Actions)
  BY DEF Dead, SearchOutcomes
<1> QED
  BY <1>1 DEF Search

\* A plan is, over all actions only when there is none to find around the barred ones.
LEMMA PlanRight ==
  ASSUME NEW start, NEW conditions, NEW barred, ~Satisfies(start, conditions), NEW p,
         \/ p \in PlansOver(start, conditions, Actions \ barred)
         \/ /\ p \in PlansOver(start, conditions, Actions)
            /\ Dead(start, conditions, Actions \ barred)
  PROVE  p \in Search(start, conditions, barred)
<1>1. CASE p \in PlansOver(start, conditions, Actions \ barred)
  <2>1. p \in SearchOutcomes(start, conditions, Actions \ barred)
    BY <1>1 DEF SearchOutcomes
  <2>2. p # NoPlan
    BY <1>1, NoPlanAssumption DEF PlansOver, IsPlan
  <2> QED
    BY <2>1, <2>2 DEF Search
<1>2. CASE /\ p \in PlansOver(start, conditions, Actions)
           /\ Dead(start, conditions, Actions \ barred)
  <2>1. p \in SearchOutcomes(start, conditions, Actions)
    BY <1>2 DEF SearchOutcomes
  <2>2. NoPlan \in SearchOutcomes(start, conditions, Actions \ barred)
    BY <1>2 DEF Dead, SearchOutcomes
  <2> QED
    BY <2>1, <2>2 DEF Search
<1> QED
  BY <1>1, <1>2

LEMMA NothingFoundRefines ==
  ASSUME AStarInv, RefineInv, NothingFound, phase # "done",
         expired \/ Dead(query.start, query.conditions, Allowed)
  PROVE  RefineInv'
<1>1. UNCHANGED <<query, expired, result>> /\ result = NoPlan
      /\ ~Satisfies(query.start, query.conditions)
  BY DEF NothingFound, AStarInv
<1>2. CASE attempt = 1 /\ query.barred # {}
  <2>1. attempt' = 2 /\ phase' = "attempt" /\ Allowed = Actions \ query.barred
    BY <1>2 DEF NothingFound, Allowed
  <2> QED
    BY <1>1, <2>1 DEF RefineInv, SearchRefined
<1>3. CASE ~(attempt = 1 /\ query.barred # {})
  <2>1. attempt' = attempt /\ phase' = "done"
    BY <1>3 DEF NothingFound
  <2>2. ASSUME ~expired
        PROVE  NoPlan \in Search(query.start, query.conditions, query.barred)
    <3>1. /\ Dead(query.start, query.conditions, Actions \ query.barred)
          /\ Dead(query.start, query.conditions, Actions)
      <4>1. CASE attempt = 1
        <5>1. Allowed = Actions \ query.barred /\ Actions \ query.barred = Actions
          BY <1>3, <4>1 DEF Allowed
        <5> QED
          BY <2>2, <5>1
      <4>2. CASE attempt = 2
        <5>1. Allowed = Actions
          BY <4>2 DEF Allowed
        <5> QED
          BY <2>2, <4>2, <5>1 DEF RefineInv
      <4> QED
        BY <4>1, <4>2 DEF RefineInv
    <3> QED
      BY <1>1, <3>1, NoPlanRight
  <2>3. SearchRefined'
    BY <1>1, <2>2 DEF SearchRefined
  <2> QED
    BY <1>1, <2>1, <2>3 DEF RefineInv
<1> QED
  BY <1>2, <1>3

\* What is popped as a goal is a simple walk, so the passes start within the bound.
LEMMA PopGoalRefines ==
  ASSUME SimpleWalksFit, AStarInv, RefineInv, PopGoal
  PROVE  RefineInv'
<1>1. PICK n \in Least :
        raw' = n.path /\ left' = Len(n.path.actions) /\ kept' = <<>>
  BY DEF PopGoal
<1>2. /\ phase = "search" /\ phase' = "prune" /\ ~expired
      /\ UNCHANGED <<query, attempt, expired, result>>
  BY DEF PopGoal
<1>3. Walk(query.start, Allowed, n.path) /\ Simple(query.start, n.path)
  BY <1>1, <1>2 DEF Least, RefineInv, SearchInv, NodeFine
<1>4. Len(n.path.actions) <= MaxPlanLen /\ Len(n.path.actions) \in Nat
  <2>1. query.start \in Starts
    BY DEF RefineInv
  <2>2. Len(n.path.actions) <= MaxPlanLen
    BY <1>3, <2>1, AllowedAreActions, SimpleIsPath
  <2> QED
    BY <1>3, <2>2 DEF Walk, Plan
<1>5. Len(kept') + left' <= MaxPlanLen
  <2>1. Len(kept') = 0
    BY <1>1
  <2> QED
    BY <1>1, <1>4, <2>1
<1> QED
  BY <1>2, <1>5 DEF RefineInv, SearchRefined

LEMMA PassesRefine ==
  ASSUME AStarInv, RefineInv, LeaveOut \/ KeepIt \/ Pruned \/ Replay
  PROVE  RefineInv'
<1>1. MaxPlanLen \in Nat
  BY DomainAssumption
<1>2. UNCHANGED <<query, attempt, expired, result>>
  BY DEF LeaveOut, KeepIt, Pruned, Replay, searchVars
<1>3. CASE LeaveOut
  <2>1. phase = "prune" /\ phase' = "prune" /\ left' = left - 1 /\ kept' = kept
    BY <1>3 DEF LeaveOut, searchVars
  <2>2. left \in Nat /\ Len(kept) \in Nat /\ Len(kept) + left <= MaxPlanLen /\ ~expired
    BY <2>1 DEF AStarInv, PruneInv, KeptInv, RefineInv, Walk, Plan
  <2>3. Len(kept') + left' <= MaxPlanLen
    BY <1>1, <2>1, <2>2
  <2> QED
    BY <1>2, <2>1, <2>2, <2>3 DEF RefineInv, SearchRefined
<1>4. CASE KeepIt
  <2>1. /\ phase = "prune" /\ phase' = "prune" /\ left' = left - 1 /\ left > 0
        /\ kept' = <<raw.actions[left]>> \o kept
    BY <1>4 DEF KeepIt, searchVars
  <2>2. /\ left \in Nat /\ Len(kept) \in Nat /\ Len(kept) + left <= MaxPlanLen /\ ~expired
        /\ kept \in Seq(Actions) /\ left \in 1 .. Len(raw.actions)
        /\ raw.actions \in Seq(Actions)
    BY <2>1, AllowedAreActions DEF AStarInv, PruneInv, KeptInv, RefineInv, Walk, Plan
  <2>3. Len(kept') = Len(kept) + 1
    <3>1. raw.actions[left] \in Actions
      BY <2>2
    <3> QED
      BY <2>1, <2>2, <3>1
  <2>4. Len(kept') + left' <= MaxPlanLen
    BY <1>1, <2>1, <2>2, <2>3
  <2> QED
    BY <1>2, <2>1, <2>2, <2>4 DEF RefineInv, SearchRefined
<1>5. CASE Pruned
  <2>1. /\ phase = "prune" /\ phase' = "replay" /\ left = 0 /\ cursor' = 1
        /\ out' = EmptyPlan /\ kept' = kept
    BY <1>5 DEF Pruned
  <2>2. Len(kept) \in Nat /\ Len(kept) + 0 <= MaxPlanLen /\ ~expired
    BY <2>1 DEF AStarInv, PruneInv, KeptInv, RefineInv
  <2>3. Len(kept') <= MaxPlanLen /\ Len(out'.actions) <= cursor' - 1
    BY <1>1, <2>1, <2>2 DEF EmptyPlan
  <2> QED
    BY <1>2, <2>1, <2>2, <2>3 DEF RefineInv, SearchRefined
<1>6. CASE Replay
  <2>1. /\ phase = "replay" /\ phase' = "replay" /\ cursor' = cursor + 1 /\ kept' = kept
        /\ out' \in {out, Extend(query.start, out, kept[cursor])}
        /\ cursor <= Len(kept)
    BY <1>6 DEF Replay, searchVars
  <2>2. /\ Len(kept) <= MaxPlanLen /\ Len(out.actions) <= cursor - 1 /\ ~expired
        /\ out.actions \in Seq(Actions) /\ cursor \in 1 .. Len(kept) /\ kept \in Seq(Actions)
        /\ cursor \in Nat
    BY <2>1, AllowedAreActions DEF AStarInv, ReplayInv, KeptInv, RefineInv, Walk, Plan
  <2>3. Len(out'.actions) \in {Len(out.actions), Len(out.actions) + 1}
    <3>1. Len(Append(out.actions, kept[cursor])) = Len(out.actions) + 1
      BY <2>2
    <3> QED
      BY <2>1, <3>1 DEF Extend
  <2>4. Len(out'.actions) <= cursor' - 1
    <3>1. Len(out.actions) \in Nat
      BY <2>2
    <3> QED
      BY <2>1, <2>2, <2>3, <3>1
  <2> QED
    BY <1>2, <2>1, <2>2, <2>4 DEF RefineInv, SearchRefined
<1> QED
  BY <1>3, <1>4, <1>5, <1>6

\* What the passes leave is no longer than what was popped, and a plan.
LEMMA FinishRefines ==
  ASSUME AStarInv, RefineInv, Finish
  PROVE  RefineInv'
<1>1. /\ phase = "replay" /\ phase' = "done" /\ cursor > Len(kept)
      /\ result' = IF Satisfies(After(query.start, out), query.conditions) THEN out
                   ELSE [actions |-> kept, expected |-> Simulated(query.start, kept)]
      /\ UNCHANGED <<query, attempt, expired>>
  BY DEF Finish
<1>2. ReplayInv /\ KeptInv /\ ~Satisfies(query.start, query.conditions)
  BY <1>1 DEF AStarInv, ReplayInv
<1>3. cursor = Len(needs) /\ cursor = Len(kept) + 1 /\ Len(kept) \in Nat
  BY <1>1, <1>2 DEF ReplayInv, KeptInv
<1>4. Satisfies(After(query.start, out), query.conditions)
  BY <1>2, <1>3, FactsHold DEF ReplayInv, KeptInv
<1>5. result' = out /\ Walk(query.start, Allowed, out)
  BY <1>1, <1>2, <1>4 DEF ReplayInv
<1>6. Len(out.actions) \in Nat /\ Len(out.actions) <= MaxPlanLen
  <2>1. Len(out.actions) <= cursor - 1 /\ Len(kept) <= MaxPlanLen /\ MaxPlanLen \in Nat
    BY <1>1, DomainAssumption DEF RefineInv
  <2>2. Len(out.actions) \in Nat
    BY <1>5 DEF Walk, Plan
  <2> QED
    BY <1>3, <2>1, <2>2
<1>7. query.start \in World
  BY DEF AStarInv
<1>8. out \in Paths(query.start, Allowed)
  BY <1>5, <1>6, <1>7, AllowedAreActions, WalksArePaths
<1>9. IsPlan(query.start, query.conditions, Allowed, out)
  <2>1. IsAnswer(result)'
    BY <1>1, FinishStep DEF AStarInv
  <2>2. IsAnswer(out)
    BY <1>1, <1>5, <2>1, AnswersKept DEF IsAnswer
  <2>3. out # NoPlan
    BY <1>5, NoPlanAssumption DEF Walk
  <2> QED
    BY <1>2, <2>2, <2>3 DEF IsAnswer
<1>10. out \in PlansOver(query.start, query.conditions, Allowed)
  BY <1>8, <1>9 DEF PlansOver
<1>11. out \in Search(query.start, query.conditions, query.barred)
  <2>1. CASE attempt = 1
    <3>1. Allowed = Actions \ query.barred
      BY <2>1 DEF Allowed
    <3> QED
      BY <1>2, <1>10, <3>1, PlanRight
  <2>2. CASE attempt = 2
    <3>1. Allowed = Actions /\ Dead(query.start, query.conditions, Actions \ query.barred)
      BY <1>1, <2>2 DEF Allowed, RefineInv
    <3> QED
      BY <1>2, <1>10, <3>1, PlanRight
  <2> QED
    BY <2>1, <2>2 DEF RefineInv
<1>12. SearchRefined'
  BY <1>1, <1>5, <1>11 DEF SearchRefined
<1> QED
  BY <1>1, <1>12 DEF RefineInv

LEMMA RefineStep ==
  ASSUME SimpleWalksFit, AStarInv, RefineInv, [AStarNext]_astarVars
  PROVE  RefineInv'
<1>1. query.start \in Starts /\ query.conditions \in World /\ Allowed \subseteq Actions
  BY AllowedAreActions DEF RefineInv, AStarInv
<1>2. CASE NotReachable
  <2>1. phase = "attempt" /\ ~Producible /\ NothingFound
    BY <1>2 DEF NotReachable
  <2>2. Dead(query.start, query.conditions, Allowed)
    <3>1. PICK k \in Mentioned(query.conditions) :
            /\ query.start[k] # query.conditions[k]
            /\ \A a \in Allowed : Eff[a][k] # query.conditions[k]
      BY <2>1 DEF Producible
    <3>2. query.start \in World
      BY DEF AStarInv
    <3> QED
      BY <1>1, <3>1, <3>2, UnproducibleIsDead
  <2> QED
    BY <2>1, <2>2, NothingFoundRefines
<1>3. CASE OpenRoot
  <2>1. SearchInv' /\ phase' = "search" /\ UNCHANGED <<query, attempt, expired, result>>
    BY <1>3, OpenRootSearched DEF OpenRoot
  <2> QED
    BY <2>1 DEF RefineInv, SearchRefined
<1>4. CASE Expire
  <2>1. /\ phase \in {"attempt", "search"} /\ phase' = phase /\ expired'
        /\ UNCHANGED <<query, attempt, open, bestG, result>>
    BY <1>4 DEF Expire
  <2>2. phase = "search" => SearchInv'
    <3>1. Allowed' = Allowed
      BY <2>1, AnswersKept
    <3> QED
      BY <2>1, <3>1 DEF RefineInv, SearchInv, Ends
  <2> QED
    BY <2>1, <2>2 DEF RefineInv, SearchRefined
<1>5. CASE OutOfTime
  BY <1>5, NothingFoundRefines DEF OutOfTime
<1>6. CASE Exhausted
  <2>1. phase = "search" /\ open = {} /\ NothingFound /\ SearchInv
    BY <1>6 DEF Exhausted, RefineInv
  <2>2. /\ query.start \in DOMAIN bestG
        /\ \A w \in DOMAIN bestG :
             Explored(query.start, Allowed, query.conditions, DOMAIN bestG, w)
    BY <2>1 DEF SearchInv
  <2>3. Dead(query.start, query.conditions, Allowed)
    BY <1>1, <2>2, ExhaustedIsDead
  <2> QED
    BY <2>1, <2>3, NothingFoundRefines
<1>7. CASE PopStale
  <2>1. /\ SearchInv' /\ phase = "search" /\ phase' = phase
        /\ UNCHANGED <<query, attempt, expired, result>>
    BY <1>7, PopStaleSearched DEF PopStale, RefineInv
  <2> QED
    BY <2>1 DEF RefineInv, SearchRefined
<1>8. CASE PopAndExpand
  <2>1. /\ SearchInv' /\ phase = "search" /\ phase' = phase
        /\ UNCHANGED <<query, attempt, expired, result>>
    BY <1>8, ExpandSearched DEF PopAndExpand, RefineInv
  <2> QED
    BY <2>1 DEF RefineInv, SearchRefined
<1>9. CASE UNCHANGED astarVars
  <2>1. UNCHANGED <<query, phase, attempt, expired, open, bestG, kept, left, cursor, out, result>>
    BY <1>9 DEF astarVars, searchVars, passVars
  <2>2. Allowed' = Allowed
    BY <2>1, AnswersKept
  <2>3. SearchInv => SearchInv'
    BY <2>1, <2>2 DEF SearchInv, Ends
  <2> QED
    BY <2>1, <2>3 DEF RefineInv, SearchRefined
<1> QED
  BY <1>2, <1>3, <1>4, <1>5, <1>6, <1>7, <1>8, <1>9, PopGoalRefines, PassesRefine,
     FinishRefines DEF AStarNext

\* Whatever the costs, the ties and the deadline: plan() answers what GoapDomain's
\* Search allows, so what the planner node is modelled on is what the search does. It
\* says there is no plan only when none was in its reach, and runs barred actions only
\* when there is no plan in reach around them.
THEOREM SearchIsRefined ==
  ASSUME SimpleWalksFit
  PROVE  AStarSpec => []SearchRefined
<1>1. RefineInv => SearchRefined
  BY DEF RefineInv
<1>2. AStarInv /\ RefineInv /\ [AStarNext]_astarVars => AStarInv' /\ RefineInv'
  BY AStarStep, RefineStep
<1>3. AStarInit => AStarInv /\ RefineInv
  BY AStarInitial, RefineInitial
<1> QED
  BY <1>1, <1>2, <1>3, PTL DEF AStarSpec

\* The bound is no restriction on a finite world: a walk through distinct states has at
\* most as many of them as there are.
LEMMA LongEnough ==
  ASSUME IsFiniteSet(World), Cardinality(World) <= MaxPlanLen + 1
  PROVE  SimpleWalksFit
<1> SUFFICES ASSUME NEW start \in Starts, NEW p \in Plan,
                    Walk(start, Actions, p), Simple(start, p)
             PROVE  Len(p.actions) <= MaxPlanLen
  BY DEF SimpleWalksFit
<1> DEFINE n == Len(p.actions)
           f == [i \in 1 .. n + 1 |-> Before(start, p, i)]
<1>1. n \in Nat /\ Len(p.expected) = n /\ start \in World /\ p.expected \in Seq(World)
  BY AStarAssumption DEF Walk, Plan
<1>2. MaxPlanLen \in Nat
  BY DomainAssumption
<1>3. \A i \in 1 .. n + 1 : Before(start, p, i) \in World
  <2>1. \A i \in 1 .. n + 1 : i # 1 => i - 1 \in 1 .. n
    BY <1>1
  <2>2. \A i \in 1 .. n : p.expected[i] \in World
    BY <1>1
  <2> QED
    BY <1>1, <2>1, <2>2 DEF Before
<1>4. \A i, j \in 1 .. n + 1 : f[i] = f[j] => i = j
  BY DEF Simple
<1>5. f \in Injection(1 .. n + 1, World)
  <2>1. f \in [1 .. n + 1 -> World]
    BY <1>3
  <2> HIDE DEF f
  <2> QED
    BY <1>4, <2>1 DEF Injection, IsInjective
<1> HIDE DEF f
<1>6. Cardinality(1 .. n + 1) <= Cardinality(World)
  BY <1>5, FS_Injection
<1>7. Cardinality(1 .. n + 1) = n + 1
  <2>1. 1 \in Int /\ n + 1 \in Int /\ ~(1 > n + 1) /\ (n + 1) - 1 + 1 = n + 1
    BY <1>1
  <2> QED
    BY <2>1, FS_Interval
<1>8. Cardinality(World) \in Nat
  BY FS_CardinalityType
<1> HIDE DEF n
<1> QED
  BY <1>1, <1>2, <1>6, <1>7, <1>8 DEF n
============================================================================
