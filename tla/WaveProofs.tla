------------------------------ MODULE WaveProofs ------------------------------
(***************************************************************************)
(* Theorems about WaveLoop, for every domain, every configuration of the    *)
(* graph, every ActionQos, and every interleaving, failure, interrupt and   *)
(* crash of the members of a wave.                                          *)
(***************************************************************************)
EXTENDS WaveLoop, GoapLoopProofs, WellFoundedInduction
-----------------------------------------------------------------------------
(* First and last indices. *)

LEMMA HasFirst ==
  ASSUME NEW S \in SUBSET Nat, S # {}
  PROVE  \E m \in S : \A k \in S : m <= k
<1> DEFINE R == {ss \in Nat \X Nat : ss[1] < ss[2]}
<1>1. IsWellFoundedOn(R, Nat)
  BY NatLessThanWellFounded DEF OpToRel
<1> HIDE DEF R
<1>2. PICK m \in S : \A k \in S : <<k, m>> \notin R
  BY <1>1, WFMin
<1>3. ASSUME NEW k \in S PROVE ~(k < m)
  BY <1>2, <1>3 DEF R
<1> QED
  BY <1>3

LEMMA HasLast ==
  ASSUME NEW n \in Nat, NEW S \in SUBSET (1 .. n), S # {}
  PROVE  \E m \in S : \A k \in S : k <= m
<1> DEFINE T == {n - i : i \in S}
<1>1. T \in SUBSET Nat /\ T # {}
  <2>1. \A i \in S : n - i \in Nat
    OBVIOUS
  <2>2. T \in SUBSET Nat
    BY <2>1
  <2>3. T # {}
    BY S # {}
  <2> QED
    BY <2>2, <2>3
<1>2. PICK t \in T : \A k \in T : t <= k
  BY <1>1, HasFirst
<1>3. PICK m \in S : t = n - m
  OBVIOUS
<1>4. ASSUME NEW k \in S PROVE k <= m
  <2>1. t <= n - k
    BY <1>2
  <2> QED
    BY <1>3, <2>1
<1> QED
  BY <1>4

LEMMA LastOfIs ==
  ASSUME NEW n \in Nat, NEW S \in SUBSET (1 .. n), S # {}
  PROVE  LastOf(S) \in S /\ \A k \in S : k <= LastOf(S)
BY HasLast DEF LastOf

LEMMA FirstOfIs ==
  ASSUME NEW S \in SUBSET Nat, S # {}
  PROVE  FirstOf(S) \in S /\ \A k \in S : FirstOf(S) <= k
BY HasFirst DEF FirstOf
-----------------------------------------------------------------------------
(* Waves. *)

\* A wave is a stretch of the plan that begins with the next action.
LEMMA WaveIs ==
  ASSUME NEW p \in Plan, NEW s \in Nat, s < Len(p.actions)
  PROVE  /\ Wave(p, s) \subseteq s + 1 .. Len(p.actions)
         /\ Wave(p, s) \subseteq 1 .. Len(p.actions)
         /\ s + 1 \in Wave(p, s)
         /\ \A j \in Wave(p, s) : s + 1 .. j \subseteq Wave(p, s)
<1>1. Len(p.actions) \in Nat
  BY DEF Plan
<1>2. FreeOfWave(p, s, s + 1)
  BY DEF FreeOfWave
<1>3. s + 1 \in Wave(p, s)
  <2>1. \A m \in s + 1 .. s + 1 : m = s + 1
    OBVIOUS
  <2> QED
    BY <1>1, <1>2, <2>1 DEF Wave
<1>4. ASSUME NEW j \in Wave(p, s), NEW i \in s + 1 .. j
      PROVE  i \in Wave(p, s)
  <2>1. j \in s + 1 .. Len(p.actions) /\ \A m \in s + 1 .. j : FreeOfWave(p, s, m)
    BY DEF Wave
  <2>2. i \in s + 1 .. Len(p.actions) /\ \A m \in s + 1 .. i : m \in s + 1 .. j
    BY <1>1, <2>1
  <2> QED
    BY <2>1, <2>2 DEF Wave
<1>5. Wave(p, s) \subseteq s + 1 .. Len(p.actions)
  BY DEF Wave
<1>6. s + 1 .. Len(p.actions) \subseteq 1 .. Len(p.actions)
  BY <1>1
<1> QED
  BY <1>3, <1>4, <1>5, <1>6

\* Between waves a node has no members; under way they are a wave of the plan.
LEMMA MembersAre ==
  ASSUME WaveTypeOK, members # NoWave
  PROVE  /\ pc = "executor" /\ HasActionLeft /\ plan \in Plan
         /\ step \in Nat /\ step < Len(plan.actions) /\ Len(plan.actions) \in Nat
         /\ DOMAIN members = Wave(plan, step)
         /\ step + 1 \in DOMAIN members
         /\ DOMAIN members \subseteq 1 .. Len(plan.actions)
         /\ \A i \in DOMAIN members : Act(i) \in Actions /\ members[i] \in Member
<1>1. /\ pc = "executor" /\ HasActionLeft /\ DOMAIN members = Wave(plan, step)
      /\ plan \in Plan /\ step \in Nat /\ step < Len(plan.actions)
  BY DEF WaveTypeOK, TypeOK, HasActionLeft
<1>2. plan.actions \in Seq(Actions) /\ Len(plan.actions) \in Nat
  BY <1>1 DEF Plan
<1>3. step + 1 \in DOMAIN members /\ DOMAIN members \subseteq 1 .. Len(plan.actions)
  BY <1>1, WaveIs
<1>4. \A i \in 1 .. Len(plan.actions) : Act(i) \in Actions
  BY <1>2 DEF Act
<1> QED
  BY <1>1, <1>2, <1>3, <1>4 DEF WaveTypeOK

LEMMA NoWaveIsEmpty == DOMAIN NoWave = {}
BY DEF NoWave
-----------------------------------------------------------------------------
(* Types. *)

LEMMA WaveTypeInit == WaveInit => WaveTypeOK
<1> SUFFICES ASSUME WaveInit PROVE WaveTypeOK
  OBVIOUS
<1>1. TypeOK
  BY TypeInit DEF WaveInit
<1> QED
  BY <1>1, NoWaveIsEmpty DEF WaveInit, WaveTypeOK

\* A member moves: its dictionary and, invoked, those of the members after it.
LEMMA RecordType ==
  ASSUME WaveTypeOK, members # NoWave, NEW i \in DOMAIN members, NEW ph \in Phases,
         NEW w \in World, NEW n \in Nat, n <= MaxAttempts[Act(i)],
         Record(i, ph, w, n), UNCHANGED vars
  PROVE  /\ DOMAIN members' = DOMAIN members
         /\ \A j \in DOMAIN members' :
              members'[j] \in Member /\ members'[j].attempt <= MaxAttempts[Act(j)']
<1>1. DOMAIN members' = DOMAIN members
  BY DEF Record
<1>2. ASSUME NEW j \in DOMAIN members
      PROVE  members'[j] \in Member /\ members'[j].attempt <= MaxAttempts[Act(j)]
  <2>1. members[j] \in Member /\ members[j].attempt <= MaxAttempts[Act(j)]
    BY DEF WaveTypeOK
  <2>2. members[i] \in Member
    BY DEF WaveTypeOK
  <2>3. \/ j = i /\ members'[j] = [members[i] EXCEPT !.phase = ph, !.world = w, !.attempt = n]
        \/ members'[j] = [members[j] EXCEPT !.seen = w, !.world = w]
        \/ members'[j] = members[j]
    BY DEF Record
  <2> QED
    BY <2>1, <2>2, <2>3 DEF Member
<1>3. \A j : Act(j)' = Act(j)
  BY DEF vars, Act
<1> QED
  BY <1>1, <1>2, <1>3

\* The locals of the node stay as they are, and so does the channel state.
LEMMA MemberTypeStep ==
  ASSUME WaveTypeOK, NEW i \in DOMAIN members,
         MemberBlocked(i) \/ MemberDenied(i) \/ MemberReturns(i) \/ MemberRaises(i)
  PROVE  WaveTypeOK'
<1>1. UNCHANGED <<vars, entry, asked, answers, crashes>> /\ members # NoWave
  BY DEF MemberBlocked, MemberDenied, MemberReturns, MemberRaises, NotPerformed,
     MayPerform, MayMove, InWave
<1>2. /\ Act(i) \in Actions /\ members[i] \in Member
      /\ DOMAIN members \subseteq 1 .. Len(plan.actions)
  BY <1>1, MembersAre
<1>3. i \in Nat
  BY DEF WaveTypeOK
<1>4. /\ members[i].world \in World /\ members[i].attempt \in Nat
      /\ members[i].attempt <= MaxAttempts[Act(i)] /\ MaxAttempts[Act(i)] \in Nat
  BY <1>2, WaveAssumption DEF Member, WaveTypeOK
<1>5. /\ \E ph \in Phases, w \in World, n \in Nat :
           n <= MaxAttempts[Act(i)] /\ Record(i, ph, w, n)
      /\ done' \in {done, done \cup {i}} /\ refused' \in {refused, refused \cup {i}}
      /\ ran' \in {ran, ran \cup {i}} /\ again' \in {again, again \cup (ran \cap {i})}
      /\ smooth' \in BOOLEAN
  <2>1. CASE MemberBlocked(i) \/ MemberDenied(i)
    BY <1>4, <2>1 DEF MemberBlocked, MemberDenied, NotPerformed, Phases, Failing
  <2>2. CASE MemberReturns(i)
    <3>1. PICK update \in Outcomes[Act(i)] :
            LET after == Apply(members[i].world, update)
                accepted == ~Rejects(Act(i), after)
            IN  /\ Record(i, IF accepted THEN "done" ELSE "rejected", after,
                          members[i].attempt)
                /\ done' = IF accepted THEN done \cup {i} ELSE done
                /\ refused' = IF accepted THEN refused ELSE refused \cup {i}
                /\ smooth' = (smooth /\ accepted /\ update = Eff[Act(i)])
      BY <2>2 DEF MemberReturns
    <3>2. Apply(members[i].world, update) \in World
      BY <1>2, <1>4, ApplyType, LoopAssumption
    <3>3. /\ done' \in {done, done \cup {i}} /\ refused' \in {refused, refused \cup {i}}
          /\ ran' = ran \cup {i} /\ again' = again \cup (ran \cap {i})
          /\ smooth' \in BOOLEAN
      BY <2>2, <3>1 DEF MemberReturns
    <3>4. \E ph \in Phases : Record(i, ph, Apply(members[i].world, update), members[i].attempt)
      BY <3>1 DEF Phases, Failing
    <3> QED
      BY <1>4, <3>2, <3>3, <3>4
  <2>3. CASE MemberRaises(i)
    <3>1. PICK left \in Leftovers[Act(i)], retryable \in {FALSE, Act(i) \in Retryable} :
            LET after == Apply(members[i].world, left) IN
            IF ShouldRetry(i, retryable)
              THEN Record(i, "todo", after, members[i].attempt + 1)
              ELSE Record(i, "raised", after, members[i].attempt)
      BY <2>3 DEF MemberRaises
    <3>2. Apply(members[i].world, left) \in World
      BY <1>2, <1>4, ApplyType, WaveAssumption
    <3>3. ShouldRetry(i, retryable) => members[i].attempt + 1 <= MaxAttempts[Act(i)]
      BY <1>4 DEF ShouldRetry
    <3>4. \E ph \in Phases, n \in Nat :
            n <= MaxAttempts[Act(i)] /\ Record(i, ph, Apply(members[i].world, left), n)
      <4>1. CASE ShouldRetry(i, retryable)
        BY <1>4, <3>1, <3>3, <4>1 DEF Phases
      <4>2. CASE ~ShouldRetry(i, retryable)
        BY <1>4, <3>1, <4>2 DEF Phases, Failing
      <4> QED
        BY <4>1, <4>2
    <3>5. UNCHANGED <<done, refused, ran, again>> /\ smooth' = FALSE
      BY <2>3 DEF MemberRaises
    <3> QED
      BY <3>2, <3>4, <3>5
  <2> QED
    BY <2>1, <2>2, <2>3
<1>6. /\ DOMAIN members' = DOMAIN members
      /\ \A j \in DOMAIN members' :
           members'[j] \in Member /\ members'[j].attempt <= MaxAttempts[Act(j)']
  BY <1>1, <1>5, RecordType
<1>7. TypeOK'
  BY <1>1, TypeStutter DEF WaveTypeOK
<1>8. /\ DOMAIN members' \subseteq Nat
      /\ members' # NoWave =>
           pc' = "executor" /\ HasActionLeft' /\ DOMAIN members' = Wave(plan', step')
  <2>1. /\ pc = "executor" /\ HasActionLeft /\ DOMAIN members = Wave(plan, step)
        /\ DOMAIN members \subseteq Nat
    BY <1>1, MembersAre DEF WaveTypeOK
  <2>2. pc' = pc /\ plan' = plan /\ step' = step /\ HasActionLeft' = HasActionLeft
    BY <1>1 DEF vars, HasActionLeft
  <2> QED
    BY <1>6, <2>1, <2>2
<1>9. /\ entry' \in EntryPoints /\ asked' \in Nat
      /\ approved' \subseteq Nat /\ denied' \subseteq Nat /\ crashes' \in Nat
  BY <1>1 DEF answers, WaveTypeOK
<1>10. /\ done' \subseteq Nat /\ refused' \subseteq Nat
       /\ ran' \subseteq Nat /\ again' \subseteq Nat /\ smooth' \in BOOLEAN
  BY <1>3, <1>5 DEF WaveTypeOK
<1> QED
  BY <1>6, <1>7, <1>8, <1>9, <1>10 DEF WaveTypeOK

\* The node returns or is left: no members, the rest of its locals in type.
LEMMA NoMembersType ==
  ASSUME WaveTypeOK, TypeOK', members' = NoWave, UNCHANGED entry,
         asked' \in Nat, approved' \subseteq Nat, denied' \subseteq Nat, crashes' \in Nat,
         done' \subseteq Nat, refused' \subseteq Nat, ran' \subseteq Nat,
         again' \subseteq Nat, smooth' \in BOOLEAN
  PROVE  WaveTypeOK'
<1>1. DOMAIN members' = {}
  BY NoWaveIsEmpty
<1> QED
  BY <1>1 DEF WaveTypeOK

LEMMA MergedType ==
  ASSUME WaveTypeOK, members # NoWave
  PROVE  Merged \in World
<1>1. DOMAIN members \subseteq 1 .. Len(plan.actions) /\ Len(plan.actions) \in Nat
  BY MembersAre
<1>2. \A i \in DOMAIN members : members[i].world \in World
  BY DEF WaveTypeOK, Member
<1>3. ASSUME NEW k \in Keys
      PROVE  Merged[k] \in Values \cup {Absent}
  <2> DEFINE has == {i \in DOMAIN members : members[i].world[k] # Absent}
  <2>1. CASE has = {}
    BY <2>1 DEF Merged
  <2>2. CASE has # {}
    <3>1. LastOf(has) \in has
      BY <1>1, <2>2, LastOfIs
    <3>2. Merged[k] = members[LastOf(has)].world[k]
      BY <2>2 DEF Merged
    <3> QED
      BY <1>2, <3>1, <3>2 DEF World
  <2> QED
    BY <2>1, <2>2
<1> QED
  BY <1>3 DEF Merged, World

LEMMA StartType ==
  ASSUME WaveTypeOK, StartWave
  PROVE  WaveTypeOK'
<1>1. /\ pc = "executor" /\ HasActionLeft /\ UNCHANGED vars
      /\ members' = [i \in Wave(plan, step) |->
                       [phase |-> "todo", seen |-> world, world |-> world, attempt |-> 1]]
      /\ UNCHANGED <<entry, asked, approved, denied, crashes>>
      /\ UNCHANGED <<done, refused, ran, again, smooth>>
  BY DEF StartWave, Ready, answers, audit
<1>2. /\ plan \in Plan /\ step \in Nat /\ step < Len(plan.actions) /\ world \in World
  BY <1>1 DEF WaveTypeOK, TypeOK, HasActionLeft
<1>3. Wave(plan, step) \subseteq 1 .. Len(plan.actions) /\ Len(plan.actions) \in Nat
  BY <1>2, WaveIs DEF Plan
<1>4. /\ \A i \in 1 .. Len(plan.actions) : MaxAttempts[Act(i)] >= 1
      /\ \A i : Act(i)' = Act(i)
  <2>1. plan.actions \in Seq(Actions)
    BY <1>2 DEF Plan
  <2>2. \A i \in 1 .. Len(plan.actions) : Act(i) \in Actions
    BY <2>1 DEF Act
  <2>3. \A a \in Actions : MaxAttempts[a] >= 1
    BY WaveAssumption
  <2> QED
    BY <1>1, <2>2, <2>3 DEF Act, vars
<1>5. \A i \in DOMAIN members' : members'[i] \in Member /\ members'[i].attempt <= MaxAttempts[Act(i)']
  BY <1>1, <1>2, <1>3, <1>4 DEF Member, Phases
<1>6. TypeOK'
  BY <1>1, TypeStutter DEF WaveTypeOK
<1>7. pc' = "executor" /\ HasActionLeft' /\ DOMAIN members' = Wave(plan', step')
  BY <1>1 DEF vars, HasActionLeft
<1> QED
  BY <1>1, <1>3, <1>5, <1>6, <1>7 DEF WaveTypeOK

LEMMA AsksType ==
  ASSUME WaveTypeOK, NEW i \in DOMAIN members, MemberAsks(i)
  PROVE  WaveTypeOK'
<1>1. /\ pc = "executor" /\ HasActionLeft /\ i \in Nat
      /\ pc' = "waiting" /\ asked' = i /\ members' = NoWave
      /\ UNCHANGED <<world, goal, subgoal, plan, step, status, replanCount, blacklist,
                     failures, explained, lastFailed, succeeded, draft>>
      /\ UNCHANGED <<entry, approved, denied, crashes>>
      /\ ran' = {} /\ UNCHANGED <<done, refused, again, smooth>>
  BY DEF MemberAsks, MayMove, InWave, WaveTypeOK, answers, Restarted
<1>2. TypeOK'
  BY <1>1 DEF WaveTypeOK, TypeOK, HasActionLeft, Places
<1> QED
  BY <1>1, <1>2, NoMembersType DEF WaveTypeOK

LEMMA AnswerType ==
  ASSUME WaveTypeOK, Answer
  PROVE  WaveTypeOK'
<1>1. /\ pc = "waiting" /\ pc' = "executor" /\ asked' = 0 /\ members' = members
      /\ UNCHANGED <<world, goal, subgoal, plan, step, status, replanCount, blacklist,
                     failures, explained, lastFailed, succeeded, draft>>
      /\ UNCHANGED <<entry, crashes, done, refused, ran, again, smooth>>
      /\ approved' \in {approved, approved \cup {asked}}
      /\ denied' \in {denied, denied \cup {asked}}
  BY DEF Answer, audit
<1>2. TypeOK'
  BY <1>1 DEF WaveTypeOK, TypeOK, HasActionLeft, Places
<1>3. members = NoWave
  BY <1>1, MembersAre
<1>4. /\ asked' \in Nat /\ approved' \subseteq Nat /\ denied' \subseteq Nat
  BY <1>1 DEF WaveTypeOK
<1> QED
  BY <1>1, <1>2, <1>3, <1>4, NoMembersType DEF WaveTypeOK

LEMMA FailedAre ==
  /\ Failed \subseteq DOMAIN members /\ Aborting \subseteq Failed
  /\ entry = "ainvoke" => Aborting = Failed
BY DEF Failed, Aborting

LEMMA LeaveType ==
  ASSUME WaveTypeOK, WaveAborts \/ WaveCommits
  PROVE  WaveTypeOK'
<1>1. /\ members # NoWave /\ pc' = "observer" /\ members' = NoWave
      /\ approved' = {} /\ denied' = {}
      /\ UNCHANGED <<entry, asked, crashes, done, refused, ran, again, smooth>>
  BY DEF WaveAborts, WaveCommits, Aborts, Commits, InWave, Leave, audit
<1>2. /\ DOMAIN members \subseteq 1 .. Len(plan.actions) /\ Len(plan.actions) \in Nat
      /\ DOMAIN members # {} /\ \A i \in DOMAIN members : Act(i) \in Actions
  BY <1>1, MembersAre
<1>3. CASE WaveAborts
  <2> DEFINE i == FirstOf(Aborting)
  <2>1. Aborting # {} /\ Aborting \subseteq DOMAIN members
    BY <1>3, FailedAre DEF WaveAborts, Aborts
  <2>2. i \in Aborting
    BY <1>2, <2>1, FirstOfIs
  <2>3. Act(i) \in Actions
    BY <1>2, <2>1, <2>2
  <2>4. /\ status' = "action_failed" /\ lastFailed' = Act(i)
        /\ \/ failures' = [a \in Actions |-> IF a = Act(i) THEN MaxRetries[a] + 1 ELSE 0]
           \/ UNCHANGED failures
        /\ UNCHANGED <<world, goal, subgoal, plan, step, replanCount, blacklist,
                       explained, succeeded, draft>>
    BY <1>3 DEF WaveAborts
  <2> HIDE DEF i
  <2>5. failures' \in [Actions -> Nat]
    BY <2>4, LoopAssumption DEF WaveTypeOK, TypeOK
  <2>6. TypeOK'
    BY <1>1, <2>3, <2>4, <2>5 DEF WaveTypeOK, TypeOK, Places, Statuses
  <2> QED
    BY <1>1, <2>6, NoMembersType DEF WaveTypeOK
<1>4. CASE WaveCommits
  <2>1. /\ world' = Merged /\ step' = LastOf(DOMAIN members)
        /\ succeeded' = succeeded \cup {Act(j) : j \in DOMAIN members \ Failed}
        /\ lastFailed' = IF Failed = {} THEN lastFailed ELSE Act(LastOf(Failed))
        /\ UNCHANGED <<goal, subgoal, plan, status, replanCount, blacklist, failures,
                       explained, draft>>
    BY <1>4 DEF WaveCommits, StepAfter
  <2>2. world' \in World
    BY <1>1, <2>1, MergedType
  <2>3. step' \in Nat
    <3>1. LastOf(DOMAIN members) \in 1 .. Len(plan.actions)
      BY <1>2, LastOfIs
    <3> QED
      BY <1>2, <2>1, <3>1
  <2>4. succeeded' \subseteq Actions
    BY <1>2, <2>1 DEF WaveTypeOK, TypeOK
  <2>5. /\ lastFailed' \in Actions \cup {NoAction}
        /\ status' = "action_failed" => lastFailed' \in Actions
    <3>1. CASE Failed = {}
      BY <2>1, <3>1 DEF WaveTypeOK, TypeOK
    <3>2. CASE Failed # {}
      <4>1. Failed \subseteq 1 .. Len(plan.actions)
        BY <1>2, FailedAre
      <4>2. LastOf(Failed) \in Failed
        BY <1>2, <3>2, <4>1, LastOfIs
      <4>3. Act(LastOf(Failed)) \in Actions
        BY <1>2, <4>2, FailedAre
      <4> QED
        BY <2>1, <3>2, <4>3
    <3> QED
      BY <3>1, <3>2
  <2>6. TypeOK'
    BY <1>1, <2>1, <2>2, <2>3, <2>4, <2>5 DEF WaveTypeOK, TypeOK, Places
  <2> QED
    BY <1>1, <2>6, NoMembersType DEF WaveTypeOK
<1> QED
  BY <1>3, <1>4

\* A wave is only under way where there is something to do.
WaveInv == WaveTypeOK /\ (members # NoWave => ~NothingToDo)

\* No other node runs while a wave is under way.
LEMMA OtherNoWave ==
  ASSUME WaveInv, OtherNode
  PROVE  members = NoWave
<1> SUFFICES ASSUME members # NoWave PROVE FALSE
  OBVIOUS
<1>1. pc = "executor" /\ HasActionLeft /\ ~NothingToDo
  BY MembersAre DEF WaveInv
<1>2. SkipExecution \/ NothingToExecute
  BY <1>1 DEF OtherNode, Planner, Handlers, Observer, Finished, PlanWithoutGoal,
     PlanRaises, PlanRound, HandlersGiveUp, HandlerRaisesIndex, HandlerReplans,
     PolicyTerminates, GoalMissing, SubgoalAchieved, GoalAchieved, GiveUpReplanning,
     NoPlanFound, AbandonAfterFailure, ReplanAfterFailure, ReplanEveryAction,
     ReplanOnDeviation, ContinuePlan, PlanExhausted, AbandonExhausted, OnPlan,
     Advancing, Undecided, Pursuing, Observing
<1> QED
  BY <1>1, <1>2 DEF SkipExecution, NothingToExecute

LEMMA OtherType ==
  ASSUME WaveInv, OtherNode, OutsideWave
  PROVE  WaveTypeOK'
<1>1. TypeOK'
  BY TypePlanner, TypeExecutor, TypeObserver, TypeStutter
  DEF OtherNode, Executor, Finished, WaveInv, WaveTypeOK
<1>2. members = NoWave
  BY OtherNoWave
<1>3. /\ done' \subseteq Nat /\ refused' \subseteq Nat
      /\ ran' \subseteq Nat /\ again' \subseteq Nat
  BY DEF OutsideWave, WaveInv, WaveTypeOK
<1> QED
  BY <1>1, <1>2, <1>3, NoMembersType DEF OutsideWave, WaveInv, WaveTypeOK, answers

LEMMA CrashType ==
  ASSUME WaveTypeOK, Crash
  PROVE  WaveTypeOK'
<1>1. TypeOK'
  BY TypeStutter DEF Crash, WaveTypeOK
<1> QED
  BY <1>1, NoMembersType DEF Crash, WaveTypeOK, answers, Restarted

LEMMA WaveInvStep ==
  ASSUME WaveInv, [WaveNext]_waveVars
  PROVE  WaveInv'
<1>1. CASE UNCHANGED waveVars
  <2>1. TypeOK'
    BY <1>1, TypeStutter DEF waveVars, WaveInv, WaveTypeOK
  <2>2. /\ UNCHANGED <<entry, members, asked, approved, denied, crashes>>
        /\ UNCHANGED <<done, refused, ran, again, smooth>>
        /\ UNCHANGED <<pc, plan, step, status>>
    BY <1>1 DEF waveVars, answers, audit, vars
  <2>3. /\ HasActionLeft' = HasActionLeft /\ NothingToDo' = NothingToDo
        /\ \A i : Act(i)' = Act(i)
    BY <2>2 DEF HasActionLeft, NothingToDo, Act
  <2> QED
    BY <2>1, <2>2, <2>3 DEF WaveInv, WaveTypeOK
<1>2. CASE OtherNode /\ OutsideWave
  BY <1>2, OtherType, OtherNoWave DEF WaveInv, OutsideWave
<1>3. CASE StartWave
  <2>1. NothingToDo' = NothingToDo /\ ~NothingToDo
    BY <1>3 DEF StartWave, Ready, vars, NothingToDo
  <2> QED
    BY <1>3, <2>1, StartType DEF WaveInv
<1>4. ASSUME NEW i \in DOMAIN members,
             MemberBlocked(i) \/ MemberDenied(i) \/ MemberReturns(i) \/ MemberRaises(i)
      PROVE  WaveInv'
  <2>1. UNCHANGED vars /\ members # NoWave
    BY <1>4 DEF MemberBlocked, MemberDenied, MemberReturns, MemberRaises, NotPerformed,
       MayPerform, MayMove, InWave
  <2>2. NothingToDo' = NothingToDo
    BY <2>1 DEF vars, NothingToDo
  <2> QED
    BY <1>4, <2>1, <2>2, MemberTypeStep DEF WaveInv
<1>5. ASSUME NEW i \in DOMAIN members, MemberAsks(i)
      PROVE  WaveInv'
  BY <1>5, AsksType DEF WaveInv, MemberAsks
<1>6. CASE Answer
  <2>1. members = NoWave /\ members' = members
    BY <1>6, MembersAre DEF Answer, WaveInv
  <2> QED
    BY <1>6, <2>1, AnswerType DEF WaveInv
<1>7. CASE WaveAborts \/ WaveCommits
  BY <1>7, LeaveType DEF WaveInv, WaveAborts, WaveCommits, Leave
<1>8. CASE Crash
  BY <1>8, CrashType DEF WaveInv, Crash
<1> QED
  BY <1>1, <1>2, <1>3, <1>4, <1>5, <1>6, <1>7, <1>8 DEF WaveNext, MemberMoves

LEMMA WaveInvariant == WaveSpec => []WaveInv
<1>1. WaveInit => WaveInv
  BY WaveTypeInit DEF WaveInv, WaveInit
<1> QED
  BY <1>1, WaveInvStep, PTL DEF WaveSpec

\* The node's locals keep their types; what is under way is always the wave of the
\* current plan and step, and no retry goes past its ActionQos.
THEOREM WaveTypeCorrect == WaveSpec => []WaveTypeOK
BY WaveInvariant, PTL DEF WaveInv
-----------------------------------------------------------------------------
(* Steps counted were carried out. *)

OnPlace == pc \in {"executor", "waiting", "observer"}

\* The indices StepsWereDone allows to be counted.
Carried == IF entry = "ainvoke" THEN done ELSE done \cup refused

\* Where the plan is going to be run on without the planner.
GoesOn == pc \in {"executor", "waiting"} \/ (pc = "observer" /\ status # "action_failed")

Back(r) == r \in DOMAIN members /\ members[r].phase \in {"done", "rejected"}

\* StepsWereDone is not inductive: the steps before the wave have to be known done
\* all along, and so has every member that says it is; and what ran since the node
\* was last left half-way is counted or a member that is back.
StepsInv ==
  /\ OnPlace /\ plan # NoPlan => 1 .. step \subseteq Carried
  /\ \A i \in DOMAIN members :
       /\ members[i].phase = "done" => i \in done
       /\ members[i].phase = "rejected" => i \in refused
  /\ GoesOn /\ plan # NoPlan => \A r \in ran : r <= step \/ Back(r)
  /\ again = {}

\* The planner begins a plan or gives none; what follows never runs a stale one.
LEMMA StepsOutside ==
  ASSUME WaveInv, StepsInv, OtherNode, OutsideWave
  PROVE  StepsInv'
<1>1. /\ entry' = entry /\ again' = again /\ again = {}
      /\ members = NoWave /\ members' = members /\ DOMAIN members = {} /\ DOMAIN members' = {}
  BY OtherNoWave, NoWaveIsEmpty DEF OutsideWave, StepsInv
<1>2. CASE Planner \/ Handlers
  <2>1. step' = 0 \/ pc' \in {"stuck", "raised"}
    BY <1>2 DEF Planner, Handlers, PlanWithoutGoal, PlanRaises, PlanRound, HandlersGiveUp,
       HandlerRaisesIndex, HandlerReplans, Return, AskAgain, Raise
  <2>2. 1 .. 0 = {}
    OBVIOUS
  <2>3. pc \in {"planner", "stuck"}
    BY <1>2 DEF Planner, Handlers, PlanWithoutGoal, PlanRaises, PlanRound, HandlersGiveUp,
       HandlerRaisesIndex, HandlerReplans
  <2>4. ran' = {}
    BY <2>3 DEF OutsideWave
  <2> QED
    BY <1>1, <2>1, <2>2, <2>4 DEF StepsInv, OnPlace
<1>3. CASE SkipExecution \/ NothingToExecute \/ ContinuePlan
  <2>1. /\ pc \in {"executor", "observer"} /\ UNCHANGED <<plan, step>>
        /\ pc = "executor" \/ status' = status
    BY <1>3 DEF SkipExecution, NothingToExecute, ContinuePlan, OnPlan, Advancing,
       Undecided, Pursuing, Observing, GoTo
  <2>4. OnPlace /\ UNCHANGED <<done, refused, ran>>
    BY <2>1 DEF OnPlace, OutsideWave
  <2>2. GoesOn' => GoesOn
    BY <1>3 DEF SkipExecution, NothingToExecute, ContinuePlan, OnPlan, Advancing,
       Undecided, Pursuing, Observing, GoTo, GoesOn
  <2>3. Carried' = Carried
    BY <1>1, <2>4 DEF Carried
  <2>5. OnPlace /\ plan # NoPlan => 1 .. step' \subseteq Carried'
    BY <2>1, <2>3 DEF StepsInv
  <2>6. GoesOn' /\ plan' # NoPlan => \A r \in ran' : r <= step'
    BY <1>1, <2>1, <2>2, <2>4 DEF StepsInv, Back
  <2> QED
    BY <1>1, <2>1, <2>4, <2>5, <2>6 DEF StepsInv
<1>4. CASE Observer /\ ~ContinuePlan
  <2>1. pc' \in {"planner", "end"}
    BY <1>4 DEF Observer, PolicyTerminates, GoalMissing, SubgoalAchieved, GoalAchieved,
       GiveUpReplanning, NoPlanFound, AbandonAfterFailure, ReplanAfterFailure,
       ReplanEveryAction, ReplanOnDeviation, PlanExhausted, AbandonExhausted,
       Finish, GoTo
  <2> QED
    BY <1>1, <2>1 DEF StepsInv, OnPlace, GoesOn
<1>5. CASE Finished
  <2>1. pc' \in {"end", "raised"}
    BY <1>5 DEF Finished, vars
  <2> QED
    BY <1>1, <2>1 DEF StepsInv, OnPlace, GoesOn
<1> QED
  BY <1>2, <1>3, <1>4, <1>5 DEF OtherNode

\* What a member's step does to the audit.
LEMMA StepsMoved ==
  ASSUME WaveInv, NEW i \in DOMAIN members,
         MemberBlocked(i) \/ MemberDenied(i) \/ MemberReturns(i) \/ MemberRaises(i)
  PROVE  \E ph, w, n :
           /\ Record(i, ph, w, n)
           /\ ph = "done" => i \in done'
           /\ ph = "rejected" => i \in refused'
           /\ done \subseteq done' /\ refused \subseteq refused'
           /\ \/ ran' = ran /\ again' = again
              \/ /\ ph \in {"done", "rejected"}
                 /\ ran' = ran \cup {i} /\ again' = again \cup (ran \cap {i})
<1>1. CASE MemberBlocked(i) \/ MemberDenied(i)
  <2>1. PICK ph \in {"blocked", "denied"} : NotPerformed(i, ph)
    BY <1>1 DEF MemberBlocked, MemberDenied
  <2> QED
    BY <2>1 DEF NotPerformed
<1>2. CASE MemberReturns(i)
  <2>1. PICK update \in Outcomes[Act(i)] :
          LET after == Apply(members[i].world, update)
              accepted == ~Rejects(Act(i), after)
          IN  /\ Record(i, IF accepted THEN "done" ELSE "rejected", after,
                        members[i].attempt)
              /\ done' = IF accepted THEN done \cup {i} ELSE done
              /\ refused' = IF accepted THEN refused ELSE refused \cup {i}
    BY <1>2 DEF MemberReturns
  <2>2. ran' = ran \cup {i} /\ again' = again \cup (ran \cap {i})
    BY <1>2 DEF MemberReturns
  <2>3. CASE Rejects(Act(i), Apply(members[i].world, update))
    BY <2>1, <2>2, <2>3
  <2>4. CASE ~Rejects(Act(i), Apply(members[i].world, update))
    BY <2>1, <2>2, <2>4
  <2> QED
    BY <2>3, <2>4
<1>3. CASE MemberRaises(i)
  <2>1. /\ UNCHANGED <<done, refused, ran, again>>
        /\ \E ph \in {"todo", "raised"} : \E w, n : Record(i, ph, w, n)
    BY <1>3 DEF MemberRaises
  <2> QED
    BY <2>1
<1> QED
  BY <1>1, <1>2, <1>3

\* A member that moves is not back yet and lies after the step: it did not run.
LEMMA StepsMember ==
  ASSUME WaveInv, StepsInv, NEW i \in DOMAIN members,
         MemberBlocked(i) \/ MemberDenied(i) \/ MemberReturns(i) \/ MemberRaises(i)
  PROVE  StepsInv'
<1>1. /\ UNCHANGED <<pc, plan, step, status, entry>> /\ members # NoWave
      /\ members[i].phase = "todo"
  BY DEF MemberBlocked, MemberDenied, MemberReturns, MemberRaises, NotPerformed, vars,
     MayPerform, MayMove, InWave
<1>2. PICK ph, w, n :
        /\ Record(i, ph, w, n)
        /\ ph = "done" => i \in done'
        /\ ph = "rejected" => i \in refused'
        /\ done \subseteq done' /\ refused \subseteq refused'
        /\ \/ ran' = ran /\ again' = again
           \/ /\ ph \in {"done", "rejected"}
              /\ ran' = ran \cup {i} /\ again' = again \cup (ran \cap {i})
  BY StepsMoved
<1>3. /\ pc = "executor" /\ plan \in Plan /\ step \in Nat /\ Len(plan.actions) \in Nat
      /\ DOMAIN members = Wave(plan, step) /\ step < Len(plan.actions)
      /\ members[i] \in Member
  BY <1>1, MembersAre DEF WaveInv
<1>4. plan # NoPlan
  BY <1>3, NoPlanAssumption
<1>5. i \notin ran
  <2>1. i \in step + 1 .. Len(plan.actions)
    BY <1>3, WaveIs
  <2>2. ~(i <= step) /\ ~Back(i)
    BY <1>1, <1>3, <2>1 DEF Back
  <2> QED
    BY <1>3, <1>4, <2>2 DEF StepsInv, GoesOn
<1>6. /\ DOMAIN members' = DOMAIN members
      /\ members'[i].phase = ph
      /\ \A j \in DOMAIN members : j # i => members'[j].phase = members[j].phase
  <2>1. DOMAIN members' = DOMAIN members
    BY <1>2 DEF Record
  <2>2. members'[i].phase = ph
    BY <1>2, <1>3 DEF Record, Member
  <2>3. \A j \in DOMAIN members : members[j] \in Member
    BY DEF WaveInv, WaveTypeOK
  <2>4. ASSUME NEW j \in DOMAIN members, j # i
        PROVE  members'[j].phase = members[j].phase
    <3>1. \/ members'[j] = [members[j] EXCEPT !.seen = w, !.world = w]
          \/ members'[j] = members[j]
      BY <1>2, <2>4 DEF Record
    <3> QED
      BY <2>3, <3>1 DEF Member
  <2> QED
    BY <2>1, <2>2, <2>4
<1>7. ASSUME NEW j \in DOMAIN members'
      PROVE  /\ members'[j].phase = "done" => j \in done'
             /\ members'[j].phase = "rejected" => j \in refused'
  <2>1. CASE j = i
    BY <1>2, <1>6, <2>1
  <2>2. CASE j # i
    BY <1>2, <1>6, <2>2 DEF StepsInv
  <2> QED
    BY <2>1, <2>2
<1>8. again' = {}
  BY <1>2, <1>5 DEF StepsInv
<1>9. \A r \in ran' : r <= step' \/ Back(r)'
  <2>1. ASSUME NEW r \in ran' PROVE r <= step \/ Back(r)'
    <3>1. CASE r = i /\ ph \in {"done", "rejected"}
      BY <1>6, <3>1 DEF Back
    <3>2. CASE r # i /\ r \in ran
      <4>1. r <= step \/ Back(r)
        BY <1>3, <1>4, <3>2 DEF StepsInv, GoesOn
      <4> QED
        BY <1>6, <3>2, <4>1 DEF Back
    <3> QED
      BY <1>2, <1>5, <2>1, <3>1, <3>2
  <2> QED
    BY <1>1, <2>1
<1>10. 1 .. step' \subseteq Carried'
  BY <1>1, <1>2, <1>3, <1>4 DEF StepsInv, OnPlace, Carried
<1> QED
  BY <1>7, <1>8, <1>9, <1>10 DEF StepsInv

\* All members of a concurrent wave are done when it commits, those of an invoked one
\* done or rejected, and they are what the step is moved past.
LEMMA StepsCommit ==
  ASSUME WaveInv, StepsInv, WaveCommits
  PROVE  StepsInv'
<1>1. /\ members # NoWave /\ AllBack /\ Aborting = {}
      /\ step' = LastOf(DOMAIN members) /\ members' = NoWave
      /\ UNCHANGED <<plan, entry, done, refused, ran, again>>
  BY DEF WaveCommits, Commits, InWave, Leave, StepAfter, audit
<1>2. /\ plan \in Plan /\ step \in Nat /\ Len(plan.actions) \in Nat
      /\ OnPlace /\ GoesOn
      /\ step < Len(plan.actions) /\ DOMAIN members = Wave(plan, step)
      /\ DOMAIN members \subseteq 1 .. Len(plan.actions) /\ DOMAIN members # {}
      /\ \A i \in DOMAIN members : members[i] \in Member
  BY <1>1, MembersAre DEF WaveInv, OnPlace, GoesOn
<1>3. /\ step' \in DOMAIN members /\ \A i \in DOMAIN members : i <= step'
  BY <1>1, <1>2, LastOfIs
<1>4. step + 1 .. step' \subseteq DOMAIN members
  BY <1>2, <1>3, WaveIs
<1>5. plan # NoPlan /\ step' \in Nat
  BY <1>2, <1>3, NoPlanAssumption
<1>6. DOMAIN members \subseteq Carried
  <2>1. \A i \in DOMAIN members : members[i].phase \in {"done"} \cup Failing
    BY <1>1, <1>2 DEF AllBack, Member, Phases
  <2>2. \A i \in DOMAIN members \ Failed : members[i].phase = "done"
    BY <2>1 DEF Failed
  <2>3. CASE entry = "ainvoke"
    BY <1>1, <2>2, <2>3, FailedAre DEF Carried, StepsInv
  <2>4. CASE entry # "ainvoke"
    <3>1. entry = "invoke"
      BY <2>4, WaveAssumption DEF WaveInv, WaveTypeOK
    <3>2. \A i \in Failed : members[i].phase = "rejected"
      BY <1>1, <3>1 DEF Aborting
    <3> QED
      BY <2>2, <2>4, <3>2 DEF Carried, StepsInv
  <2> QED
    BY <2>3, <2>4
<1>7. 1 .. step' \subseteq Carried'
  <2>1. Carried' = Carried
    BY <1>1 DEF Carried
  <2>2. 1 .. step \subseteq Carried
    BY <1>2, <1>5 DEF StepsInv
  <2>3. \A i \in 1 .. step' : i \in 1 .. step \/ i \in step + 1 .. step'
    BY <1>2, <1>5
  <2> QED
    BY <1>4, <1>6, <2>1, <2>2, <2>3
<1>8. \A r \in ran : r <= step'
  <2>1. ran \subseteq Nat
    BY DEF WaveInv, WaveTypeOK
  <2>2. step < step'
    <3>1. step + 1 \in DOMAIN members
      BY <1>2, WaveIs
    <3>2. step + 1 <= step'
      BY <1>3, <3>1
    <3> QED
      BY <1>2, <1>5, <3>2
  <2>3. ASSUME NEW r \in ran PROVE r <= step'
    <3>1. r <= step \/ r \in DOMAIN members
      BY <1>2, <1>5 DEF StepsInv, Back
    <3>2. CASE r <= step
      BY <1>2, <1>5, <2>1, <2>2, <3>2
    <3> QED
      BY <1>3, <3>1, <3>2
  <2> QED
    BY <2>3
<1> QED
  BY <1>1, <1>7, <1>8, NoWaveIsEmpty DEF StepsInv

LEMMA StepsStep ==
  ASSUME WaveInv, StepsInv, [WaveNext]_waveVars
  PROVE  StepsInv'
<1>1. ASSUME UNCHANGED <<plan, step, entry, done, refused, again>>, OnPlace' => OnPlace,
             members' = NoWave,
             ran' = {} \/ (ran' = ran /\ members = NoWave /\ (GoesOn' => GoesOn)) \/ ~GoesOn'
      PROVE  StepsInv'
  <2>1. Carried' = Carried
    BY <1>1 DEF Carried
  <2>2. OnPlace' /\ plan' # NoPlan => 1 .. step' \subseteq Carried'
    BY <1>1, <2>1 DEF StepsInv
  <2>3. GoesOn' /\ plan' # NoPlan => \A r \in ran' : r <= step'
    BY <1>1, NoWaveIsEmpty DEF StepsInv, Back
  <2> QED
    BY <1>1, <2>2, <2>3, NoWaveIsEmpty DEF StepsInv
<1>2. CASE UNCHANGED waveVars
  <2>1. /\ UNCHANGED <<pc, plan, step, status, entry, members>>
        /\ UNCHANGED <<done, refused, ran, again>>
    BY <1>2 DEF waveVars, vars, audit
  <2>2. /\ OnPlace' = OnPlace /\ GoesOn' = GoesOn /\ Carried' = Carried
        /\ \A r : Back(r)' = Back(r)
    BY <2>1 DEF OnPlace, GoesOn, Carried, Back
  <2> QED
    BY <2>1, <2>2 DEF StepsInv
<1>3. CASE StartWave
  <2>1. /\ UNCHANGED <<pc, plan, step, status, entry>> /\ members = NoWave
        /\ UNCHANGED <<done, refused, ran, again>>
        /\ \A i \in DOMAIN members' : members'[i].phase = "todo"
    BY <1>3 DEF StartWave, vars, audit
  <2>2. OnPlace' = OnPlace /\ GoesOn' = GoesOn /\ Carried' = Carried
    BY <2>1 DEF OnPlace, GoesOn, Carried
  <2>3. GoesOn /\ plan # NoPlan => \A r \in ran : r <= step
    BY <2>1, NoWaveIsEmpty DEF StepsInv, Back
  <2> QED
    BY <2>1, <2>2, <2>3 DEF StepsInv
<1>4. ASSUME NEW i \in DOMAIN members, MemberAsks(i)
      PROVE  StepsInv'
  BY <1>1, <1>4 DEF MemberAsks, MayMove, InWave, OnPlace, Restarted
<1>5. CASE Answer
  <2>1. members = NoWave
    BY <1>5, MembersAre DEF Answer, WaveInv
  <2> QED
    BY <1>1, <1>5, <2>1 DEF Answer, OnPlace, GoesOn, audit
<1>6. CASE WaveAborts
  <2>1. ~GoesOn'
    BY <1>6 DEF WaveAborts, Leave, GoesOn
  <2> QED
    BY <1>1, <1>6, <2>1 DEF WaveAborts, Aborts, InWave, Leave, OnPlace, audit
<1>7. CASE Crash
  BY <1>1, <1>7 DEF Crash, InWave, OnPlace, Restarted, vars
<1> QED
  BY <1>2, <1>3, <1>4, <1>5, <1>6, <1>7, StepsOutside, StepsMember, StepsCommit
  DEF WaveNext, MemberMoves

\* No step is counted that was not carried out since the plan was made (or, invoked,
\* was rejected), not by a wave that failed, was interrupted for a human, or died
\* half-way; and none is carried out again unless the node was left in between.
THEOREM CountedStepsWereDone == WaveSpec => []StepsWereDone
<1>1. WaveInit => StepsInv
  BY NoWaveIsEmpty DEF WaveInit, Init, StepsInv, OnPlace, GoesOn
<1>2. StepsInv => StepsWereDone
  BY DEF StepsInv, StepsWereDone, OnPlace, Carried
<1> QED
  BY <1>1, <1>2, StepsStep, WaveInvariant, PTL DEF WaveSpec
-----------------------------------------------------------------------------
(* Members find their preconditions. *)

\* Its predictions are what its actions declare, from the second action on.
Predicted(p) ==
  /\ p \in Plan /\ Len(p.expected) = Len(p.actions)
  /\ \A i \in 2 .. Len(p.actions) :
       /\ Satisfies(p.expected[i - 1], Pre[p.actions[i]])
       /\ p.expected[i] = Apply(p.expected[i - 1], Eff[p.actions[i]])

\* In world b the rest of plan p after its step s goes as predicted, as far as the
\* keys of actions show.
From(b, p, s) ==
  /\ Satisfies(b, Pre[p.actions[s + 1]])
  /\ \A k \in ActionKeys : p.expected[s + 1][k] = Apply(b, Eff[p.actions[s + 1]])[k]

\* A plan the search returns is predicted, and goes as predicted where it starts.
Traced(start, p) ==
  /\ Predicted(p)
  /\ Len(p.actions) > 0 => /\ From(start, p, 0)
                           /\ p.expected[1] = Apply(start, Eff[p.actions[1]])

LEMMA ActionKeysAre == ActionKeys \subseteq Keys
BY DEF ActionKeys, Mentioned

LEMMA SearchTraced ==
  ASSUME NEW start, NEW conditions, NEW barred,
         NEW p \in Search(start, conditions, barred)
  PROVE  p = NoPlan \/ Traced(start, p)
<1>1. CASE p = EmptyPlan
  <2>1. Len(p.actions) = 0 /\ Len(p.expected) = 0 /\ p \in Plan
    BY <1>1, EmptyPlanType DEF EmptyPlan
  <2>2. 2 .. 0 = {}
    OBVIOUS
  <2> QED
    BY <2>1, <2>2 DEF Traced, Predicted
<1>2. ASSUME NEW allowed, IsPlan(start, conditions, allowed, p)
      PROVE  Traced(start, p)
  <2>1. /\ p \in Plan /\ Len(p.expected) = Len(p.actions) /\ Len(p.actions) \in Nat
        /\ \A i \in 1 .. Len(p.actions) :
             /\ Satisfies(Before(start, p, i), Pre[p.actions[i]])
             /\ p.expected[i] = Apply(Before(start, p, i), Eff[p.actions[i]])
    BY <1>2 DEF IsPlan, Plan
  <2>2. ASSUME NEW i \in 2 .. Len(p.actions)
        PROVE  /\ Satisfies(p.expected[i - 1], Pre[p.actions[i]])
               /\ p.expected[i] = Apply(p.expected[i - 1], Eff[p.actions[i]])
    <3>1. i \in 1 .. Len(p.actions) /\ Before(start, p, i) = p.expected[i - 1]
      BY <2>1 DEF Before
    <3> QED
      BY <2>1, <3>1
  <2>3. Len(p.actions) > 0 => /\ Satisfies(start, Pre[p.actions[1]])
                              /\ p.expected[1] = Apply(start, Eff[p.actions[1]])
    BY <2>1 DEF Before
  <2>4. 0 + 1 = 1
    OBVIOUS
  <2> QED
    BY <2>1, <2>2, <2>3, <2>4 DEF Traced, Predicted, From
<1>3. CASE p # EmptyPlan
  <2>1. PICK allowed : p \in SearchOutcomes(start, conditions, allowed)
    BY <1>3 DEF Search
  <2> QED
    BY <1>2, <2>1 DEF SearchOutcomes, PlansOver
<1> QED
  BY <1>1, <1>3

LEMMA CoreTraced ==
  ASSUME NEW w \in World, NEW g \in Goals, g.mode # "none", NEW r \in CoreOutcomes(w, g)
  PROVE  r.plan = NoPlan \/ Traced(w, r.plan)
<1>1. ASSUME NEW i, NEW p \in SubgoalSearch(w, g, i)
      PROVE  p = NoPlan \/ Traced(w, p)
  BY SearchTraced DEF SubgoalSearch
<1>2. g.mode \in {"single", "sequential", "any"}
  BY DEF Goals, Modes
<1>3. CASE g.mode = "single"
  BY <1>1, <1>3 DEF CoreOutcomes, SingleOutcomes
<1>4. CASE g.mode = "sequential"
  BY <1>1, <1>4 DEF CoreOutcomes, SequentialOutcomes
<1>5. CASE g.mode = "any"
  BY <1>1, <1>5 DEF CoreOutcomes, AnyOutcomes
<1> QED
  BY <1>2, <1>3, <1>4, <1>5

\* One action further.
LEMMA FromNext ==
  ASSUME NEW p, Predicted(p), NEW s \in Nat, s + 1 < Len(p.actions), NEW b,
         \A k \in ActionKeys : b[k] = p.expected[s + 1][k]
  PROVE  From(b, p, s + 1)
<1>1. /\ p \in Plan /\ Len(p.actions) \in Nat
      /\ s + 2 \in 2 .. Len(p.actions) /\ (s + 2) - 1 = s + 1 /\ (s + 1) + 1 = s + 2
  BY DEF Predicted, Plan
<1>2. /\ Satisfies(p.expected[s + 1], Pre[p.actions[s + 2]])
      /\ p.expected[s + 2] = Apply(p.expected[s + 1], Eff[p.actions[s + 2]])
  BY <1>1 DEF Predicted
<1>3. p.actions[s + 2] \in Actions
  <2>1. p.actions \in Seq(Actions) /\ s + 2 \in 1 .. Len(p.actions)
    BY <1>1 DEF Plan
  <2> QED
    BY <2>1
<1>4. Mentioned(Pre[p.actions[s + 2]]) \subseteq ActionKeys
  BY <1>3 DEF ActionKeys
<1>5. \A k \in ActionKeys :
        Apply(p.expected[s + 1], Eff[p.actions[s + 2]])[k] = Apply(b, Eff[p.actions[s + 2]])[k]
  BY ActionKeysAre DEF Apply
<1> QED
  BY <1>1, <1>2, <1>4, <1>5 DEF From, Satisfies

\* The heart of it: a step that depends on none before it finds its preconditions
\* already where they begin, since nothing on the way brings them about.
LEMMA FreeIsReady ==
  ASSUME NEW p, Predicted(p), NEW s \in Nat, NEW b, From(b, p, s),
         NEW j \in s + 1 .. Len(p.actions), FreeOfWave(p, s, j)
  PROVE  Satisfies(b, Pre[p.actions[j]])
<1> DEFINE at(i) == IF i = s THEN b ELSE p.expected[i]
<1>1. p \in Plan /\ Len(p.actions) \in Nat /\ p.actions \in Seq(Actions) /\ j \in Nat
  BY DEF Predicted, Plan
<1>2. \A i \in 1 .. Len(p.actions) : p.actions[i] \in Actions
  BY <1>1
<1>3. ASSUME NEW i \in s + 1 .. j
      PROVE  /\ Satisfies(at(i - 1), Pre[p.actions[i]])
             /\ \A k \in ActionKeys : at(i)[k] = Apply(at(i - 1), Eff[p.actions[i]])[k]
  <2>1. CASE i = s + 1
    <3>1. i - 1 = s /\ i # s
      BY <2>1
    <3> QED
      BY <2>1, <3>1 DEF From
  <2>2. CASE i # s + 1
    <3>1. i \in 2 .. Len(p.actions) /\ i # s /\ i - 1 # s
      BY <1>1, <2>2
    <3> QED
      BY <3>1 DEF Predicted
  <2> QED
    BY <2>1, <2>2
<1> HIDE DEF at
<1>4. at(s) = b
  BY DEF at
<1>5. ASSUME NEW k \in Mentioned(Pre[p.actions[j]])
      PROVE  b[k] = Pre[p.actions[j]][k]
  <2> DEFINE v == Pre[p.actions[j]][k]
             Q == {i \in s + 1 .. j - 1 : Produces(p.actions[i], k, v)}
             T == {i \in s .. j - 1 : at(i)[k] = v}
  <2>1. p.actions[j] \in Actions /\ k \in ActionKeys /\ k \in Keys /\ v # Absent
    BY <1>1, <1>2 DEF ActionKeys, Mentioned
  <2>2. Q = {}
    <3> SUFFICES ASSUME Q # {} PROVE FALSE
      OBVIOUS
    <3>1. Q \in SUBSET (1 .. j)
      BY <1>1
    <3>2. PICK m \in Q : \A i \in Q : i <= m
      BY <1>1, <3>1, HasLast
    <3>3. m \in s + 1 .. j - 1 /\ Produces(p.actions[m], k, v) /\ m < j
      BY <1>1, <3>2
    <3>4. ASSUME NEW i \in m + 1 .. j - 1, Produces(p.actions[i], k, v)
          PROVE  FALSE
      <4>1. i \in Q
        BY <1>1, <3>3, <3>4
      <4> QED
        BY <1>1, <3>2, <3>3, <4>1
    <3>5. DependsOn(p, j, m)
      BY <3>3, <3>4 DEF DependsOn
    <3> QED
      BY <3>3, <3>5 DEF FreeOfWave
  <2>3. T \in SUBSET Nat /\ j - 1 \in T
    <3>1. Satisfies(at(j - 1), Pre[p.actions[j]])
      BY <1>1, <1>3
    <3> QED
      BY <1>1, <3>1 DEF Satisfies
  <2>4. PICK m \in T : \A i \in T : m <= i
    BY <2>3, HasFirst
  <2>5. CASE m = s
    BY <1>4, <2>4, <2>5
  <2>6. CASE m # s
    <3>1. m \in s + 1 .. j - 1 /\ m \in s + 1 .. j /\ m - 1 \in s .. j - 1 /\ ~(m <= m - 1)
      BY <1>1, <2>4, <2>6
    <3>2. Apply(at(m - 1), Eff[p.actions[m]])[k] = v
      BY <1>3, <2>1, <2>4, <3>1
    <3>3. CASE Eff[p.actions[m]][k] # Absent
      <4>1. Produces(p.actions[m], k, v)
        BY <2>1, <3>2, <3>3 DEF Apply, Produces
      <4> QED
        BY <2>2, <3>1, <4>1
    <3>4. CASE Eff[p.actions[m]][k] = Absent
      <4>1. at(m - 1)[k] = v
        BY <2>1, <3>2, <3>4 DEF Apply
      <4>2. m - 1 \in T
        BY <3>1, <4>1
      <4> QED
        BY <2>4, <3>1, <4>2
    <3> QED
      BY <3>3, <3>4
  <2> QED
    BY <2>5, <2>6
<1> QED
  BY <1>5 DEF Satisfies

Steered == Active.strategy # "never"

\* What a member under way stands on. Concurrently, one that has not begun stands on
\* the snapshot; invoked, on what the last member done left, f being the next one.
MembersStand ==
  /\ \A i \in DOMAIN members : members[i].attempt >= 1
  /\ entry = "ainvoke" =>
       \A i \in DOMAIN members :
         members[i].phase = "todo" /\ members[i].attempt = 1 => members[i].world = world
  /\ entry = "invoke" /\ smooth /\ Steered /\ members # NoWave =>
       \E f \in Nat :
         /\ f > step
         /\ \A i \in DOMAIN members :
              /\ i < f => members[i].phase = "done"
              /\ i >= f => /\ members[i].phase = "todo" /\ members[i].attempt = 1
                           /\ From(members[i].world, plan, f - 1)

\* MembersReady is not inductive: the plan has to be a predicted one, and the world
\* of a wave one in which the rest of it goes as predicted.
StandInv ==
  /\ pc # "stuck"
  /\ plan # NoPlan => Predicted(plan)
  /\ pc = "observer" /\ HasActionLeft /\ status \notin {"no_plan", "action_failed"}
       => step > 0
  /\ pc \in {"executor", "waiting"} /\ HasActionLeft /\ Steered => From(world, plan, step)
  /\ MembersStand

LEMMA StandElsewhere ==
  ASSUME pc' \in {"planner", "end", "raised"}, plan' # NoPlan => Predicted(plan'),
         members' = NoWave
  PROVE  StandInv'
BY NoWaveIsEmpty DEF StandInv, MembersStand

LEMMA PredictedStays ==
  ASSUME StandInv, plan' \in {plan, NoPlan}
  PROVE  plan' # NoPlan => Predicted(plan')
BY DEF StandInv

LEMMA StandAfterPlanner ==
  ASSUME MaxStuck = 0, Resolved = Nothing, WaveInv, StandInv, Planner, members' = NoWave
  PROVE  StandInv'
<1>1. CASE PlanWithoutGoal
  BY <1>1, NoWaveIsEmpty DEF PlanWithoutGoal, StandInv, MembersStand, HasActionLeft
<1>2. CASE PlanRaises
  BY <1>2, StandElsewhere, PredictedStays DEF PlanRaises, Raise
<1>3. CASE PlanRound
  <2>1. PICK reading \in SensorReadings :
          \E r \in CoreOutcomes(View(Apply(world, reading)), goal) :
             Return(r, Apply(world, reading), goal)
    BY <1>3 DEF PlanRound
  <2>2. PICK r \in CoreOutcomes(View(Apply(world, reading)), goal) :
             Return(r, Apply(world, reading), goal)
    BY <2>1
  <2>3. Apply(world, reading) \in World /\ goal \in Goals /\ goal.mode # "none"
    BY <1>3, ApplyType, LoopAssumption DEF PlanRound, WaveInv, WaveTypeOK, TypeOK
  <2>4. ASSUME NEW w \in World
        PROVE  View(w) = w
    BY DEF View, Nothing, World
  <2>5. r.plan = NoPlan \/ Traced(Apply(world, reading), r.plan)
    BY <2>3, <2>4, CoreTraced
  <2>6. /\ pc' = "executor" /\ plan' = r.plan /\ step' = 0
        /\ world' = Apply(world, reading)
    BY <2>2 DEF Return
  <2>7. /\ plan' # NoPlan => Predicted(plan')
        /\ HasActionLeft' => From(world', plan', step')
    BY <2>5, <2>6 DEF Traced, HasActionLeft
  <2> QED
    BY <2>6, <2>7, NoWaveIsEmpty DEF StandInv, MembersStand
<1> QED
  BY <1>1, <1>2, <1>3 DEF Planner

\* A world that agrees with the prediction on the compared keys goes on as predicted.
LEMMA StandToContinue ==
  ASSUME WaveInv, StandInv, ContinuePlan, Steered
  PROVE  From(world, plan, step)
<1>1. /\ OnPlan /\ HasActionLeft /\ pc = "observer"
      /\ status \notin {"no_plan", "action_failed"}
      /\ goal.mode # "none" /\ ~PastLastSubgoal
  BY DEF ContinuePlan, OnPlan, Advancing, Undecided, Pursuing, Observing
<1>2. step > 0 /\ step \in Nat /\ plan \in Plan /\ Predicted(plan)
  BY <1>1 DEF StandInv, WaveInv, WaveTypeOK, TypeOK, HasActionLeft
<1>3. step < Len(plan.actions) /\ Len(plan.expected) = Len(plan.actions)
  BY <1>1, <1>2 DEF HasActionLeft, Predicted
<1>4. step \in DOMAIN plan.expected
  BY <1>2, <1>3 DEF Plan
<1>5. Active \in GoalSpec
  <2>1. /\ goal.mode \in {"single", "sequential", "any"}
        /\ goal.goals \in Seq(GoalSpec) /\ Len(goal.goals) > 0
        /\ subgoal \in Nat \ {0}
    BY <1>1 DEF WaveInv, WaveTypeOK, TypeOK, Goals, Modes
  <2> QED
    BY <1>1, <2>1 DEF Active, PastLastSubgoal
<1>6. Active.strategy = "on_deviation"
  BY <1>1, <1>5 DEF OnPlan, GoalSpec, Strategies, Steered
<1>7. \A k \in PlanningKeys(Active.conditions) : world[k] = plan.expected[step][k]
  BY <1>1, <1>4, <1>6 DEF OnPlan, Deviated, HasActionLeft
<1>8. \A k \in ActionKeys : world[k] = plan.expected[step][k]
  BY <1>7 DEF PlanningKeys
<1>9. step - 1 \in Nat /\ (step - 1) + 1 = step
  BY <1>2
<1> QED
  BY <1>2, <1>3, <1>8, <1>9, FromNext

LEMMA StandOutside ==
  ASSUME MaxStuck = 0, Resolved = Nothing, WaveInv, StandInv, OtherNode, OutsideWave
  PROVE  StandInv'
<1>1. members = NoWave /\ members' = NoWave
  BY OtherNoWave DEF OutsideWave
<1>2. ~Handlers
  BY DEF Handlers, HandlersGiveUp, HandlerRaisesIndex, HandlerReplans, StandInv
<1>3. CASE SkipExecution
  <2>1. /\ pc' = "observer" /\ UNCHANGED <<plan, step, status>>
        /\ status = "no_plan" \/ (plan # NoPlan /\ Len(plan.actions) = 0)
    BY <1>3 DEF SkipExecution, NothingToDo
  <2>2. HasActionLeft' /\ status' # "no_plan" => FALSE
    BY <2>1 DEF HasActionLeft, WaveInv, WaveTypeOK, TypeOK
  <2> QED
    BY <1>1, <2>1, <2>2, NoWaveIsEmpty DEF StandInv, MembersStand
<1>4. CASE NothingToExecute
  <2>1. pc' = "observer" /\ UNCHANGED <<plan, step>> /\ ~HasActionLeft'
    BY <1>4 DEF NothingToExecute, HasActionLeft
  <2> QED
    BY <1>1, <2>1, NoWaveIsEmpty DEF StandInv, MembersStand
<1>5. CASE ContinuePlan
  <2>1. pc' = "executor" /\ UNCHANGED <<world, goal, subgoal, plan, step, status>>
    BY <1>5 DEF ContinuePlan, GoTo
  <2>2. Steered' = Steered
    BY <2>1 DEF Steered, Active
  <2>3. Steered => From(world, plan, step)
    BY <1>5, StandToContinue
  <2> QED
    BY <1>1, <2>1, <2>2, <2>3, NoWaveIsEmpty DEF StandInv, MembersStand
<1>6. CASE Observer /\ ~ContinuePlan
  <2>1. pc' \in {"planner", "end"} /\ plan' \in {plan, NoPlan}
    BY <1>6 DEF Observer, PolicyTerminates, GoalMissing, SubgoalAchieved, GoalAchieved,
       GiveUpReplanning, NoPlanFound, AbandonAfterFailure, ReplanAfterFailure,
       ReplanEveryAction, ReplanOnDeviation, PlanExhausted, AbandonExhausted,
       Finish, GoTo
  <2> QED
    BY <1>1, <2>1, StandElsewhere, PredictedStays
<1>7. CASE Finished
  <2>1. pc' \in {"end", "raised"} /\ plan' = plan
    BY <1>7 DEF Finished, vars
  <2> QED
    BY <1>1, <2>1, StandElsewhere, PredictedStays
<1> QED
  BY <1>1, <1>2, <1>3, <1>4, <1>5, <1>6, <1>7, StandAfterPlanner DEF OtherNode

LEMMA StandStart ==
  ASSUME WaveInv, StandInv, StartWave
  PROVE  StandInv'
<1>1. /\ pc = "executor" /\ HasActionLeft /\ UNCHANGED vars /\ entry' = entry
      /\ members' = [i \in Wave(plan, step) |->
                       [phase |-> "todo", seen |-> world, world |-> world, attempt |-> 1]]
  BY DEF StartWave, Ready
<1>2. /\ UNCHANGED <<pc, world, goal, subgoal, plan, step, status>>
      /\ HasActionLeft' = HasActionLeft /\ Steered' = Steered
  BY <1>1 DEF vars, HasActionLeft, Steered, Active
<1>3. /\ plan \in Plan /\ step \in Nat /\ step < Len(plan.actions) /\ Len(plan.actions) \in Nat
  BY <1>1 DEF WaveInv, WaveTypeOK, TypeOK, HasActionLeft, Plan
<1>4. Wave(plan, step) \subseteq step + 1 .. Len(plan.actions)
  BY <1>3, WaveIs
<1>5. ASSUME Steered
      PROVE  /\ step + 1 \in Nat /\ step + 1 > step
             /\ \A i \in DOMAIN members' :
                  /\ ~(i < step + 1)
                  /\ members'[i].phase = "todo" /\ members'[i].attempt = 1
                  /\ From(members'[i].world, plan, (step + 1) - 1)
  <2>1. From(world, plan, step) /\ (step + 1) - 1 = step
    BY <1>1, <1>3, <1>5 DEF StandInv
  <2> QED
    BY <1>1, <1>3, <1>4, <2>1
<1>6. MembersStand'
  <2>1. /\ \A i \in DOMAIN members' : members'[i].attempt >= 1
        /\ \A i \in DOMAIN members' : members'[i].world = world'
    BY <1>1, <1>2
  <2>2. Steered' => \E f \in Nat :
         /\ f > step'
         /\ \A i \in DOMAIN members' :
              /\ i < f => members'[i].phase = "done"
              /\ i >= f => /\ members'[i].phase = "todo" /\ members'[i].attempt = 1
                           /\ From(members'[i].world, plan', f - 1)
    BY <1>2, <1>5
  <2> QED
    BY <2>1, <2>2 DEF MembersStand
<1> QED
  BY <1>1, <1>2, <1>6 DEF StandInv

\* A member that fails, or raises and is to be tried again.
LEMMA StandFails ==
  ASSUME WaveInv, StandInv, NEW i \in DOMAIN members,
         MemberBlocked(i) \/ MemberDenied(i) \/ MemberRaises(i)
  PROVE  StandInv'
<1>1. /\ UNCHANGED <<pc, world, goal, subgoal, plan, step, status, entry>> /\ smooth' = FALSE
      /\ members # NoWave
  BY DEF MemberBlocked, MemberDenied, MemberRaises, MayPerform, MayMove, InWave,
     NotPerformed, vars
<1>2. members[i] \in Member /\ members[i].attempt \in Nat /\ members[i].attempt >= 1
  BY DEF WaveInv, WaveTypeOK, Member, StandInv, MembersStand
<1>3. PICK ph, w, n :
        Record(i, ph, w, n) /\ n \in Nat /\ n >= 1 /\ (ph # "todo" \/ n # 1)
  <2>1. CASE MemberBlocked(i) \/ MemberDenied(i)
    <3>1. \/ Record(i, "blocked", members[i].world, members[i].attempt)
          \/ Record(i, "denied", members[i].world, members[i].attempt)
      BY <2>1 DEF MemberBlocked, MemberDenied, NotPerformed
    <3> QED
      BY <1>2, <3>1
  <2>2. CASE MemberRaises(i)
    <3>1. PICK w : \/ Record(i, "todo", w, members[i].attempt + 1)
                   \/ Record(i, "raised", w, members[i].attempt)
      BY <2>2 DEF MemberRaises
    <3>2. CASE Record(i, "todo", w, members[i].attempt + 1)
      <4>1. /\ members[i].attempt + 1 \in Nat /\ members[i].attempt + 1 >= 1
            /\ members[i].attempt + 1 # 1
        BY <1>2
      <4> QED
        BY <3>2, <4>1
    <3>3. CASE Record(i, "raised", w, members[i].attempt)
      BY <1>2, <3>3
    <3> QED
      BY <3>1, <3>2, <3>3
  <2> QED
    BY <2>1, <2>2
<1>4. /\ DOMAIN members' = DOMAIN members
      /\ members'[i].phase = ph /\ members'[i].attempt = n
      /\ \A j \in DOMAIN members : j # i =>
           /\ members'[j].phase = members[j].phase
           /\ members'[j].attempt = members[j].attempt
           /\ entry = "ainvoke" => members'[j] = members[j]
  <2>1. \A j \in DOMAIN members : members[j] \in Member
    BY DEF WaveInv, WaveTypeOK
  <2> QED
    BY <1>3, <2>1 DEF Record, Shared, Member
<1>5. MembersStand'
  BY <1>1, <1>3, <1>4 DEF StandInv, MembersStand
<1>6. HasActionLeft' = HasActionLeft /\ Steered' = Steered
  BY <1>1 DEF HasActionLeft, Steered, Active
<1> QED
  BY <1>1, <1>5, <1>6 DEF StandInv

\* Invoked, the member that returns is the one the others stand after.
LEMMA NextOne ==
  ASSUME WaveInv, NEW i \in DOMAIN members, MayMove(i), entry = "invoke",
         NEW f \in Nat, f > step,
         \A j \in DOMAIN members : /\ j < f => members[j].phase = "done"
                                   /\ j >= f => members[j].phase = "todo"
  PROVE  i = f
<1>1. /\ members # NoWave /\ members[i].phase = "todo"
      /\ \A j \in DOMAIN members : j < i => members[j].phase # "todo"
  BY DEF MayMove, InWave
<1>2. /\ plan \in Plan /\ step \in Nat /\ step < Len(plan.actions)
      /\ DOMAIN members = Wave(plan, step) /\ i \in Nat
  BY <1>1, MembersAre DEF WaveInv, WaveTypeOK
<1>3. i >= f
  BY <1>1, <1>2
<1>4. CASE i > f
  <2>1. f \in step + 1 .. i
    BY <1>2, <1>4
  <2>2. f \in DOMAIN members
    BY <1>2, <2>1, WaveIs
  <2> QED
    BY <1>1, <1>4, <2>2
<1> QED
  BY <1>2, <1>3, <1>4

LEMMA StandReturns ==
  ASSUME WaveInv, StandInv, NEW i \in DOMAIN members, MemberReturns(i)
  PROVE  StandInv'
<1>1. /\ UNCHANGED <<pc, world, goal, subgoal, plan, step, status, entry>>
      /\ members # NoWave /\ MayMove(i)
  BY DEF MemberReturns, MayPerform, MayMove, InWave, vars
<1>2. PICK update \in Outcomes[Act(i)] :
        LET after == Apply(members[i].world, update)
            accepted == ~Rejects(Act(i), after)
        IN  /\ Record(i, IF accepted THEN "done" ELSE "rejected", after, members[i].attempt)
            /\ smooth' = (smooth /\ accepted /\ update = Eff[Act(i)])
  BY DEF MemberReturns
<1> DEFINE w == Apply(members[i].world, update)
           accepted == ~Rejects(Act(i), w)
           ph == IF accepted THEN "done" ELSE "rejected"
<1>3. /\ Record(i, ph, w, members[i].attempt)
      /\ smooth' = (smooth /\ accepted /\ update = Eff[Act(i)])
      /\ ph \in {"done", "rejected"} /\ (accepted => ph = "done")
  BY <1>2
<1> HIDE DEF w, accepted, ph
<1>4. HasActionLeft' = HasActionLeft /\ Steered' = Steered
  BY <1>1 DEF HasActionLeft, Steered, Active
<1>5. \A j \in DOMAIN members : members[j] \in Member
  BY DEF WaveInv, WaveTypeOK
<1>6. /\ DOMAIN members' = DOMAIN members
      /\ members'[i].phase = ph /\ members'[i].attempt = members[i].attempt
      /\ \A j \in DOMAIN members : j # i =>
           /\ members'[j].phase = members[j].phase
           /\ members'[j].attempt = members[j].attempt
           /\ entry = "ainvoke" => members'[j] = members[j]
           /\ entry = "invoke" /\ j > i => members'[j].world = w
  BY <1>3, <1>5 DEF Record, Shared, Member
<1>7. ASSUME entry = "invoke", smooth', Steered
      PROVE  \E f \in Nat :
               /\ f > step
               /\ \A j \in DOMAIN members :
                    /\ j < f => members'[j].phase = "done"
                    /\ j >= f => /\ members'[j].phase = "todo" /\ members'[j].attempt = 1
                                 /\ From(members'[j].world, plan, f - 1)
  <2>1. smooth /\ accepted /\ ph = "done" /\ update = Eff[Act(i)]
    BY <1>3, <1>7
  <2>2. PICK f \in Nat :
          /\ f > step
          /\ \A j \in DOMAIN members :
               /\ j < f => members[j].phase = "done"
               /\ j >= f => /\ members[j].phase = "todo" /\ members[j].attempt = 1
                            /\ From(members[j].world, plan, f - 1)
    BY <1>1, <1>7, <2>1 DEF StandInv, MembersStand
  <2>3. i = f
    BY <1>1, <1>7, <2>2, NextOne
  <2>4. /\ plan \in Plan /\ Len(plan.actions) \in Nat /\ step \in Nat
        /\ DOMAIN members \subseteq 1 .. Len(plan.actions) /\ plan # NoPlan
        /\ Predicted(plan)
    BY <1>1, MembersAre, NoPlanAssumption DEF WaveInv, StandInv
  <2>5. ASSUME NEW j \in DOMAIN members, j >= f + 1
        PROVE  /\ members'[j].phase = "todo" /\ members'[j].attempt = 1
               /\ From(members'[j].world, plan, (f + 1) - 1)
    <3>1. j # i /\ j > i /\ j >= f /\ f < Len(plan.actions)
      BY <2>3, <2>4, <2>5
    <3>2. \A k \in ActionKeys : plan.expected[f][k] = w[k]
      <4>1. From(members[i].world, plan, f - 1) /\ (f - 1) + 1 = f
        BY <2>2, <2>3, <2>4
      <4>2. w = Apply(members[i].world, Eff[plan.actions[f]])
        BY <2>1, <2>3 DEF w, Act
      <4> QED
        BY <4>1, <4>2 DEF From
    <3>3. f - 1 \in Nat /\ (f - 1) + 1 = f /\ (f + 1) - 1 = f
      BY <2>2, <2>4
    <3>4. From(w, plan, f)
      BY <2>4, <3>1, <3>2, <3>3, FromNext
    <3> QED
      BY <1>6, <1>7, <2>2, <3>1, <3>3, <3>4
  <2>6. ASSUME NEW j \in DOMAIN members, j < f + 1
        PROVE  members'[j].phase = "done"
    <3>1. j = i \/ (j # i /\ j < f)
      BY <2>2, <2>3, <2>4, <2>6
    <3> QED
      BY <1>6, <2>1, <2>2, <3>1
  <2>7. f + 1 \in Nat /\ f + 1 > step
    BY <2>2, <2>4
  <2> QED
    BY <2>5, <2>6, <2>7
<1>8. MembersStand'
  <2>1. \A j \in DOMAIN members' : members'[j].attempt >= 1
    BY <1>6 DEF StandInv, MembersStand
  <2>2. entry' = "ainvoke" => \A j \in DOMAIN members' :
          members'[j].phase = "todo" /\ members'[j].attempt = 1 => members'[j].world = world'
    BY <1>1, <1>3, <1>6 DEF StandInv, MembersStand
  <2> QED
    BY <1>1, <1>4, <1>6, <1>7, <2>1, <2>2 DEF MembersStand
<1> QED
  BY <1>1, <1>4, <1>8 DEF StandInv

LEMMA StandStep ==
  ASSUME MaxStuck = 0, Resolved = Nothing, WaveInv, StandInv, [WaveNext]_waveVars
  PROVE  StandInv'
<1>1. ASSUME UNCHANGED <<world, goal, subgoal, plan, step, status, entry>>,
             pc' = pc \/ (pc \in {"executor", "waiting"} /\ pc' \in {"executor", "waiting"}),
             members' = NoWave \/ UNCHANGED <<members, smooth>>
      PROVE  StandInv'
  <2>1. HasActionLeft' = HasActionLeft /\ Steered' = Steered
    BY <1>1 DEF HasActionLeft, Steered, Active
  <2>2. MembersStand'
    <3>1. CASE members' = NoWave
      BY <3>1, NoWaveIsEmpty DEF MembersStand
    <3>2. CASE UNCHANGED <<members, smooth>>
      BY <1>1, <2>1, <3>2 DEF StandInv, MembersStand
    <3> QED
      BY <1>1, <3>1, <3>2
  <2> QED
    BY <1>1, <2>1, <2>2 DEF StandInv
<1>2. CASE UNCHANGED waveVars
  BY <1>1, <1>2 DEF waveVars, vars, audit
<1>3. ASSUME NEW i \in DOMAIN members, MemberAsks(i)
      PROVE  StandInv'
  BY <1>1, <1>3 DEF MemberAsks, MayMove, InWave
<1>4. CASE Answer
  BY <1>1, <1>4 DEF Answer, audit
<1>5. CASE Crash
  BY <1>1, <1>5 DEF Crash, vars
<1>6. CASE WaveAborts
  <2>1. /\ pc' = "observer" /\ status' = "action_failed" /\ plan' = plan /\ members' = NoWave
    BY <1>6 DEF WaveAborts, Leave
  <2> QED
    BY <2>1, NoWaveIsEmpty DEF StandInv, MembersStand
<1>7. CASE WaveCommits
  <2>1. /\ pc' = "observer" /\ plan' = plan /\ members' = NoWave
        /\ step' = LastOf(DOMAIN members) /\ members # NoWave
    BY <1>7 DEF WaveCommits, Commits, InWave, Leave, StepAfter
  <2>2. /\ DOMAIN members \subseteq 1 .. Len(plan.actions) /\ Len(plan.actions) \in Nat
        /\ DOMAIN members # {}
    BY <2>1, MembersAre DEF WaveInv
  <2>3. step' \in 1 .. Len(plan.actions)
    BY <2>1, <2>2, LastOfIs
  <2>4. step' > 0
    BY <2>2, <2>3
  <2> QED
    BY <2>1, <2>4, NoWaveIsEmpty DEF StandInv, MembersStand
<1> QED
  BY <1>2, <1>3, <1>4, <1>5, <1>6, <1>7, StandOutside, StandStart, StandFails, StandReturns
  DEF WaveNext, MemberMoves

LEMMA StandIsReady ==
  ASSUME WaveInv, StandInv
  PROVE  MembersReady
<1> SUFFICES ASSUME InWave, Steered, entry = "invoke" => smooth, NEW i \in DOMAIN members,
                    members[i].phase = "todo", members[i].attempt = 1
             PROVE  Satisfies(members[i].world, Pre[Act(i)])
  BY DEF MembersReady, Steered
<1>1. /\ members # NoWave /\ pc = "executor" /\ HasActionLeft /\ step \in Nat
      /\ DOMAIN members = Wave(plan, step) /\ plan \in Plan
      /\ step < Len(plan.actions) /\ Len(plan.actions) \in Nat
  BY MembersAre DEF InWave, WaveInv
<1>2. /\ i \in step + 1 .. Len(plan.actions) /\ FreeOfWave(plan, step, i)
  <2>1. /\ i \in step + 1 .. Len(plan.actions)
        /\ \A m \in step + 1 .. i : FreeOfWave(plan, step, m)
    BY <1>1 DEF Wave
  <2> QED
    BY <1>1, <2>1
<1>3. Predicted(plan)
  BY <1>1 DEF StandInv, HasActionLeft
<1>4. CASE entry = "ainvoke"
  <2>1. members[i].world = world /\ From(world, plan, step)
    BY <1>1, <1>4 DEF StandInv, MembersStand
  <2> QED
    BY <1>1, <1>2, <1>3, <2>1, FreeIsReady DEF Act
<1>5. CASE entry = "invoke"
  <2>1. PICK f \in Nat :
          /\ f > step
          /\ \A j \in DOMAIN members :
               /\ j < f => members[j].phase = "done"
               /\ j >= f => From(members[j].world, plan, f - 1)
    BY <1>1, <1>5 DEF StandInv, MembersStand
  <2>2. i >= f /\ f - 1 \in Nat /\ i \in (f - 1) + 1 .. Len(plan.actions)
    BY <1>1, <1>2, <2>1
  <2>3. FreeOfWave(plan, f - 1, i)
    <3>1. \A j \in (f - 1) + 1 .. i - 1 : j \in step + 1 .. i - 1
      BY <1>1, <1>2, <2>1
    <3> QED
      BY <1>2, <3>1 DEF FreeOfWave
  <2>4. From(members[i].world, plan, f - 1)
    BY <2>1, <2>2
  <2> QED
    BY <1>3, <2>2, <2>3, <2>4, FreeIsReady DEF Act
<1> QED
  BY <1>4, <1>5, WaveAssumption DEF WaveInv, WaveTypeOK

\* Without stuck handlers and condition resolvers every member of a wave finds its
\* preconditions: concurrently in the snapshot all start from, whatever the others
\* do, and invoked as long as those before it did as declared. The dependency graph
\* looks only at the closest producer of a precondition; this is why that is enough.
THEOREM MembersFindPreconditions ==
  ASSUME MaxStuck = 0, Resolved = Nothing
  PROVE  WaveSpec => []MembersReady
<1>1. WaveInit => StandInv
  BY NoWaveIsEmpty DEF WaveInit, Init, StandInv, MembersStand
<1>2. WaveInv /\ StandInv /\ [WaveNext]_waveVars => StandInv'
  BY StandStep
<1>3. WaveInv /\ StandInv => MembersReady
  BY StandIsReady
<1> QED
  BY <1>1, <1>2, <1>3, WaveInvariant, PTL DEF WaveSpec
-----------------------------------------------------------------------------
(* Invoked waves follow the plan. *)

\* World b is where the first s steps of plan p lead.
Stands(b, p, s) ==
  IF s = 0 THEN Len(p.actions) > 0 => p.expected[1] = Apply(b, Eff[p.actions[1]])
           ELSE b = p.expected[s]

\* The members before f are done and left what was predicted, the others stand
\* where those lead, and no key a member has is missing in a later one.
MembersFollow ==
  \E f \in Nat :
    /\ f > step
    /\ \A i \in DOMAIN members :
         /\ i < f => members[i].phase = "done" /\ members[i].world = plan.expected[i]
         /\ i >= f => members[i].phase = "todo" /\ Stands(members[i].world, plan, f - 1)
    /\ \A i, j \in DOMAIN members : i < j =>
         \A k \in Keys : members[i].world[k] # Absent => members[j].world[k] # Absent

\* InvokedWavesFollowPlan is not inductive: what the members of a wave leave to each
\* other, and to the merge, has to be on the plan, too.
FollowInv ==
  entry = "invoke" /\ smooth =>
    /\ OnPlace /\ plan # NoPlan => Stands(world, plan, step)
    /\ members # NoWave => MembersFollow

LEMMA FollowAfterPlanner ==
  ASSUME MaxStuck = 0, Resolved = Nothing, WaveInv, StandInv, Planner, members' = NoWave
  PROVE  FollowInv'
<1>1. CASE PlanWithoutGoal \/ PlanRaises
  BY <1>1 DEF PlanWithoutGoal, PlanRaises, Raise, FollowInv, OnPlace
<1>2. CASE PlanRound
  <2>1. PICK reading \in SensorReadings :
          \E r \in CoreOutcomes(View(Apply(world, reading)), goal) :
             Return(r, Apply(world, reading), goal)
    BY <1>2 DEF PlanRound
  <2>2. PICK r \in CoreOutcomes(View(Apply(world, reading)), goal) :
             Return(r, Apply(world, reading), goal)
    BY <2>1
  <2>3. Apply(world, reading) \in World /\ goal \in Goals /\ goal.mode # "none"
    BY <1>2, ApplyType, LoopAssumption DEF PlanRound, WaveInv, WaveTypeOK, TypeOK
  <2>4. View(Apply(world, reading)) = Apply(world, reading)
    BY <2>3 DEF View, Nothing, World
  <2>5. r.plan = NoPlan \/ Traced(Apply(world, reading), r.plan)
    BY <2>3, <2>4, CoreTraced
  <2>6. plan' = r.plan /\ step' = 0 /\ world' = Apply(world, reading)
    BY <2>2 DEF Return
  <2>7. plan' # NoPlan => Stands(world', plan', step')
    BY <2>5, <2>6 DEF Traced, Stands
  <2> QED
    BY <2>7 DEF FollowInv
<1> QED
  BY <1>1, <1>2 DEF Planner

\* Nothing but a wave moves the world, the plan or the step away from each other.
LEMMA FollowStays ==
  ASSUME FollowInv, UNCHANGED <<world, plan, step, entry>>, OnPlace' => OnPlace,
         smooth' => smooth, members' = NoWave \/ members' = members
  PROVE  FollowInv'
<1>1. plan' # NoPlan /\ OnPlace' /\ entry' = "invoke" /\ smooth' => Stands(world', plan', step')
  BY DEF FollowInv, Stands
<1>2. members' # NoWave /\ entry' = "invoke" /\ smooth' => MembersFollow'
  <2> SUFFICES ASSUME members' # NoWave, entry' = "invoke", smooth' PROVE MembersFollow'
    OBVIOUS
  <2>1. members' = members /\ MembersFollow
    BY DEF FollowInv
  <2> QED
    BY <2>1 DEF MembersFollow, Stands
<1> QED
  BY <1>1, <1>2 DEF FollowInv

LEMMA FollowOutside ==
  ASSUME MaxStuck = 0, Resolved = Nothing, WaveInv, StandInv, FollowInv, OtherNode, OutsideWave
  PROVE  FollowInv'
<1>1. members = NoWave /\ members' = NoWave /\ UNCHANGED <<entry, smooth>>
  BY OtherNoWave DEF OutsideWave
<1>2. ~Handlers
  BY DEF Handlers, HandlersGiveUp, HandlerRaisesIndex, HandlerReplans, StandInv
<1>3. CASE SkipExecution \/ NothingToExecute \/ ContinuePlan
  <2>1. OnPlace /\ UNCHANGED <<world, plan, step>>
    BY <1>3 DEF SkipExecution, NothingToExecute, ContinuePlan, OnPlan, Advancing,
       Undecided, Pursuing, Observing, GoTo, OnPlace
  <2> QED
    BY <1>1, <2>1, FollowStays
<1>4. CASE Observer /\ ~ContinuePlan
  <2>1. pc' \in {"planner", "end"}
    BY <1>4 DEF Observer, PolicyTerminates, GoalMissing, SubgoalAchieved, GoalAchieved,
       GiveUpReplanning, NoPlanFound, AbandonAfterFailure, ReplanAfterFailure,
       ReplanEveryAction, ReplanOnDeviation, PlanExhausted, AbandonExhausted,
       Finish, GoTo
  <2> QED
    BY <1>1, <2>1 DEF FollowInv, OnPlace
<1>5. CASE Finished
  <2>1. pc' \in {"end", "raised"}
    BY <1>5 DEF Finished, vars
  <2> QED
    BY <1>1, <2>1 DEF FollowInv, OnPlace
<1> QED
  BY <1>1, <1>2, <1>3, <1>4, <1>5, FollowAfterPlanner DEF OtherNode

LEMMA FollowStart ==
  ASSUME WaveInv, FollowInv, StartWave
  PROVE  FollowInv'
<1>1. /\ pc = "executor" /\ HasActionLeft /\ UNCHANGED <<vars, entry, smooth>>
      /\ members' = [i \in Wave(plan, step) |->
                       [phase |-> "todo", seen |-> world, world |-> world, attempt |-> 1]]
  BY DEF StartWave, Ready, audit
<1>2. plan \in Plan /\ step \in Nat /\ step < Len(plan.actions) /\ UNCHANGED <<pc, world, plan, step>>
  BY <1>1 DEF WaveInv, WaveTypeOK, TypeOK, HasActionLeft, vars
<1>3. Wave(plan, step) \subseteq step + 1 .. Len(plan.actions) /\ Len(plan.actions) \in Nat
  BY <1>2, WaveIs DEF Plan
<1>4. ASSUME entry = "invoke", smooth
      PROVE  Stands(world, plan, step)
  BY <1>1, <1>4 DEF FollowInv, OnPlace, HasActionLeft
<1>5. ASSUME entry = "invoke", smooth
      PROVE  MembersFollow'
  <2>1. step + 1 \in Nat /\ step + 1 > step /\ (step + 1) - 1 = step
    BY <1>2
  <2>2. \A i \in DOMAIN members' :
          /\ ~(i < step + 1)
          /\ members'[i].phase = "todo" /\ members'[i].world = world
    BY <1>1, <1>2, <1>3
  <2>3. \A i \in DOMAIN members' : Stands(members'[i].world, plan', (step + 1) - 1)
    BY <1>2, <1>4, <1>5, <2>1, <2>2
  <2> QED
    BY <1>2, <2>1, <2>2, <2>3 DEF MembersFollow
<1> QED
  BY <1>1, <1>2, <1>4, <1>5 DEF FollowInv, Stands

LEMMA FollowReturns ==
  ASSUME WaveInv, StandInv, FollowInv, NEW i \in DOMAIN members, MemberReturns(i)
  PROVE  FollowInv'
<1>1. UNCHANGED <<pc, world, plan, step, entry>> /\ members # NoWave /\ MayMove(i)
  BY DEF MemberReturns, MayPerform, MayMove, InWave, vars
<1> SUFFICES ASSUME entry = "invoke", smooth' PROVE FollowInv'
  BY <1>1 DEF FollowInv
<1>2. /\ smooth
      /\ Record(i, "done", Apply(members[i].world, Eff[Act(i)]), members[i].attempt)
  BY DEF MemberReturns
<1> DEFINE w == Apply(members[i].world, Eff[Act(i)])
<1>3. /\ plan \in Plan /\ Len(plan.actions) \in Nat /\ step \in Nat /\ plan # NoPlan
      /\ DOMAIN members \subseteq 1 .. Len(plan.actions)
      /\ step + 1 .. Len(plan.actions) \in SUBSET Nat
      /\ \A j \in DOMAIN members : members[j] \in Member
      /\ Act(i) \in Actions /\ Predicted(plan)
  BY <1>1, MembersAre, NoPlanAssumption DEF WaveInv, StandInv
<1>4. PICK f \in Nat :
        /\ f > step
        /\ \A j \in DOMAIN members :
             /\ j < f => members[j].phase = "done" /\ members[j].world = plan.expected[j]
             /\ j >= f => members[j].phase = "todo" /\ Stands(members[j].world, plan, f - 1)
        /\ \A j, m \in DOMAIN members : j < m =>
             \A k \in Keys : members[j].world[k] # Absent => members[m].world[k] # Absent
  BY <1>1, <1>2 DEF FollowInv, MembersFollow
<1>5. i = f
  BY <1>1, <1>4, NextOne
<1>6. w = plan.expected[f]
  <2>1. Stands(members[i].world, plan, f - 1) /\ f \in 1 .. Len(plan.actions)
    BY <1>3, <1>4, <1>5
  <2>2. CASE f = 1
    BY <1>5, <2>1, <2>2 DEF Stands, Act
  <2>3. CASE f # 1
    <3>1. f \in 2 .. Len(plan.actions) /\ f - 1 # 0
      BY <1>3, <2>1, <2>3
    <3> QED
      BY <1>3, <1>5, <2>1, <3>1 DEF Stands, Predicted, Act
  <2> QED
    BY <2>2, <2>3
<1>7. \A k \in Keys : members[i].world[k] # Absent => w[k] # Absent
  BY DEF Apply
<1>8. /\ DOMAIN members' = DOMAIN members
      /\ members'[i].phase = "done" /\ members'[i].world = w
      /\ \A j \in DOMAIN members : j < i => members'[j] = members[j]
      /\ \A j \in DOMAIN members : j > i =>
           members'[j].phase = members[j].phase /\ members'[j].world = w
  <2>1. ASSUME NEW j \in DOMAIN members, j < i
        PROVE  members'[j] = members[j]
    <3>1. j # i /\ ~(j > i)
      BY <1>3, <2>1
    <3> QED
      BY <1>2, <3>1 DEF Record, Shared
  <2>2. ASSUME NEW j \in DOMAIN members, j > i
        PROVE  members'[j].phase = members[j].phase /\ members'[j].world = w
    <3>1. j # i
      BY <1>3, <2>2
    <3> QED
      BY <1>2, <1>3, <2>2, <3>1 DEF Record, Shared, Member
  <2>3. members'[i].phase = "done" /\ members'[i].world = w
    BY <1>2, <1>3 DEF Record, Member
  <2> QED
    BY <1>2, <2>1, <2>2, <2>3 DEF Record
<1> HIDE DEF w
<1>9. f + 1 \in Nat /\ f + 1 > step /\ (f + 1) - 1 = f /\ f # 0
  BY <1>3, <1>4
<1>10. ASSUME NEW j \in DOMAIN members
       PROVE  /\ j < f + 1 => members'[j].phase = "done" /\ members'[j].world = plan.expected[j]
              /\ j >= f + 1 => members'[j].phase = "todo" /\ Stands(members'[j].world, plan, f)
  <2>1. j \in Nat /\ i \in Nat
    BY <1>3
  <2>2. CASE j < i
    BY <1>4, <1>5, <1>8, <2>1, <2>2
  <2>3. CASE j = i
    BY <1>5, <1>6, <1>8, <2>1, <2>3
  <2>4. CASE j > i
    BY <1>4, <1>5, <1>6, <1>8, <1>9, <2>1, <2>4 DEF Stands
  <2> QED
    BY <2>1, <2>2, <2>3, <2>4
<1>11. ASSUME NEW j \in DOMAIN members, NEW m \in DOMAIN members, j < m, NEW k \in Keys,
              members'[j].world[k] # Absent
       PROVE  members'[m].world[k] # Absent
  <2>1. j \in Nat /\ m \in Nat /\ i \in Nat
    BY <1>3
  <2>2. CASE m < i
    BY <1>4, <1>8, <1>11, <2>1, <2>2
  <2>3. CASE j < i /\ m >= i
    <3>1. members[j].world[k] # Absent
      BY <1>8, <1>11, <2>3
    <3>2. members[i].world[k] # Absent
      BY <1>4, <2>3, <3>1
    <3>3. members'[m].world = w
      BY <1>8, <2>1, <2>3
    <3> QED
      BY <1>7, <3>2, <3>3
  <2>4. CASE j >= i
    <3>1. members'[j].world = w /\ members'[m].world = w
      BY <1>8, <1>11, <2>1, <2>4
    <3> QED
      BY <1>11, <3>1
  <2> QED
    BY <1>11, <2>1, <2>2, <2>3, <2>4
<1>12. MembersFollow'
  BY <1>1, <1>8, <1>9, <1>10, <1>11 DEF MembersFollow
<1>13. OnPlace' => Stands(world', plan', step')
  BY <1>1, <1>2, <1>3 DEF FollowInv, OnPlace, Stands
<1> QED
  BY <1>12, <1>13 DEF FollowInv

\* The merge of an invoked wave is the dictionary its last member left.
LEMMA FollowCommits ==
  ASSUME WaveInv, FollowInv, WaveCommits
  PROVE  FollowInv'
<1>1. /\ members # NoWave /\ AllBack /\ members' = NoWave
      /\ world' = Merged /\ step' = LastOf(DOMAIN members)
      /\ UNCHANGED <<plan, entry, smooth>>
  BY DEF WaveCommits, Commits, InWave, Leave, StepAfter, audit
<1> SUFFICES ASSUME entry = "invoke", smooth PROVE Stands(world', plan', step')
  BY <1>1 DEF FollowInv
<1> DEFINE last == LastOf(DOMAIN members)
<1>2. /\ DOMAIN members \subseteq 1 .. Len(plan.actions) /\ Len(plan.actions) \in Nat
      /\ DOMAIN members # {}
      /\ \A i \in DOMAIN members : members[i].world \in World
  BY <1>1, MembersAre DEF WaveInv, Member
<1>3. last \in DOMAIN members /\ \A i \in DOMAIN members : i <= last
  BY <1>2, LastOfIs
<1> HIDE DEF last
<1>4. /\ members[last].world = plan.expected[last]
      /\ \A i \in DOMAIN members : i < last =>
           \A k \in Keys : members[i].world[k] # Absent => members[last].world[k] # Absent
  <2>1. PICK f \in Nat :
          /\ \A i \in DOMAIN members :
               /\ i < f => members[i].world = plan.expected[i]
               /\ i >= f => members[i].phase = "todo"
          /\ \A i, j \in DOMAIN members : i < j =>
               \A k \in Keys : members[i].world[k] # Absent => members[j].world[k] # Absent
    BY <1>1 DEF FollowInv, MembersFollow
  <2>2. last < f
    BY <1>1, <1>2, <1>3, <2>1 DEF AllBack
  <2> QED
    BY <1>3, <2>1, <2>2
<1>5. ASSUME NEW k \in Keys
      PROVE  Merged[k] = members[last].world[k]
  <2> DEFINE has == {i \in DOMAIN members : members[i].world[k] # Absent}
  <2>1. CASE has = {}
    BY <1>3, <2>1 DEF Merged
  <2>2. CASE has # {}
    <3>1. LastOf(has) \in has /\ \A i \in has : i <= LastOf(has)
      BY <1>2, <2>2, LastOfIs
    <3>2. last \in has
      BY <1>2, <1>3, <1>4, <3>1
    <3>3. has \subseteq DOMAIN members
      OBVIOUS
    <3>4. /\ LastOf(has) \in Nat /\ last \in Nat
          /\ LastOf(has) <= last /\ last <= LastOf(has)
      <4> HIDE DEF has
      <4> QED
        BY <1>2, <1>3, <3>1, <3>2, <3>3
    <3>5. LastOf(has) = last
      BY <3>4
    <3> QED
      BY <2>2, <3>5 DEF Merged
  <2> QED
    BY <2>1, <2>2
<1>6. Merged = members[last].world
  <2>1. Merged \in World
    BY <1>1, MergedType DEF WaveInv
  <2> QED
    BY <1>2, <1>3, <1>5, <2>1 DEF World
<1>7. step' # 0
  BY <1>1, <1>2, <1>3 DEF last
<1> QED
  BY <1>1, <1>4, <1>6, <1>7 DEF Stands, last

LEMMA FollowStep ==
  ASSUME MaxStuck = 0, Resolved = Nothing, WaveInv, StandInv, FollowInv,
         [WaveNext]_waveVars
  PROVE  FollowInv'
<1>1. CASE UNCHANGED waveVars
  BY <1>1, FollowStays DEF waveVars, vars, audit, OnPlace
<1>2. ASSUME NEW i \in DOMAIN members, MemberBlocked(i) \/ MemberDenied(i) \/ MemberRaises(i)
      PROVE  FollowInv'
  BY <1>2 DEF MemberBlocked, MemberDenied, MemberRaises, NotPerformed, FollowInv
<1>3. ASSUME NEW i \in DOMAIN members, MemberAsks(i)
      PROVE  FollowInv'
  BY <1>3, FollowStays DEF MemberAsks, MayMove, InWave, OnPlace, Restarted
<1>4. CASE Answer
  BY <1>4, FollowStays DEF Answer, OnPlace, audit
<1>5. CASE Crash
  BY <1>5, FollowStays DEF Crash, vars, OnPlace, Restarted
<1>6. CASE WaveAborts
  BY <1>6, FollowStays DEF WaveAborts, Aborts, InWave, Leave, OnPlace, audit
<1> QED
  BY <1>1, <1>2, <1>3, <1>4, <1>5, <1>6, FollowOutside, FollowStart, FollowReturns,
     FollowCommits
  DEF WaveNext, MemberMoves

\* Without stuck handlers and condition resolvers, invoking whole waves is running
\* the plan action by action: as long as actions do what they declare, every commit
\* leaves the world the planner predicted, whatever was interrupted or died before.
THEOREM WavesFollowPlan ==
  ASSUME MaxStuck = 0, Resolved = Nothing
  PROVE  WaveSpec => []InvokedWavesFollowPlan
<1>1. WaveInit => StandInv /\ FollowInv
  BY NoWaveIsEmpty DEF WaveInit, Init, StandInv, MembersStand, FollowInv, OnPlace
<1>2. WaveInv /\ StandInv /\ FollowInv /\ [WaveNext]_waveVars => StandInv' /\ FollowInv'
  BY StandStep, FollowStep
<1>3. WaveInv /\ FollowInv => InvokedWavesFollowPlan
  BY DEF FollowInv, InvokedWavesFollowPlan, Stands, OnPlace, WaveInv, WaveTypeOK, TypeOK
<1> QED
  BY <1>1, <1>2, <1>3, WaveInvariant, PTL DEF WaveSpec
=============================================================================
