------------------------------ MODULE WaveLoop ------------------------------
(***************************************************************************)
(* The graph with ParallelGoapExecutor in the executor's place: the node   *)
(* takes all actions from current_step on that do not depend on each other *)
(* (a wave), retries each as its ActionQos says, and commits once.         *)
(*                                                                         *)
(* invoke runs the members of a wave one after another on one dictionary,  *)
(* ainvoke runs them concurrently, each on its own copy. What a node has   *)
(* not returned yet is lost when it is interrupted or the process dies;    *)
(* the run then goes on from the channels, with the node from its start.   *)
(***************************************************************************)
EXTENDS GoapLoop

CONSTANTS
  MaxAttempts,  \* ActionQos.max_attempts
  Idempotent,   \* actions whose ActionQos retries every exception
  Retryable,    \* actions that may raise one of their retryable_exceptions
  Leftovers,    \* what an attempt that raises may have written by then
  EntryPoints,  \* how the graph may be run: "invoke", "ainvoke"
  MaxCrashes    \* bound: process crashes in the middle of a wave

ASSUME WaveAssumption ==
  /\ MaxAttempts \in [Actions -> Nat \ {0}]
  /\ Idempotent \subseteq Actions
  /\ Retryable \subseteq Actions
  /\ Leftovers \in [Actions -> SUBSET World]
  /\ EntryPoints \subseteq {"invoke", "ainvoke"}
  /\ MaxCrashes \in Nat

VARIABLES
  entry,     \* how the graph is run
  members,   \* locals of the node: its wave, a function on plan indices
  asked,     \* the member a human is asked about, 0 for none
  approved,  \* members a human has approved since the node was entered
  denied,    \* members a human has denied since the node was entered
  crashes,   \* crashes so far
  done,      \* audit: plan indices carried out since the plan was made
  refused,   \* audit: those whose result a validator has rejected since then
  ran,       \* audit: those carried out or rejected since then or, if that is
             \* later, since the node was last interrupted or died
  again,     \* audit: plan indices that ran while in ran
  smooth     \* audit: every action so far did what it declares, at once

answers == <<approved, denied>>
audit == <<done, refused, ran, again, smooth>>
waveVars == <<vars, entry, members, asked, answers, crashes, audit>>

NoWave == <<>>

Failing == {"rejected", "raised", "blocked", "denied"}
Phases == {"todo", "done"} \cup Failing

\* seen is the state the member found, world the dictionary it works on.
Member == [phase : Phases, seen : World, world : World, attempt : Nat]

WaveInit ==
  /\ Init
  /\ entry \in EntryPoints
  /\ members = NoWave
  /\ asked = 0 /\ approved = {} /\ denied = {}
  /\ crashes = 0
  /\ done = {} /\ refused = {} /\ ran = {} /\ again = {} /\ smooth = TRUE
-----------------------------------------------------------------------------
(* Which actions form a wave. *)

Produces(a, k, v) == v # Absent /\ Eff[a][k] = v

\* build_dependency_graph: the closest producer of a precondition.
DependsOn(p, j, i) ==
  /\ i < j
  /\ \E k \in Mentioned(Pre[p.actions[j]]) :
       LET v == Pre[p.actions[j]][k] IN
       /\ Produces(p.actions[i], k, v)
       /\ \A m \in i + 1 .. j - 1 : ~Produces(p.actions[m], k, v)

\* Plausible bug: only the neighbour is looked at.
FreeOfNeighbour(p, s, j) == j = s + 1 \/ ~DependsOn(p, j, j - 1)

FreeOfWave(p, s, j) == \A i \in s + 1 .. j - 1 : ~DependsOn(p, j, i)

\* _find_parallel_group: up to the first action that depends on one in the wave.
Wave(p, s) ==
  {j \in s + 1 .. Len(p.actions) : \A m \in s + 1 .. j : FreeOfWave(p, s, m)}

LastOf(S) == CHOOSE i \in S : \A j \in S : j <= i
FirstOf(S) == CHOOSE i \in S : \A j \in S : i <= j
-----------------------------------------------------------------------------
(* One member of the wave. *)

InWave == pc = "executor" /\ members # NoWave

Act(i) == plan.actions[i]

Failed == {i \in DOMAIN members : members[i].phase \in Failing}

\* Invoked, a rejection is only recorded: the wave goes on with its effects.
Aborting == IF entry = "invoke" THEN {i \in Failed : members[i].phase # "rejected"}
                                ELSE Failed

StartWave ==
  /\ Ready /\ members = NoWave
  /\ members' = [i \in Wave(plan, step) |->
                   [phase |-> "todo", seen |-> world, world |-> world, attempt |-> 1]]
  /\ UNCHANGED <<vars, entry, asked, answers, crashes, audit>>

\* ainvoke: any member that is not done; invoke: the first, unless one failed.
MayMove(i) ==
  /\ InWave /\ i \in DOMAIN members /\ members[i].phase = "todo"
  /\ entry = "invoke" =>
       Aborting = {} /\ \A j \in DOMAIN members : j < i => members[j].phase # "todo"

\* Plausible bug: concurrent members write into one dictionary, too.
SharedWith(i, j) == j > i

\* Whose dictionary member i writes to, besides its own.
Shared(i, j) == entry = "invoke" /\ j > i

\* Member i leaves dictionary w behind.
Record(i, phase, w, attempt) ==
  members' = [j \in DOMAIN members |->
    IF j = i THEN [members[i] EXCEPT !.phase = phase, !.world = w, !.attempt = attempt]
    ELSE IF Shared(i, j) THEN [members[j] EXCEPT !.seen = w, !.world = w]
    ELSE members[j]]

NotPerformed(i, phase) ==
  /\ Record(i, phase, members[i].world, members[i].attempt)
  /\ smooth' = FALSE
  /\ UNCHANGED <<vars, entry, asked, answers, crashes, done, refused, ran, again>>

\* The node will run again from its start.
Restarted == ran' = {} /\ UNCHANGED <<done, refused, again, smooth>>

MemberBlocked(i) == MayMove(i) /\ Act(i) \in Guarded /\ NotPerformed(i, "blocked")

MemberDenied(i) == MayMove(i) /\ i \in denied /\ NotPerformed(i, "denied")

\* interrupt() leaves the node: nothing its members did is kept.
MemberAsks(i) ==
  /\ MayMove(i)
  /\ Act(i) \in NeedsApproval /\ i \notin approved \cup denied
  /\ pc' = "waiting" /\ asked' = i /\ members' = NoWave
  /\ UNCHANGED <<world, goal, subgoal, plan, step, status, replanCount, blacklist,
                 failures, explained, lastFailed, succeeded, draft,
                 entry, answers, crashes>>
  /\ Restarted

\* The human answers: the node runs again from its start and knows the answer.
Answer ==
  /\ pc = "waiting"
  /\ \/ approved' = approved \cup {asked} /\ UNCHANGED denied
     \/ denied' = denied \cup {asked} /\ UNCHANGED approved
  /\ pc' = "executor" /\ asked' = 0
  /\ UNCHANGED <<world, goal, subgoal, plan, step, status, replanCount, blacklist,
                 failures, explained, lastFailed, succeeded, draft,
                 entry, members, crashes, audit>>

MayPerform(i) == MayMove(i) /\ (Act(i) \in NeedsApproval => i \in approved)

\* An attempt returns: its update is applied and the validator asked.
MemberReturns(i) ==
  /\ MayPerform(i)
  /\ \E update \in Outcomes[Act(i)] :
       LET after == Apply(members[i].world, update)
           accepted == ~Rejects(Act(i), after)
       IN  /\ Record(i, IF accepted THEN "done" ELSE "rejected", after, members[i].attempt)
           /\ done' = IF accepted THEN done \cup {i} ELSE done
           /\ refused' = IF accepted THEN refused ELSE refused \cup {i}
           /\ smooth' = (smooth /\ accepted /\ update = Eff[Act(i)])
  /\ ran' = ran \cup {i}
  /\ again' = again \cup (ran \cap {i})
  /\ UNCHANGED <<vars, entry, asked, answers, crashes>>

\* Plausible bug: one attempt too many.
RetryOnceMore(i, retryable) ==
  /\ members[i].attempt <= MaxAttempts[Act(i)]
  /\ Act(i) \in Idempotent \/ retryable

\* ActionQos.should_retry, for an exception that is retryable or not.
ShouldRetry(i, retryable) ==
  /\ members[i].attempt < MaxAttempts[Act(i)]
  /\ Act(i) \in Idempotent \/ retryable

\* An attempt raises: what it wrote by then is there for the next one.
MemberRaises(i) ==
  /\ MayPerform(i) /\ Act(i) \in Fallible
  /\ \E left \in Leftovers[Act(i)], retryable \in {FALSE, Act(i) \in Retryable} :
       LET after == Apply(members[i].world, left) IN
       IF ShouldRetry(i, retryable)
         THEN Record(i, "todo", after, members[i].attempt + 1)
         ELSE Record(i, "raised", after, members[i].attempt)
  /\ smooth' = FALSE
  /\ UNCHANGED <<vars, entry, asked, answers, crashes, done, refused, ran, again>>

MemberMoves ==
  \E i \in DOMAIN members :
    \/ MemberBlocked(i) \/ MemberDenied(i) \/ MemberAsks(i)
    \/ MemberReturns(i) \/ MemberRaises(i)
-----------------------------------------------------------------------------
(* The node returns. *)

Leave == /\ pc' = "observer" /\ members' = NoWave
         /\ approved' = {} /\ denied' = {}
         /\ UNCHANGED <<entry, asked, crashes, audit>>

AllBack == \A i \in DOMAIN members : members[i].phase # "todo"

Aborts == InWave /\ Aborting # {} /\ (entry = "ainvoke" => AllBack)

\* One member failed: its result alone is returned, what others did is dropped.
WaveAborts ==
  /\ Aborts
  /\ LET i == FirstOf(Aborting) IN
     /\ status' = "action_failed" /\ lastFailed' = Act(i)
     /\ IF members[i].phase \in {"blocked", "denied"}
          THEN failures' = [a \in Actions |-> IF a = Act(i) THEN MaxRetries[a] + 1 ELSE 0]
          ELSE UNCHANGED failures
  /\ Leave
  /\ UNCHANGED <<world, goal, subgoal, plan, step, replanCount, blacklist,
                 explained, succeeded, draft>>

\* Plausible bug: where results disagree the old value is kept.
MergedIfAgreed ==
  [k \in Keys |->
     LET values == {members[i].world[k] : i \in DOMAIN members}
     IN  IF \A v, w \in values : v = w THEN CHOOSE v \in values : TRUE ELSE world[k]]

\* The results in plan order, each a whole world: a later one overwrites.
Merged ==
  [k \in Keys |->
     LET has == {i \in DOMAIN members : members[i].world[k] # Absent}
     IN  IF has = {} THEN Absent ELSE members[LastOf(has)].world[k]]

\* Plausible bug: the wave counts as one step.
OneStep == step + 1

StepAfter == LastOf(DOMAIN members)

\* Plausible bug: a rejection does not stop a concurrent wave either.
CommitsRejected == InWave /\ AllBack /\ \A i \in Failed : members[i].phase = "rejected"

Commits == InWave /\ AllBack /\ Aborting = {}

WaveCommits ==
  /\ Commits
  /\ world' = Merged
  /\ step' = StepAfter
  /\ succeeded' = succeeded \cup {Act(i) : i \in DOMAIN members \ Failed}
  /\ lastFailed' = IF Failed = {} THEN lastFailed ELSE Act(LastOf(Failed))
  /\ Leave
  /\ UNCHANGED <<goal, subgoal, plan, status, replanCount, blacklist, failures,
                 explained, draft>>

\* The process dies and the run is resumed from its last checkpoint.
Crash ==
  /\ InWave /\ crashes < MaxCrashes
  /\ crashes' = crashes + 1 /\ members' = NoWave
  /\ Restarted
  /\ UNCHANGED <<vars, entry, asked, answers>>
-----------------------------------------------------------------------------
(* The graph: planner and observer are those of GoapLoop. *)

OtherNode == Planner \/ Handlers \/ SkipExecution \/ NothingToExecute \/ Observer \/ Finished

OutsideWave ==
  /\ IF pc \in {"planner", "stuck"}
       THEN done' = {} /\ refused' = {} /\ ran' = {} ELSE UNCHANGED <<done, refused, ran>>
  /\ UNCHANGED <<entry, members, asked, answers, crashes, again, smooth>>

WaveNext ==
  \/ OtherNode /\ OutsideWave
  \/ StartWave \/ MemberMoves \/ WaveAborts \/ WaveCommits
  \/ Answer \/ Crash

WaveSpec == WaveInit /\ [][WaveNext]_waveVars

\* The event loop goes on; nobody owes an answer and no crash is owed.
WaveProgress ==
  \/ (Planner \/ Handlers \/ SkipExecution \/ NothingToExecute \/ Observer) /\ OutsideWave
  \/ StartWave \/ MemberMoves \/ WaveAborts \/ WaveCommits

FairWaveSpec == WaveSpec /\ WF_waveVars(WaveProgress)
-----------------------------------------------------------------------------
(* Properties. *)

\* Types of the node's locals; what is under way is always the wave of the current
\* plan and step, and no member makes more attempts than its ActionQos allows.
WaveTypeOK ==
  /\ TypeOK
  /\ entry \in EntryPoints
  /\ DOMAIN members \subseteq Nat
  /\ \A i \in DOMAIN members :
       members[i] \in Member /\ members[i].attempt <= MaxAttempts[Act(i)]
  /\ members # NoWave => pc = "executor" /\ HasActionLeft /\ DOMAIN members = Wave(plan, step)
  /\ asked \in Nat /\ approved \subseteq Nat /\ denied \subseteq Nat
  /\ crashes \in Nat /\ smooth \in BOOLEAN
  /\ done \subseteq Nat /\ refused \subseteq Nat /\ ran \subseteq Nat /\ again \subseteq Nat

\* No member tests its preconditions (parallel_executor.py): that every member of
\* a concurrent wave finds them in the one snapshot all members start from rests
\* on the dependency graph, the plan and the observer's comparison after the last
\* wave. Invoked, it holds of the members as long as those before did as declared.
MembersReady ==
  InWave /\ Active.strategy # "never" /\ (entry = "invoke" => smooth) =>
    \A i \in DOMAIN members :
      members[i].phase = "todo" /\ members[i].attempt = 1
        => Satisfies(members[i].world, Pre[Act(i)])

\* No step of the plan is counted that was not carried out, whatever members
\* failed, were interrupted or died with the process; but, invoked, one whose
\* result a validator has rejected (parallel_executor.py:210; see Aborting). And no
\* action of the plan is carried out again, unless the node was interrupted or died
\* after it was.
StepsWereDone ==
  /\ pc = "observer" /\ plan # NoPlan =>
       1 .. step \subseteq IF entry = "ainvoke" THEN done ELSE done \cup refused
  /\ again = {}

\* Invoked, and while every action does what it declares, running whole waves is
\* running the plan: each commit leaves the world the planner predicted.
InvokedWavesFollowPlan ==
  pc = "observer" /\ plan # NoPlan /\ step > 0 /\ entry = "invoke" /\ smooth
    => world = plan.expected[step]

\* A concurrent wave may lose what a member wrote, but the loop notices and plans
\* again: while every action does what it declares the goal is reached.
LostEffectsAreRedone ==
  <>[](~smooth \/ pc = "waiting" \/ (pc = "end" /\ status = "goal_achieved"))

\* "Merge all effects into a single world_state update" (parallel_executor.py:298):
\* when every member of a wave did what it declares, the effects of all are in the
\* world the wave commits, the later ones on top.
AllEffectsMerged ==
  [][WaveCommits /\ smooth =>
       \A i \in DOMAIN members : \A k \in Mentioned(Eff[Act(i)]) :
         \/ \E j \in DOMAIN members : j > i /\ k \in Mentioned(Eff[Act(j)])
         \/ world'[k] = Eff[Act(i)][k]]_waveVars
=============================================================================
