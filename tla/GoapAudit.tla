------------------------------ MODULE GoapAudit ------------------------------
(***************************************************************************)
(* GoapLoop with an audit trail: history variables that record what really *)
(* happened, to hold the loop's own bookkeeping against. They read the     *)
(* loop's steps and restrict none.                                         *)
(***************************************************************************)
EXTENDS GoapLoop

VARIABLES
  reached,       \* sub-goals that have held at some point of the run
  ownReplans,    \* replanning rounds spent on the current sub-goal
  realFailures   \* failures of each action since failures were last forgotten

auditVars == <<vars, reached, ownReplans, realFailures>>

Holding(w, g) == {i \in DOMAIN g.goals : Satisfies(w, g.goals[i].conditions)}

FailsNow == pc \in {"executor", "waiting"} /\ status' = "action_failed"

AuditInit ==
  /\ Init
  /\ reached = Holding(world, goal)
  /\ ownReplans = 0
  /\ realFailures = NoFailures

\* An empty action_failure_counts is the loop forgetting on purpose.
AuditStep ==
  /\ reached' = reached \cup Holding(world', goal')
  /\ ownReplans' = IF subgoal' # subgoal THEN 0
                   ELSE IF replanCount' > replanCount THEN ownReplans + 1
                   ELSE ownReplans
  /\ realFailures' =
       IF FailsNow THEN [realFailures EXCEPT ![Current] = @ + 1]
       ELSE IF failures # NoFailures /\ failures' = NoFailures THEN NoFailures
       ELSE realFailures

AuditNext == Next /\ AuditStep

AuditSpec == AuditInit /\ [][AuditNext]_auditVars

\* ActionSpec.max_retries = N: after N + 1 failures in all the action is out of
\* the way, until its failures are forgotten on purpose.
RetriesAreHonoured ==
  \A a \in Actions : realFailures[a] <= MaxRetries[a] + 1

\* A sequential run that reports success has had every sub-goal hold.
EverySubgoalReached ==
  pc = "end" /\ status = "goal_achieved" /\ goal.mode = "sequential"
    => reached = DOMAIN goal.goals

\* Each sequential sub-goal has its own replan budget: a run whose strategy does
\* not give up by itself fails only when the current sub-goal has used its budget up.
SubgoalOwnBudget ==
  pc = "end" /\ status = "failed" /\ goal.mode = "sequential" /\ Active.strategy # "never"
    => ownReplans >= Active.max_replans
-----------------------------------------------------------------------------
(* Where the two properties of sequential goals are promised. *)

\* Whatever the world has come to and whatever is barred, the search finds a way to
\* every sub-goal.
Attainable ==
  \A w \in World, g \in InitialGoals, barred \in SUBSET Actions :
    \A i \in DOMAIN g.goals : NoPlan \notin Search(w, g.goals[i].conditions, barred)

\* A pass over the sensors never makes a sub-goal hold by itself.
SensorsAchieveNothing ==
  \A w \in World, g \in InitialGoals, reading \in SensorReadings :
    \A i \in DOMAIN g.goals :
      Satisfies(Apply(w, reading), g.goals[i].conditions) => Satisfies(w, g.goals[i].conditions)
=============================================================================
