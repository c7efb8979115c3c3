----------------------------- MODULE GoapThread -----------------------------
(***************************************************************************)
(* One checkpointed thread of a compiled graph, invoked again and again.   *)
(* The input of an invocation overwrites goal and world_state only         *)
(* (GoapGraph.invoke): every other channel keeps what the last run left    *)
(* there, whether that run ended, raised, or is suspended on a human.      *)
(***************************************************************************)
EXTENDS GoapLoop

\* Bound: no further invocation once the thread's replan_count, which
\* invocations inherit, has come to this.
CONSTANT MaxCarried

Invoke ==
  /\ pc \in {"end", "raised", "waiting"} /\ replanCount < MaxCarried
  /\ world' \in InitialWorlds
  /\ goal' \in InitialGoals
  /\ pc' = "planner" /\ draft' = NoDraft
  /\ UNCHANGED <<subgoal, plan, step, status, replanCount, blacklist, failures,
                 explained, lastFailed, succeeded>>

ThreadNext == Invoke \/ Next

ThreadSpec == Init /\ [][ThreadNext]_vars
=============================================================================
