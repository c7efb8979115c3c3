------------------------------ MODULE MCRecords ------------------------------
(* What runs leave behind: execution history, reflections and traces. The     *)
(* three share no state, so they are explored side by side, not interleaved.  *)
EXTENDS ExecutionHistory, Reflections, TraceRuns, TLC

VARIABLE part

parts == <<historyVars, reflectionVars, traceVars, part>>

RecordsInit ==
  /\ HistoryInit /\ ReflectionsInit /\ TraceInit
  /\ part \in {"history", "reflections", "traces"}

RecordsNext ==
  \/ part = "history" /\ HistoryNext /\ UNCHANGED <<reflectionVars, traceVars, part>>
  \/ part = "reflections" /\ ReflectionsNext /\ UNCHANGED <<historyVars, traceVars, part>>
  \/ part = "traces" /\ TraceNext /\ UNCHANGED <<historyVars, reflectionVars, part>>

RecordsSpec == RecordsInit /\ [][RecordsNext]_parts

\* A plan that uses an action twice, one of two actions, and none at all.
MCPlans == {<<"open", "open">>, <<"open", "go">>, <<>>}

Interchangeable == Permutations(Runs) \cup Permutations(GoalHashes)
=============================================================================
