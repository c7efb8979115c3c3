-------------------------- MODULE ExecutionHistory --------------------------
(***************************************************************************)
(* StoreExecutionHistory on a store shared by several runs of graphs. Every*)
(* run that ends puts one record under a fresh id and then pushes the id to*)
(* one list per goal and, when it failed, to one list per action of its    *)
(* plan. A push reads the list and writes it back: other runs may come in  *)
(* between any two calls to the store, and any call may raise or be the    *)
(* last thing the process does.                                            *)
(***************************************************************************)
EXTENDS Naturals, Sequences, FiniteSets

CONSTANTS
  Runs,         \* runs that use the store; a run's execution id is the run
  GoalHashes,   \* compute_goal_hash of the goals in use
  ActionNames,  \* names of actions
  PlanNames,    \* sequences of action names the plans may have
  EndsAs,       \* statuses the runs may end with
  IndexLimit,   \* index_limit
  Unstored      \* what the store returns for a key that was never put

\* _outcome_from_status: "terminated", the only other status, has no outcome.
OutcomeOf == [goal_achieved |-> "success", failed |-> "failed",
              no_plan |-> "failed", error |-> "failed"]

Record == [goal : GoalHashes, actions : Seq(ActionNames), outcome : {"success", "failed"}]

\* The keys of both index namespaces.
IndexKeys == ({"goal"} \X GoalHashes) \cup ({"failure"} \X ActionNames)

ASSUME HistoryAssumption ==
  /\ PlanNames \subseteq Seq(ActionNames)
  /\ EndsAs \subseteq DOMAIN OutcomeOf \cup {"terminated"}
  /\ IndexLimit \in Nat \ {0}
  /\ Unstored \notin Record

VARIABLES
  records,    \* the executions namespace
  index,      \* both index namespaces, <<>> for a missing key
  at,         \* where each run is in record()
  own,        \* the record a run is writing
  keys,       \* index keys it still has to push its id to
  seen,       \* the list it read last
  pushed,     \* audit: ids ever written to each list, newest first
  unseen,     \* audit: runs that wrote the list since a run read it
  lost        \* audit: runs whose id a writer of a list had not seen

historyVars == <<records, index, at, own, keys, seen, pushed, unseen, lost>>

HistoryInit ==
  /\ records = [r \in Runs |-> Unstored]
  /\ index = [k \in IndexKeys |-> <<>>]
  /\ at = [r \in Runs |-> "running"]
  /\ own = [r \in Runs |-> Unstored]
  /\ keys = [r \in Runs |-> <<>>]
  /\ seen = [r \in Runs |-> <<>>]
  /\ pushed = [k \in IndexKeys |-> <<>>]
  /\ unseen = [r \in Runs |-> {}]
  /\ lost = [k \in IndexKeys |-> {}]

FailureKeys(record) ==
  [i \in DOMAIN record.actions |-> <<"failure", record.actions[i]>>]

\* Plausible bug: every outcome is indexed under the plan's actions.
KeysOfAny(record) == <<<<"goal", record.goal>>>> \o FailureKeys(record)

KeysOf(record) ==
  IF record.outcome = "failed"
    THEN <<<<"goal", record.goal>>>> \o FailureKeys(record)
    ELSE <<<<"goal", record.goal>>>>

\* Plausible bug: the oldest ids are kept.
BoundedOldest(ids, run) ==
  IF Len(ids) < IndexLimit THEN <<run>> \o ids ELSE ids

\* Plausible bug: the new id goes to the end.
BoundedAppend(ids, run) == SubSeq(ids \o <<run>>, 1, IF Len(ids) < IndexLimit
                                                     THEN Len(ids) + 1 ELSE IndexLimit)

\* _bounded_id_list: newest first, at most IndexLimit of them.
Bounded(ids, run) == SubSeq(<<run>> \o ids, 1, IF Len(ids) < IndexLimit
                                               THEN Len(ids) + 1 ELSE IndexLimit)

\* The observer ends a run and builds its record: none for a status without an
\* outcome or a run without a goal.
EndRun(r) ==
  /\ at[r] = "running"
  /\ \/ /\ at' = [at EXCEPT ![r] = "ended"]
        /\ \E g \in GoalHashes, p \in PlanNames, status \in EndsAs \cap DOMAIN OutcomeOf :
             own' = [own EXCEPT ![r] = [goal |-> g, actions |-> p,
                                        outcome |-> OutcomeOf[status]]]
     \/ at' = [at EXCEPT ![r] = "done"] /\ UNCHANGED own
  /\ UNCHANGED <<records, index, keys, seen, pushed, unseen, lost>>

PutRecord(r) ==
  /\ at[r] = "ended"
  /\ records' = [records EXCEPT ![r] = own[r]]
  /\ keys' = [keys EXCEPT ![r] = KeysOf(own[r])]
  /\ at' = [at EXCEPT ![r] = "reading"]
  /\ UNCHANGED <<index, own, seen, pushed, unseen, lost>>

ReadIds(r) ==
  /\ at[r] = "reading"
  /\ seen' = [seen EXCEPT ![r] = index[Head(keys[r])]]
  /\ at' = [at EXCEPT ![r] = "writing"]
  /\ UNCHANGED <<records, index, own, keys, pushed, unseen, lost>>

\* Runs that have read list k and not yet written it back.
Pushing(k) == {r \in Runs : at[r] = "writing" /\ Head(keys[r]) = k}

WriteIds(r) ==
  /\ at[r] = "writing"
  /\ LET k == Head(keys[r]) IN
     /\ index' = [index EXCEPT ![k] = Bounded(seen[r], r)]
     /\ pushed' = [pushed EXCEPT ![k] = <<r>> \o @]
     /\ unseen' = [q \in Runs |-> IF q = r THEN {}
                                  ELSE IF q \in Pushing(k) THEN unseen[q] \cup {r}
                                  ELSE unseen[q]]
     /\ lost' = [lost EXCEPT ![k] = (@ \cup unseen[r]) \ {r}]
  /\ keys' = [keys EXCEPT ![r] = Tail(@)]
  /\ seen' = [seen EXCEPT ![r] = <<>>]
  /\ at' = [at EXCEPT ![r] = IF Len(keys[r]) = 1 THEN "done" ELSE "reading"]
  /\ UNCHANGED <<records, own>>

\* A call to the store raises, which the observer swallows, or the process dies.
BreakOff(r) ==
  /\ at[r] \in {"ended", "reading", "writing"}
  /\ at' = [at EXCEPT ![r] = "broken"]
  /\ keys' = [keys EXCEPT ![r] = <<>>] /\ seen' = [seen EXCEPT ![r] = <<>>]
  /\ unseen' = [unseen EXCEPT ![r] = {}]
  /\ UNCHANGED <<records, index, own, pushed, lost>>

HistoryStep(r) == EndRun(r) \/ PutRecord(r) \/ ReadIds(r) \/ WriteIds(r) \/ BreakOff(r)

HistoryNext == \E r \in Runs : HistoryStep(r)

HistorySpec == HistoryInit /\ [][HistoryNext]_historyVars

\* _fetch_records: the first ids of a list whose records are there, up to a limit.
Present(k) == {i \in DOMAIN index[k] : records[index[k][i]] # Unstored}

Query(k, limit) ==
  {index[k][i] : i \in {i \in Present(k) : Cardinality({j \in Present(k) : j <= i}) <= limit}}
-----------------------------------------------------------------------------
\* What a list names belongs there: a stored record of that goal, or one of a
\* failed run whose plan has that action, wherever writers broke off or overlapped.
IndexedBelongs ==
  \A k \in IndexKeys : \A i \in DOMAIN index[k] :
    LET record == records[index[k][i]] IN
    /\ record # Unstored
    /\ k[1] = "goal" => record.goal = k[2]
    /\ k[1] = "failure" => record.outcome = "failed" /\
         \E j \in DOMAIN record.actions : record.actions[j] = k[2]

\* A run that recorded to the end is found under its goal, and under each action
\* of a failed plan, until IndexLimit newer ids came. Only a writer that had read the
\* list before the run wrote it, and writes after it, can lose it (the race
\* history.py:37-40 accepts): the other runs in the list stay, and so does one that
\* a writer which breaks off had not seen.
FinishedAreFound ==
  \A r \in Runs : at[r] = "done" /\ own[r] # Unstored =>
    \A i \in DOMAIN KeysOf(own[r]) :
      LET k == KeysOf(own[r])[i] IN
      r \notin lost[k] =>
        \/ r \in Query(k, IndexLimit)
        \/ \A j \in 1 .. IndexLimit : j \in DOMAIN pushed[k] /\ pushed[k][j] # r

\* Newest first, even of lists that lost ids to a race: an id stands before another
\* in a list only if it was pushed after it.
NewestFirst ==
  \A k \in IndexKeys : \A i, j \in DOMAIN index[k] : i < j =>
    \E m, n \in DOMAIN pushed[k] :
      m < n /\ pushed[k][m] = index[k][i] /\ pushed[k][n] = index[k][j]
=============================================================================
