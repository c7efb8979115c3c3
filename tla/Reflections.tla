----------------------------- MODULE Reflections -----------------------------
(***************************************************************************)
(* ReflexionTracer: each tracer remembers its newest reflections on failed *)
(* actions, loads those of earlier processes from the store once, and      *)
(* after every new one writes its whole list under the one key all tracers *)
(* of a store share. Loads and writes are awaited by the node that makes   *)
(* them; nodes of concurrent runs and members of a wave share a tracer.    *)
(* A reflection is its number, in the order they are made.                 *)
(***************************************************************************)
EXTENDS Naturals, Sequences, FiniteSets

CONSTANTS
  Tracers,         \* tracers on the store, one per process
  MaxReflections,  \* max_reflections
  MaxMade,         \* bound: reflections made in all
  MaxWrites        \* bound: writes of one tracer on their way to the store

ASSUME ReflectionsAssumption ==
  MaxReflections \in Nat \ {0} /\ MaxMade \in Nat /\ MaxWrites \in Nat

VARIABLES
  saved,    \* what is under the key, <<>> for nothing
  memory,   \* _reflections
  loaded,   \* _loaded
  loading,  \* a load is on its way
  writes,   \* lists on their way to the store
  made,     \* reflections made so far
  mine,     \* audit: reflections a tracer has made since it started and must have
  before    \* audit: how many of them it had made when its load set out

reflectionVars == <<saved, memory, loaded, loading, writes, made, mine, before>>

ReflectionsInit ==
  /\ saved = <<>>
  /\ memory = [t \in Tracers |-> <<>>]
  /\ loaded = [t \in Tracers |-> FALSE]
  /\ loading = [t \in Tracers |-> FALSE]
  /\ writes = [t \in Tracers |-> {}]
  /\ made = 0
  /\ mine = [t \in Tracers |-> <<>>]
  /\ before = [t \in Tracers |-> 0]

Newest(s) ==
  SubSeq(s, IF Len(s) > MaxReflections THEN Len(s) - MaxReflections + 1 ELSE 1, Len(s))

\* Plausible bug: every plan loads.
LoadAlways(t) == ~loading[t]

\* Only the first plan a tracer is told of loads; the flag is set before the read.
MustLoad(t) == ~loaded[t]

\* aload, up to its await.
StartLoad(t) ==
  /\ MustLoad(t)
  /\ loaded' = [loaded EXCEPT ![t] = TRUE]
  /\ loading' = [loading EXCEPT ![t] = TRUE]
  /\ before' = [before EXCEPT ![t] = Len(mine[t])]
  /\ UNCHANGED <<saved, memory, writes, made, mine>>

\* Plausible bug: what is loaded is appended.
AppendLoaded(t) == Newest(memory[t] \o saved)

\* A list in the store replaces the one in memory.
WithLoaded(t) == IF saved = <<>> THEN memory[t] ELSE Newest(saved)

\* The read comes back; a list it finds costs the tracer what it made meanwhile.
FinishLoad(t) ==
  /\ loading[t]
  /\ loading' = [loading EXCEPT ![t] = FALSE]
  /\ memory' = [memory EXCEPT ![t] = WithLoaded(t)]
  /\ mine' = [mine EXCEPT ![t] = IF saved = <<>> THEN @ ELSE SubSeq(@, 1, before[t])]
  /\ UNCHANGED <<saved, loaded, writes, made, before>>

\* The read raises: the tracer goes on with what it has and never loads again.
FailLoad(t) ==
  /\ loading[t]
  /\ loading' = [loading EXCEPT ![t] = FALSE]
  /\ UNCHANGED <<saved, memory, loaded, writes, made, mine, before>>

\* An action failed, in a run whose own planner has come back from the load.
Reflect(t) ==
  /\ loaded[t] /\ made < MaxMade /\ Cardinality(writes[t]) < MaxWrites
  /\ made' = made + 1
  /\ memory' = [memory EXCEPT ![t] = Newest(Append(@, made'))]
  /\ writes' = [writes EXCEPT ![t] = @ \cup {memory'[t]}]
  /\ mine' = [mine EXCEPT ![t] = Append(@, made')]
  /\ UNCHANGED <<saved, loaded, loading, before>>

\* A write reaches the store, in whatever order.
Land(t) ==
  /\ \E list \in writes[t] :
       saved' = list /\ writes' = [writes EXCEPT ![t] = @ \ {list}]
  /\ UNCHANGED <<memory, loaded, loading, made, mine, before>>

\* A write raises: it is logged and forgotten.
Drop(t) ==
  /\ \E list \in writes[t] : writes' = [writes EXCEPT ![t] = @ \ {list}]
  /\ UNCHANGED <<saved, memory, loaded, loading, made, mine, before>>

\* The process is restarted with a new tracer.
Restart(t) ==
  /\ memory' = [memory EXCEPT ![t] = <<>>]
  /\ loaded' = [loaded EXCEPT ![t] = FALSE]
  /\ loading' = [loading EXCEPT ![t] = FALSE]
  /\ writes' = [writes EXCEPT ![t] = {}]
  /\ mine' = [mine EXCEPT ![t] = <<>>]
  /\ before' = [before EXCEPT ![t] = 0]
  /\ UNCHANGED <<saved, made>>

ReflectionStep(t) ==
  \/ StartLoad(t) \/ FinishLoad(t) \/ FailLoad(t)
  \/ Reflect(t) \/ Land(t) \/ Drop(t) \/ Restart(t)

ReflectionsNext == \E t \in Tracers : ReflectionStep(t)

ReflectionsSpec == ReflectionsInit /\ [][ReflectionsNext]_reflectionVars
-----------------------------------------------------------------------------
Ascending(s) == \A i, j \in DOMAIN s : i < j => s[i] < s[j]

\* Oldest first, none twice and none too many, in memory and in the store, in
\* whatever order loads come back and writes of several tracers land.
ReflectionsInOrder ==
  /\ Ascending(saved) /\ Len(saved) <= MaxReflections
  /\ \A t \in Tracers : Ascending(memory[t]) /\ Len(memory[t]) <= MaxReflections

\* A tracer still has the newest reflections it made itself, whatever others write
\* to the key they share: only those made while its load was on its way go, and only
\* when the load comes back with a list. Those made later it remembers again.
RemembersOwn ==
  \A t \in Tracers :
    LET kept == Newest(mine[t])
        skip == Len(memory[t]) - Len(kept)
    IN  Len(kept) <= Len(memory[t]) /\ \A i \in DOMAIN kept : memory[t][skip + i] = kept[i]
=============================================================================
