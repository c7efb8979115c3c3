------------------------------ MODULE TraceRuns ------------------------------
(***************************************************************************)
(* LangSmithTracer and its SearchEventBuffer: one root run per plan, a     *)
(* child run per action under way, and the events of the search, sent to   *)
(* the service again in full with every flush. Expansions past max_events  *)
(* are only counted, in one marker that is updated in place. A call to the *)
(* service may fail, which is logged.                                      *)
(*                                                                         *)
(* The hooks are called in the order the graph calls them: a search        *)
(* between plan start and plan end, actions between that and the next.     *)
(***************************************************************************)
EXTENDS Integers, Sequences, FiniteSets

CONSTANTS
  Tools,        \* names of actions
  MaxEvents,    \* max_search_events
  FlushEvery,   \* flush_every
  MaxSeen,      \* bound: events of one search
  MaxRoots      \* bound: plans

ASSUME TraceAssumption ==
  /\ MaxEvents \in Nat \ {0} /\ FlushEvery \in Nat \ {0}
  /\ MaxSeen \in Nat /\ MaxRoots \in Nat

VARIABLES
  phase,       \* what the graph does: "idle", "planning", "acting"
  root,        \* _root_run_id: the roots are numbered; 0 for None
  roots,       \* roots created so far
  children,    \* _action_runs: the root a run was opened under, 0: no run
  events,      \* _events: kinds of events
  sinceFlush,  \* _events_since_flush
  expands,     \* _expand_count
  dropped,     \* _dropped_expansions, the number in the marker
  marker,      \* _truncation_index, counted from 1, 0 for None
  sent,        \* the service: search_events of the current root
  counted,     \* audit: expansions of the current search
  replans,     \* audit: roots of replans
  failed,      \* audit: the last upload of the current root failed
  partial      \* audit: roots that ended, and how many events the service lacks

buffer == <<events, sinceFlush, expands, dropped, marker>>
service == <<sent, failed>>
traceVars == <<phase, root, roots, children, buffer, service, counted, replans, partial>>

NothingSent == [events |-> <<>>, dropped |-> 0]

TraceInit ==
  /\ phase = "idle" /\ root = 0 /\ roots = 0
  /\ children = [a \in Tools |-> 0]
  /\ events = <<>> /\ sinceFlush = 0 /\ expands = 0 /\ dropped = 0 /\ marker = 0
  /\ sent = NothingSent
  /\ counted = 0 /\ replans = {}
  /\ failed = FALSE /\ partial = {}

\* An upload of everything in the buffer, if there is anything.
Upload(list, count) ==
  IF list = <<>> THEN UNCHANGED service
  ELSE \/ sent' = [events |-> list, dropped |-> count] /\ failed' = FALSE
       \/ UNCHANGED sent /\ failed' = TRUE

\* Events of a search: those in the list, and those the marker in it counts.
Amount(list, count) == Len(list) + (IF count = 0 THEN 0 ELSE count - 1)

\* The root ends; what the service has of its search is what it will have, unless
\* the last upload failed.
EndRoot(atService, uploadFailed) ==
  partial' =
    IF root = 0 \/ uploadFailed \/ atService = [events |-> events, dropped |-> dropped]
      THEN partial
      ELSE partial \cup {[root |-> root,
                          lacks |-> Amount(events, dropped)
                                      - Amount(atService.events, atService.dropped)]}

\* on_plan_start: a root that is still open is superseded, not flushed.
PlanStart ==
  /\ phase \in {"idle", "acting"} /\ roots < MaxRoots
  /\ phase' = "planning"
  /\ EndRoot(sent, failed)
  /\ sent' = NothingSent /\ failed' = FALSE
  /\ roots' = roots + 1 /\ root' = roots'
  /\ children' = [a \in Tools |-> 0]
  /\ events' = <<>> /\ sinceFlush' = 0 /\ expands' = 0 /\ dropped' = 0 /\ marker' = 0
  /\ counted' = 0 /\ replans' \in {replans, replans \cup {roots'}}

\* The flush threshold of add_expand and add_uncapped.
Added ==
  IF sinceFlush + 1 >= FlushEvery
    THEN Upload(events', dropped') /\ sinceFlush' = 0
    ELSE UNCHANGED service /\ sinceFlush' = sinceFlush + 1

Searching == phase = "planning" /\ Len(events) + dropped < MaxSeen

Expand ==
  /\ Searching /\ expands < MaxEvents
  /\ events' = Append(events, "expand") /\ expands' = expands + 1
  /\ counted' = counted + 1
  /\ UNCHANGED <<phase, root, roots, children, dropped, marker, replans, partial>>
  /\ Added

\* Plausible bug: every dropped expansion leaves a marker.
MarkEach == Append(events, "truncated")

\* One marker, where the first expansion was dropped.
Marked == IF marker = 0 THEN Append(events, "truncated") ELSE events

ExpandPastLimit ==
  /\ Searching /\ expands >= MaxEvents
  /\ dropped' = dropped + 1
  /\ events' = Marked
  /\ marker' = IF marker = 0 THEN Len(events) + 1 ELSE marker
  /\ counted' = counted + 1
  /\ UNCHANGED <<phase, root, roots, children, expands, replans, partial>>
  /\ Added

DeadEnd ==
  /\ Searching
  /\ events' = Append(events, "dead_end")
  /\ UNCHANGED <<phase, root, roots, children, expands, dropped, marker,
                 counted, replans, partial>>
  /\ Added

\* Plausible bug: only what the threshold has left over is sent.
FlushIfDue ==
  IF sinceFlush >= FlushEvery THEN Upload(events, dropped) ELSE UNCHANGED service

\* _flush_search_events
FlushAll == Upload(events, dropped)

PlanComplete ==
  /\ phase = "planning" /\ root \notin replans
  /\ phase' = "acting" /\ sinceFlush' = 0
  /\ FlushAll
  /\ UNCHANGED <<root, roots, children, events, expands, dropped, marker,
                 counted, replans, partial>>

\* on_replan, called in place of on_plan_complete, does not flush.
Replanned ==
  /\ phase = "planning" /\ root \in replans
  /\ phase' = "acting"
  /\ UNCHANGED <<root, roots, children, buffer, service, counted, replans, partial>>

\* on_plan_failed, of the planner or the observer, and on_goal_achieved.
RootEnds ==
  /\ phase \in {"planning", "acting"}
  /\ phase' = "idle" /\ sinceFlush' = 0
  /\ FlushAll
  /\ EndRoot(sent', failed')
  /\ root' = 0
  /\ UNCHANGED <<roots, children, events, expands, dropped, marker, counted, replans>>

ActionStart(a) ==
  /\ phase = "acting"
  /\ children' = [children EXCEPT ![a] = root]
  /\ UNCHANGED <<phase, root, roots, buffer, service, counted, replans, partial>>

ActionComplete(a) ==
  /\ phase = "acting" /\ children[a] # 0
  /\ children' = [children EXCEPT ![a] = 0]
  /\ UNCHANGED <<phase, root, roots, buffer, service, counted, replans, partial>>

TraceNext ==
  \/ PlanStart \/ Expand \/ ExpandPastLimit \/ DeadEnd
  \/ PlanComplete \/ Replanned \/ RootEnds
  \/ \E a \in Tools : ActionStart(a) \/ ActionComplete(a)

TraceSpec == TraceInit /\ [][TraceNext]_traceVars
-----------------------------------------------------------------------------
Positions(kind) == {i \in DOMAIN events : events[i] = kind}

\* Nothing of a search goes unaccounted: its expansions are the ones kept and the
\* number in the one marker, which stands where the first was dropped and after
\* as many as may be kept.
SearchIsAccounted ==
  /\ expands = Cardinality(Positions("expand")) /\ expands <= MaxEvents
  /\ counted = expands + dropped
  /\ Positions("truncated") = IF dropped = 0 THEN {} ELSE {marker}
  /\ dropped > 0 => \A i \in Positions("expand") : i < marker

\* A root that ends has all its events at the service unless the last upload failed.
\* Only a replan's root may lack some, and then less than one batch of them.
EndedRootsAreWhole == \A r \in partial : r.root \in replans /\ r.lacks < FlushEvery
=============================================================================
