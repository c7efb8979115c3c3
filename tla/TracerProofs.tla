----------------------------- MODULE TracerProofs -----------------------------
(***************************************************************************)
(* What the tracers promise, for every limit and every length of a search:  *)
(* the search events of LangSmithTracer and the reflections of              *)
(* ReflexionTracer.                                                         *)
(***************************************************************************)
EXTENDS Reflections, TraceRuns, SequenceTheorems, FiniteSetTheorems, TLAPS
-----------------------------------------------------------------------------
(* Search events. *)

Kinds == {"expand", "truncated", "dead_end"}

BufferInv ==
  /\ events \in Seq(Kinds)
  /\ expands \in Nat /\ dropped \in Nat /\ marker \in Nat /\ counted \in Nat
  /\ IsFiniteSet(Positions("expand"))
  /\ expands = Cardinality(Positions("expand")) /\ expands <= MaxEvents
  /\ counted = expands + dropped
  /\ dropped = 0 <=> marker = 0
  /\ dropped > 0 => expands = MaxEvents
  /\ Positions("truncated") = IF dropped = 0 THEN {} ELSE {marker}
  /\ dropped > 0 => \A i \in Positions("expand") : i < marker

\* An event more: its kind gets the new last position, the other kinds none.
LEMMA PositionsAfter ==
  ASSUME events \in Seq(Kinds), NEW kind \in Kinds, events' = Append(events, kind)
  PROVE  /\ events' \in Seq(Kinds)
         /\ Len(events) + 1 \notin Positions(kind)
         /\ \A k \in Kinds :
              Positions(k)' = IF k = kind THEN Positions(k) \cup {Len(events) + 1}
                              ELSE Positions(k)
         /\ \A k \in Kinds : \A i \in Positions(k) : i \in Nat /\ i < Len(events) + 1
<1>1. /\ events' \in Seq(Kinds) /\ Len(events) \in Nat
      /\ DOMAIN events = 1 .. Len(events) /\ DOMAIN events' = 1 .. Len(events) + 1
      /\ events'[Len(events) + 1] = kind
      /\ \A i \in 1 .. Len(events) : events'[i] = events[i]
  OBVIOUS
<1>2. ASSUME NEW k \in Kinds
      PROVE  Positions(k)' = IF k = kind THEN Positions(k) \cup {Len(events) + 1}
                             ELSE Positions(k)
  <2>1. /\ Positions(k) = {i \in 1 .. Len(events) : events[i] = k}
        /\ Positions(k)' = {i \in 1 .. Len(events) + 1 : events'[i] = k}
    BY <1>1 DEF Positions
  <2>2. 1 .. Len(events) + 1 = (1 .. Len(events)) \cup {Len(events) + 1}
    BY <1>1
  <2> QED
    BY <1>1, <2>1, <2>2
<1> QED
  BY <1>1, <1>2 DEF Positions

LEMMA BufferInitially == TraceInit => BufferInv
<1> SUFFICES ASSUME TraceInit PROVE BufferInv
  OBVIOUS
<1>1. events = <<>> /\ expands = 0 /\ dropped = 0 /\ marker = 0 /\ counted = 0
  BY DEF TraceInit
<1>2. \A k \in Kinds : Positions(k) = {}
  BY <1>1 DEF Positions
<1>3. IsFiniteSet({}) /\ Cardinality({}) = 0
  BY FS_EmptySet
<1>4. Positions("expand") = {} /\ Positions("truncated") = {} /\ events \in Seq(Kinds)
  BY <1>1, <1>2 DEF Kinds
<1> QED
  BY <1>1, <1>3, <1>4, TraceAssumption DEF BufferInv

LEMMA BufferEmptied ==
  ASSUME events' = <<>>, expands' = 0, dropped' = 0, marker' = 0, counted' = 0
  PROVE  BufferInv'
<1>1. \A k \in Kinds : Positions(k)' = {}
  BY DEF Positions
<1>2. IsFiniteSet({}) /\ Cardinality({}) = 0
  BY FS_EmptySet
<1> QED
  BY <1>1, <1>2, TraceAssumption DEF BufferInv, Kinds

LEMMA ExpandStep == ASSUME BufferInv, Expand PROVE BufferInv'
<1> DEFINE n == Len(events) + 1
<1>1. /\ events \in Seq(Kinds) /\ events' = Append(events, "expand") /\ "expand" \in Kinds
      /\ expands < MaxEvents /\ expands' = expands + 1 /\ counted' = counted + 1
      /\ UNCHANGED <<dropped, marker>> /\ "truncated" \in Kinds
  BY DEF BufferInv, Expand, Kinds
<1>2. /\ events' \in Seq(Kinds) /\ n \notin Positions("expand")
      /\ Positions("expand")' = Positions("expand") \cup {n}
      /\ Positions("truncated")' = Positions("truncated")
  BY <1>1, PositionsAfter
<1>3. /\ IsFiniteSet(Positions("expand")')
      /\ Cardinality(Positions("expand")') = Cardinality(Positions("expand")) + 1
  BY <1>2, FS_AddElement DEF BufferInv
<1>4. dropped = 0
  BY <1>1, TraceAssumption DEF BufferInv
<1> HIDE DEF n
<1> QED
  BY <1>1, <1>2, <1>3, <1>4, TraceAssumption DEF BufferInv

LEMMA PastLimitStep == ASSUME BufferInv, ExpandPastLimit PROVE BufferInv'
<1> DEFINE n == Len(events) + 1
<1>1. /\ events \in Seq(Kinds) /\ "truncated" \in Kinds /\ "expand" \in Kinds
      /\ expands >= MaxEvents /\ expands' = expands /\ counted' = counted + 1
      /\ dropped' = dropped + 1 /\ events' = Marked
      /\ marker' = IF marker = 0 THEN n ELSE marker
  BY DEF BufferInv, ExpandPastLimit, Kinds
<1>2. expands = MaxEvents
  BY <1>1, TraceAssumption DEF BufferInv
<1>3. CASE marker = 0
  <2>1. events' = Append(events, "truncated") /\ marker' = n
    BY <1>1, <1>3 DEF Marked
  <2>2. /\ events' \in Seq(Kinds)
        /\ Positions("expand")' = Positions("expand")
        /\ Positions("truncated")' = Positions("truncated") \cup {n}
        /\ \A i \in Positions("expand") : i < n
    BY <1>1, <2>1, PositionsAfter
  <2>3. Positions("truncated") = {} /\ dropped = 0 /\ n \in Nat /\ n # 0
    BY <1>1, <1>3 DEF BufferInv
  <2> HIDE DEF n
  <2> QED
    BY <1>1, <1>2, <2>1, <2>2, <2>3, TraceAssumption DEF BufferInv
<1>4. CASE marker # 0
  <2>1. events' = events /\ marker' = marker
    BY <1>1, <1>4 DEF Marked
  <2>2. Positions("expand")' = Positions("expand") /\ Positions("truncated")' = Positions("truncated")
    BY <2>1 DEF Positions
  <2> QED
    BY <1>1, <1>2, <1>4, <2>1, <2>2, TraceAssumption DEF BufferInv
<1> QED
  BY <1>3, <1>4

LEMMA DeadEndStep == ASSUME BufferInv, DeadEnd PROVE BufferInv'
<1>1. /\ events \in Seq(Kinds) /\ events' = Append(events, "dead_end")
      /\ "dead_end" \in Kinds /\ "expand" \in Kinds /\ "truncated" \in Kinds
      /\ UNCHANGED <<expands, dropped, marker, counted>>
  BY DEF BufferInv, DeadEnd, Kinds
<1>2. /\ events' \in Seq(Kinds)
      /\ Positions("expand")' = Positions("expand")
      /\ Positions("truncated")' = Positions("truncated")
  BY <1>1, PositionsAfter
<1> QED
  BY <1>1, <1>2 DEF BufferInv

LEMMA BufferStep == BufferInv /\ [TraceNext]_traceVars => BufferInv'
<1> SUFFICES ASSUME BufferInv, [TraceNext]_traceVars PROVE BufferInv'
  OBVIOUS
<1>1. CASE PlanStart
  BY <1>1, BufferEmptied DEF PlanStart
<1>2. ASSUME UNCHANGED <<events, expands, dropped, marker, counted>> PROVE BufferInv'
  BY <1>2 DEF BufferInv, Positions
<1>3. CASE PlanComplete \/ Replanned \/ RootEnds \/ UNCHANGED traceVars
  BY <1>2, <1>3 DEF PlanComplete, Replanned, RootEnds, traceVars, buffer
<1>4. CASE \E a \in Tools : ActionStart(a) \/ ActionComplete(a)
  BY <1>2, <1>4 DEF ActionStart, ActionComplete, buffer
<1> QED
  BY <1>1, <1>3, <1>4, ExpandStep, PastLimitStep, DeadEndStep DEF TraceNext

\* However long the search, however small the limit and the batches and whichever
\* uploads fail: its expansions are the ones kept and the number in the one marker.
THEOREM NothingUnaccounted == TraceSpec => []SearchIsAccounted
<1>1. BufferInv => SearchIsAccounted
  BY DEF BufferInv, SearchIsAccounted
<1> QED
  BY <1>1, BufferInitially, BufferStep, PTL DEF TraceSpec
-----------------------------------------------------------------------------
(* Roots. *)

\* What an ending root may leave behind: unless the last upload failed, the service
\* has all but the events since the last flush, which are fewer than a batch; only a
\* replan's root need not have flushed.
RootInv ==
  /\ root \in Nat /\ roots \in Nat /\ root <= roots
  /\ phase \in {"idle", "planning", "acting"}
  /\ phase = "idle" => root = 0
  /\ sinceFlush \in Nat /\ sinceFlush < FlushEvery
  /\ sent.events \in Seq(Kinds) /\ sent.dropped \in Nat
  /\ events = <<>> => sent = NothingSent /\ dropped = 0
  /\ ~failed => Amount(events, dropped) - Amount(sent.events, sent.dropped) = sinceFlush
  /\ phase = "acting" /\ root \notin replans =>
       failed \/ sent = [events |-> events, dropped |-> dropped]
  /\ EndedRootsAreWhole

LEMMA AmountIsInt ==
  ASSUME NEW list \in Seq(Kinds), NEW count \in Nat
  PROVE  Amount(list, count) \in Int
BY DEF Amount

\* A flush sends all there is, or fails.
LEMMA FlushSendsAll ==
  ASSUME RootInv, BufferInv, FlushAll
  PROVE  /\ failed' \/ sent' = [events |-> events, dropped |-> dropped]
         /\ events = <<>> => sent' = NothingSent
         /\ sent'.events \in Seq(Kinds) /\ sent'.dropped \in Nat
         /\ ~failed' => Amount(events, dropped) - Amount(sent'.events, sent'.dropped) = 0
<1>1. /\ failed' \/ sent' = [events |-> events, dropped |-> dropped]
      /\ events = <<>> => sent' = NothingSent
  BY DEF RootInv, FlushAll, Upload, service, NothingSent
<1>2. sent' = sent \/ sent' = [events |-> events, dropped |-> dropped]
  BY DEF FlushAll, Upload, service
<1>3. sent'.events \in Seq(Kinds) /\ sent'.dropped \in Nat
  BY <1>2 DEF RootInv, BufferInv
<1>4. Amount(events, dropped) \in Int
  BY AmountIsInt DEF BufferInv
<1>5. sent' = [events |-> events, dropped |-> dropped] =>
        Amount(events, dropped) - Amount(sent'.events, sent'.dropped) = 0
  BY <1>4
<1> QED
  BY <1>1, <1>3, <1>5

\* An event more is one event more to send; with it a batch may be full.
LEMMA AddedStep ==
  ASSUME RootInv, BufferInv, BufferInv', Added, events' # <<>>,
         UNCHANGED <<phase, root, roots, replans, partial>>, phase = "planning",
         Amount(events', dropped') = Amount(events, dropped) + 1
  PROVE  RootInv'
<1>1. /\ events' \in Seq(Kinds) /\ dropped' \in Nat /\ events \in Seq(Kinds) /\ dropped \in Nat
      /\ sinceFlush \in Nat /\ sinceFlush < FlushEvery /\ FlushEvery \in Nat \ {0}
      /\ sent.events \in Seq(Kinds) /\ sent.dropped \in Nat
  BY TraceAssumption DEF RootInv, BufferInv
<1>2. /\ Amount(events, dropped) \in Int /\ Amount(events', dropped') \in Int
      /\ Amount(sent.events, sent.dropped) \in Int
  BY <1>1, AmountIsInt
<1>3. CASE sinceFlush + 1 >= FlushEvery
  <2>1. /\ sinceFlush' = 0
        /\ \/ sent' = [events |-> events', dropped |-> dropped'] /\ failed' = FALSE
           \/ sent' = sent /\ failed' = TRUE
    BY <1>3 DEF Added, Upload
  <2>2. sent'.events \in Seq(Kinds) /\ sent'.dropped \in Nat
    BY <1>1, <2>1
  <2>3. ~failed' => Amount(events', dropped') - Amount(sent'.events, sent'.dropped) = 0
    BY <1>2, <2>1
  <2> QED
    BY <1>1, <2>1, <2>2, <2>3 DEF RootInv, EndedRootsAreWhole
<1>4. CASE ~(sinceFlush + 1 >= FlushEvery)
  <2>1. sinceFlush' = sinceFlush + 1 /\ sent' = sent /\ failed' = failed
    BY <1>4 DEF Added, service
  <2>2. ~failed => Amount(events, dropped) - Amount(sent.events, sent.dropped) = sinceFlush
    BY DEF RootInv
  <2>3. ~failed' =>
          Amount(events', dropped') - Amount(sent'.events, sent'.dropped) = sinceFlush'
    BY <1>1, <1>2, <2>1, <2>2
  <2>4. sinceFlush' \in Nat /\ sinceFlush' < FlushEvery
    BY <1>1, <1>4, <2>1
  <2> QED
    BY <1>1, <2>1, <2>3, <2>4 DEF RootInv, EndedRootsAreWhole
<1> QED
  BY <1>3, <1>4

\* Each of the three kinds of additions adds one.
LEMMA AddsOne ==
  ASSUME BufferInv, Expand \/ ExpandPastLimit \/ DeadEnd
  PROVE  events' # <<>> /\ Amount(events', dropped') = Amount(events, dropped) + 1
<1>1. events \in Seq(Kinds) /\ dropped \in Nat /\ Len(events) \in Nat
  BY DEF BufferInv
<1>2. \A k \in Kinds : Append(events, k) # <<>> /\ Len(Append(events, k)) = Len(events) + 1
  BY <1>1, AppendProperties
<1>3. CASE Expand \/ DeadEnd
  <2>1. /\ events' = Append(events, "expand") \/ events' = Append(events, "dead_end")
        /\ dropped' = dropped
    BY <1>3 DEF Expand, DeadEnd
  <2>2. events' # <<>> /\ Len(events') = Len(events) + 1
    BY <1>2, <2>1 DEF Kinds
  <2> QED
    BY <1>1, <2>1, <2>2 DEF Amount
<1>4. CASE ExpandPastLimit
  <2>1. dropped' = dropped + 1 /\ events' = Marked /\ (dropped = 0 <=> marker = 0)
    BY <1>4 DEF ExpandPastLimit, BufferInv
  <2>2. CASE marker = 0
    <3>1. events' = Append(events, "truncated") /\ dropped = 0
      BY <2>1, <2>2 DEF Marked
    <3>2. events' # <<>> /\ Len(events') = Len(events) + 1
      BY <1>2, <3>1 DEF Kinds
    <3> QED
      BY <1>1, <2>1, <3>1, <3>2 DEF Amount
  <2>3. CASE marker # 0
    <3>1. events' = events /\ dropped # 0
      BY <2>1, <2>3 DEF Marked
    <3>2. events # <<>>
      <4> SUFFICES ASSUME events = <<>> PROVE FALSE
        OBVIOUS
      <4>1. DOMAIN events = {}
        OBVIOUS
      <4>2. Positions("truncated") = {} /\ Positions("truncated") = {marker}
        BY <3>1, <4>1 DEF BufferInv, Positions
      <4> QED
        BY <4>2
    <3> QED
      BY <1>1, <2>1, <3>1, <3>2 DEF Amount
  <2> QED
    BY <2>2, <2>3
<1> QED
  BY <1>3, <1>4

LEMMA RootStep == RootInv /\ BufferInv /\ BufferInv' /\ [TraceNext]_traceVars => RootInv'
<1> SUFFICES ASSUME RootInv, BufferInv, BufferInv', [TraceNext]_traceVars PROVE RootInv'
  OBVIOUS
<1>1. CASE PlanStart
  <2>1. /\ root' = roots + 1 /\ roots' = roots + 1 /\ phase' = "planning"
        /\ sent' = NothingSent /\ events' = <<>> /\ dropped' = 0 /\ sinceFlush' = 0
        /\ replans \subseteq replans' /\ EndRoot(sent, failed)
        /\ phase \in {"idle", "acting"}
    BY <1>1 DEF PlanStart
  <2>2. EndedRootsAreWhole'
    <3> SUFFICES ASSUME NEW r \in partial' PROVE r.root \in replans' /\ r.lacks < FlushEvery
      BY DEF EndedRootsAreWhole
    <3>1. CASE r \in partial
      BY <2>1, <3>1 DEF RootInv, EndedRootsAreWhole
    <3>2. CASE r \notin partial
      <4>1. /\ root # 0 /\ ~failed /\ sent # [events |-> events, dropped |-> dropped]
            /\ r = [root |-> root, lacks |-> Amount(events, dropped)
                                                - Amount(sent.events, sent.dropped)]
        BY <2>1, <3>2 DEF EndRoot
      <4>2. r.root = root /\ r.lacks = sinceFlush /\ sinceFlush < FlushEvery
        BY <4>1 DEF RootInv
      <4>3. root \in replans
        BY <2>1, <4>1 DEF RootInv
      <4> QED
        BY <2>1, <4>2, <4>3
    <3> QED
      BY <3>1, <3>2
  <2>3. Amount(<<>>, 0) - Amount(NothingSent.events, NothingSent.dropped) = 0
    BY DEF Amount, NothingSent
  <2>4. NothingSent.events \in Seq(Kinds) /\ NothingSent.dropped \in Nat
    BY DEF NothingSent
  <2> QED
    BY <2>1, <2>2, <2>3, <2>4, TraceAssumption DEF RootInv
<1>2. CASE Expand \/ ExpandPastLimit \/ DeadEnd
  <2>1. UNCHANGED <<phase, root, roots, replans, partial>> /\ phase = "planning" /\ Added
    BY <1>2 DEF Expand, ExpandPastLimit, DeadEnd, Searching
  <2> QED
    BY <1>2, <2>1, AddsOne, AddedStep
<1>3. CASE PlanComplete
  <2>1. /\ UNCHANGED <<root, roots, events, dropped, replans, partial>>
        /\ phase = "planning" /\ phase' = "acting" /\ sinceFlush' = 0 /\ FlushAll
    BY <1>3 DEF PlanComplete
  <2> QED
    BY <2>1, FlushSendsAll, TraceAssumption DEF RootInv, EndedRootsAreWhole
<1>4. CASE Replanned
  BY <1>4 DEF Replanned, RootInv, EndedRootsAreWhole, buffer, service
<1>5. CASE RootEnds
  <2>1. /\ UNCHANGED <<roots, events, dropped, replans>>
        /\ phase' = "idle" /\ root' = 0 /\ sinceFlush' = 0
        /\ FlushAll /\ EndRoot(sent', failed')
    BY <1>5 DEF RootEnds
  <2>2. partial' = partial
    BY <2>1, FlushSendsAll DEF EndRoot
  <2> QED
    BY <2>1, <2>2, FlushSendsAll, TraceAssumption DEF RootInv, EndedRootsAreWhole
<1>6. ASSUME NEW a \in Tools, ActionStart(a) \/ ActionComplete(a) PROVE RootInv'
  <2>1. UNCHANGED <<phase, root, roots, buffer, service, replans, partial>>
    BY <1>6 DEF ActionStart, ActionComplete
  <2> QED
    BY <2>1 DEF RootInv, EndedRootsAreWhole, buffer, service
<1>7. CASE UNCHANGED traceVars
  BY <1>7 DEF traceVars, buffer, service, RootInv, EndedRootsAreWhole
<1> QED
  BY <1>1, <1>2, <1>3, <1>4, <1>5, <1>6, <1>7 DEF TraceNext

\* A root that ends has all its events at the service unless the last upload failed;
\* only a replan's root may lack some, fewer than a batch.
THEOREM RootsEndWhole == TraceSpec => []EndedRootsAreWhole
<1>1. TraceInit => RootInv
  <2> SUFFICES ASSUME TraceInit PROVE RootInv
    OBVIOUS
  <2>1. /\ phase = "idle" /\ root = 0 /\ roots = 0 /\ events = <<>> /\ sinceFlush = 0
        /\ dropped = 0 /\ sent = NothingSent /\ partial = {}
    BY DEF TraceInit
  <2>2. Amount(<<>>, 0) - Amount(NothingSent.events, NothingSent.dropped) = 0
    BY DEF Amount, NothingSent
  <2>3. NothingSent.events \in Seq(Kinds) /\ NothingSent.dropped \in Nat
    BY DEF NothingSent
  <2> QED
    BY <2>1, <2>2, <2>3, TraceAssumption DEF RootInv, EndedRootsAreWhole
<1>2. RootInv => EndedRootsAreWhole
  BY DEF RootInv
<1> QED
  BY <1>1, <1>2, BufferInitially, BufferStep, RootStep, PTL DEF TraceSpec
-----------------------------------------------------------------------------
(* Reflections. *)

\* The newest entries are the last ones, in their order.
LEMMA NewestIs ==
  ASSUME NEW S, NEW s \in Seq(S)
  PROVE  /\ Newest(s) \in Seq(S) /\ Len(Newest(s)) <= MaxReflections
         /\ \E d \in Nat : \A i \in DOMAIN Newest(s) :
              i + d \in DOMAIN s /\ Newest(s)[i] = s[i + d]
<1> DEFINE n == Len(s)
           m == IF n > MaxReflections THEN n - MaxReflections + 1 ELSE 1
           b == SubSeq(s, m, n)
<1>1. n \in Nat /\ DOMAIN s = 1 .. n /\ \A i \in 1 .. n : s[i] \in S
  OBVIOUS
<1>2. m \in Nat /\ m >= 1 /\ m - 1 \in Nat /\ n - m + 1 <= MaxReflections /\ n - m + 1 \in Nat
  BY <1>1, ReflectionsAssumption
<1>3. Newest(s) = b
  BY DEF Newest
<1> HIDE DEF n, m
<1>4. /\ b \in Seq(S)
      /\ Len(b) = IF m <= n THEN n - m + 1 ELSE 0
      /\ \A i \in 1 .. n - m + 1 : b[i] = s[m + i - 1]
  <2>1. \A i \in m .. n : s[i] \in S
    BY <1>1, <1>2
  <2> HIDE DEF b
  <2> QED
    BY <1>1, <1>2, <2>1, SubSeqProperties, m \in Int, n \in Int DEF b
<1> HIDE DEF b
<1>5. Len(b) = n - m + 1 /\ DOMAIN b = 1 .. n - m + 1
  BY <1>1, <1>2, <1>4
<1>6. \A i \in 1 .. n - m + 1 : i + (m - 1) \in 1 .. n /\ b[i] = s[i + (m - 1)]
  <2>1. \A i \in 1 .. n - m + 1 : m + i - 1 = i + (m - 1) /\ i + (m - 1) \in 1 .. n
    BY <1>1, <1>2
  <2> QED
    BY <1>4, <2>1
<1>7. \E d \in Nat : \A i \in DOMAIN b : i + d \in DOMAIN s /\ b[i] = s[i + d]
  BY <1>1, <1>2, <1>5, <1>6
<1> QED
  BY <1>2, <1>3, <1>4, <1>5, <1>7

\* A list a tracer keeps or sends: reflections up to the n-th, oldest first.
IsList(s, n) == s \in Seq(1 .. n) /\ Ascending(s) /\ Len(s) <= MaxReflections

LEMMA NewestAscends ==
  ASSUME NEW n \in Nat, NEW s \in Seq(1 .. n), Ascending(s)
  PROVE  IsList(Newest(s), n)
<1>1. /\ Newest(s) \in Seq(1 .. n) /\ Len(Newest(s)) <= MaxReflections
  BY NewestIs
<1>2. PICK d \in Nat : \A i \in DOMAIN Newest(s) :
                         i + d \in DOMAIN s /\ Newest(s)[i] = s[i + d]
  BY NewestIs
<1>3. DOMAIN Newest(s) \subseteq Nat
  BY <1>1
<1>4. ASSUME NEW i \in DOMAIN Newest(s), NEW j \in DOMAIN Newest(s), i < j
      PROVE  Newest(s)[i] < Newest(s)[j]
  <2>1. i + d < j + d
    BY <1>3, <1>4
  <2> QED
    BY <1>2, <2>1 DEF Ascending
<1> QED
  BY <1>1, <1>4 DEF IsList, Ascending

LEMMA AppendAscends ==
  ASSUME NEW n \in Nat, NEW s, IsList(s, n)
  PROVE  IsList(Newest(Append(s, n + 1)), n + 1)
<1> DEFINE b == Append(s, n + 1)
<1>1. /\ s \in Seq(1 .. n) /\ Ascending(s)
      /\ \A i \in 1 .. n : i \in 1 .. n + 1
  BY DEF IsList
<1>2. s \in Seq(1 .. n + 1) /\ Len(s) \in Nat /\ DOMAIN s = 1 .. Len(s)
  BY <1>1
<1>3. /\ b \in Seq(1 .. n + 1) /\ DOMAIN b = 1 .. Len(s) + 1
      /\ \A i \in 1 .. Len(s) : b[i] = s[i]
      /\ b[Len(s) + 1] = n + 1
  BY <1>2
<1>4. \A i \in 1 .. Len(s) : s[i] \in 1 .. n
  BY <1>1
<1> HIDE DEF b
<1>5. ASSUME NEW i \in 1 .. Len(s) + 1, NEW j \in 1 .. Len(s) + 1, i < j
      PROVE  b[i] < b[j]
  <2>1. i \in 1 .. Len(s)
    BY <1>2, <1>5
  <2>2. CASE j = Len(s) + 1
    BY <1>3, <1>4, <2>1, <2>2
  <2>3. CASE j # Len(s) + 1
    <3>1. j \in 1 .. Len(s)
      BY <1>2, <2>3
    <3> QED
      BY <1>1, <1>2, <1>3, <1>5, <2>1, <3>1 DEF Ascending
  <2> QED
    BY <2>2, <2>3
<1>6. Ascending(b)
  BY <1>3, <1>5 DEF Ascending
<1>7. n + 1 \in Nat
  OBVIOUS
<1>8. IsList(Newest(b), n + 1)
  BY <1>3, <1>6, <1>7, NewestAscends
<1> QED
  BY <1>8 DEF b

LEMMA ListsGrow ==
  ASSUME NEW n \in Nat, NEW s, IsList(s, n)
  PROVE  IsList(s, n + 1)
<1>1. s \in Seq(1 .. n) /\ \A i \in 1 .. n : i \in 1 .. n + 1
  BY DEF IsList
<1>2. s \in Seq(1 .. n + 1)
  BY <1>1
<1> QED
  BY <1>2 DEF IsList

ListInv ==
  /\ made \in Nat
  /\ IsList(saved, made)
  /\ DOMAIN memory = Tracers /\ DOMAIN writes = Tracers
  /\ \A t \in Tracers : IsList(memory[t], made) /\ \A list \in writes[t] : IsList(list, made)

LEMMA EmptyIsList == \A n \in Nat : IsList(<<>>, n)
BY ReflectionsAssumption DEF IsList, Ascending

LEMMA ListStep ==
  ASSUME ListInv, NEW t \in Tracers, ReflectionStep(t)
  PROVE  ListInv'
<1>1. CASE StartLoad(t) \/ FailLoad(t)
  BY <1>1 DEF StartLoad, FailLoad, ListInv
<1>2. CASE FinishLoad(t)
  <2>1. IsList(WithLoaded(t), made)
    <3>1. made \in Nat /\ saved \in Seq(1 .. made) /\ Ascending(saved)
      BY DEF ListInv, IsList
    <3> QED
      BY <3>1, NewestAscends DEF WithLoaded, ListInv
  <2>2. memory' = [memory EXCEPT ![t] = WithLoaded(t)] /\ UNCHANGED <<saved, writes, made>>
    BY <1>2 DEF FinishLoad
  <2> QED
    BY <2>1, <2>2 DEF ListInv
<1>3. CASE Reflect(t)
  <2> DEFINE list == Newest(Append(memory[t], made + 1))
  <2>1. /\ made' = made + 1 /\ saved' = saved
        /\ memory' = [memory EXCEPT ![t] = list]
        /\ writes' = [writes EXCEPT ![t] = @ \cup {list}]
    BY <1>3 DEF Reflect, ListInv
  <2>2. made \in Nat /\ made + 1 \in Nat /\ IsList(list, made + 1)
    BY AppendAscends DEF ListInv
  <2>3. /\ IsList(saved, made + 1)
        /\ \A u \in Tracers : /\ IsList(memory[u], made + 1)
                              /\ \A l \in writes[u] : IsList(l, made + 1)
    BY ListsGrow DEF ListInv
  <2> HIDE DEF list
  <2> QED
    BY <2>1, <2>2, <2>3 DEF ListInv
<1>4. CASE Land(t)
  <2>1. PICK list \in writes[t] :
          saved' = list /\ writes' = [writes EXCEPT ![t] = @ \ {list}]
    BY <1>4 DEF Land
  <2> QED
    BY <1>4, <2>1 DEF Land, ListInv
<1>5. CASE Drop(t)
  <2>1. PICK list \in writes[t] : writes' = [writes EXCEPT ![t] = @ \ {list}]
    BY <1>5 DEF Drop
  <2> QED
    BY <1>5, <2>1 DEF Drop, ListInv
<1>6. CASE Restart(t)
  <2>1. /\ memory' = [memory EXCEPT ![t] = <<>>] /\ writes' = [writes EXCEPT ![t] = {}]
        /\ UNCHANGED <<saved, made>>
    BY <1>6 DEF Restart
  <2> QED
    BY <2>1, EmptyIsList DEF ListInv
<1> QED
  BY <1>1, <1>2, <1>3, <1>4, <1>5, <1>6 DEF ReflectionStep

\* In whatever order loads come back and writes of several tracers land, reach the
\* store or get lost: every list is oldest first, without repeats, and within its limit.
THEOREM ListsAreAscending == ReflectionsSpec => []ReflectionsInOrder
<1>1. ReflectionsInit => ListInv
  BY EmptyIsList DEF ReflectionsInit, ListInv
<1>2. ListInv /\ [ReflectionsNext]_reflectionVars => ListInv'
  <2>1. ListInv /\ UNCHANGED reflectionVars => ListInv'
    BY DEF reflectionVars, ListInv
  <2> QED
    BY <2>1, ListStep DEF ReflectionsNext
<1>3. ListInv => ReflectionsInOrder
  BY DEF ListInv, IsList, ReflectionsInOrder
<1> QED
  BY <1>1, <1>2, <1>3, PTL DEF ReflectionsSpec
-----------------------------------------------------------------------------
(* A tracer's own reflections. *)

\* The newest entries, counted from the last one back.
LEMMA NewestEnds ==
  ASSUME NEW S, NEW s \in Seq(S)
  PROVE  /\ Newest(s) \in Seq(S)
         /\ Len(Newest(s)) = IF Len(s) > MaxReflections THEN MaxReflections ELSE Len(s)
         /\ \A d \in Nat : d < Len(Newest(s)) =>
              Newest(s)[Len(Newest(s)) - d] = s[Len(s) - d]
<1> DEFINE n == Len(s)
           m == IF n > MaxReflections THEN n - MaxReflections + 1 ELSE 1
           b == SubSeq(s, m, n)
<1>1. n \in Nat /\ \A i \in 1 .. n : s[i] \in S
  OBVIOUS
<1>2. /\ m \in Nat /\ m >= 1 /\ n - m + 1 \in Nat
      /\ n - m + 1 = IF n > MaxReflections THEN MaxReflections ELSE n
  BY <1>1, ReflectionsAssumption
<1>3. Newest(s) = b
  BY DEF Newest
<1> HIDE DEF n, m, b
<1>4. /\ b \in Seq(S)
      /\ Len(b) = IF m <= n THEN n - m + 1 ELSE 0
      /\ \A i \in 1 .. n - m + 1 : b[i] = s[m + i - 1]
  <2>1. \A i \in m .. n : s[i] \in S
    BY <1>1, <1>2
  <2> QED
    BY <1>1, <1>2, <2>1, SubSeqProperties, m \in Int, n \in Int DEF b
<1>5. Len(b) = n - m + 1
  BY <1>1, <1>2, <1>4
<1>6. ASSUME NEW d \in Nat, d < Len(b)
      PROVE  b[Len(b) - d] = s[n - d]
  <2>1. Len(b) - d \in 1 .. n - m + 1 /\ m + (Len(b) - d) - 1 = n - d
    BY <1>1, <1>2, <1>5, <1>6
  <2> QED
    BY <1>4, <2>1
<1> QED
  BY <1>2, <1>3, <1>4, <1>5, <1>6 DEF n

\* Counted from the last one back, memory s agrees with the reflections o made, as
\* far as the limit goes.
Remembers(s, o) ==
  \A d \in Nat : d < MaxReflections /\ d < Len(o) =>
    d < Len(s) /\ s[Len(s) - d] = o[Len(o) - d]

LEMMA RemembersOneMore ==
  ASSUME NEW s \in Seq(Nat), NEW o \in Seq(Nat), NEW m \in Nat, Remembers(s, o)
  PROVE  Remembers(Newest(Append(s, m)), Append(o, m))
<1> DEFINE s2 == Append(s, m)
           o2 == Append(o, m)
           b == Newest(s2)
<1>1. /\ Len(s) \in Nat /\ Len(o) \in Nat
      /\ s2 \in Seq(Nat) /\ Len(s2) = Len(s) + 1 /\ s2[Len(s) + 1] = m
      /\ \A i \in 1 .. Len(s) : s2[i] = s[i]
      /\ Len(o2) = Len(o) + 1 /\ o2[Len(o) + 1] = m
      /\ \A i \in 1 .. Len(o) : o2[i] = o[i]
  OBVIOUS
<1> HIDE DEF s2, o2
<1>2. /\ Len(b) = IF Len(s2) > MaxReflections THEN MaxReflections ELSE Len(s2)
      /\ \A d \in Nat : d < Len(b) => b[Len(b) - d] = s2[Len(s2) - d]
  BY <1>1, NewestEnds
<1> HIDE DEF b
<1>3. SUFFICES ASSUME NEW d \in Nat, d < MaxReflections, d < Len(o2)
               PROVE  d < Len(b) /\ b[Len(b) - d] = o2[Len(o2) - d]
  BY DEF Remembers, b, s2, o2
<1>4. CASE d = 0
  <2>1. Len(s2) - 0 = Len(s) + 1 /\ Len(o2) - 0 = Len(o) + 1 /\ 0 < Len(b)
    BY <1>1, <1>2, ReflectionsAssumption
  <2> QED
    BY <1>1, <1>2, <1>4, <2>1
<1>5. CASE d > 0
  <2>1. d - 1 \in Nat /\ d - 1 < MaxReflections /\ d - 1 < Len(o)
    BY <1>1, <1>3, <1>5, ReflectionsAssumption
  <2>2. d - 1 < Len(s) /\ s[Len(s) - (d - 1)] = o[Len(o) - (d - 1)]
    BY <2>1 DEF Remembers
  <2>3. /\ Len(s2) - d = Len(s) - (d - 1) /\ Len(o2) - d = Len(o) - (d - 1)
        /\ Len(s) - (d - 1) \in 1 .. Len(s) /\ Len(o) - (d - 1) \in 1 .. Len(o)
        /\ d < Len(b)
    <3>1. /\ Len(s) \in Nat /\ Len(o) \in Nat /\ Len(s2) = Len(s) + 1 /\ Len(o2) = Len(o) + 1
          /\ Len(b) = IF Len(s2) > MaxReflections THEN MaxReflections ELSE Len(s2)
          /\ d - 1 < Len(s) /\ d - 1 < Len(o) /\ d < MaxReflections
      BY <1>1, <1>2, <1>3, <2>1, <2>2
    <3> QED
      BY <1>5, <3>1, ReflectionsAssumption
  <2> QED
    BY <1>1, <1>2, <2>2, <2>3
<1> QED
  BY <1>4, <1>5

\* The only load of a tracer sets out before the tracer has made anything: a list it
\* comes back with costs what was made meanwhile, and nothing else.
OwnInv ==
  /\ ListInv
  /\ DOMAIN loaded = Tracers /\ DOMAIN mine = Tracers
  /\ before = [t \in Tracers |-> 0]
  /\ \A t \in Tracers :
       /\ mine[t] \in Seq(Nat)
       /\ ~loaded[t] => mine[t] = <<>>
       /\ Remembers(memory[t], mine[t])

LEMMA NothingToRemember == \A s : Remembers(s, <<>>)
BY DEF Remembers

LEMMA OwnStep ==
  ASSUME OwnInv, NEW t \in Tracers, ReflectionStep(t)
  PROVE  OwnInv'
<1>1. ListInv'
  BY ListStep DEF OwnInv
<1>2. ASSUME UNCHANGED <<memory, mine, before, loaded>> PROVE OwnInv'
  BY <1>1, <1>2 DEF OwnInv
<1>3. CASE StartLoad(t)
  <2>1. /\ loaded' = [loaded EXCEPT ![t] = TRUE] /\ UNCHANGED <<memory, mine>> /\ ~loaded[t]
        /\ before' = [before EXCEPT ![t] = Len(mine[t])]
    BY <1>3 DEF StartLoad, MustLoad
  <2>2. Len(mine[t]) = 0
    BY <2>1 DEF OwnInv
  <2>3. before' = before
    BY <2>1, <2>2 DEF OwnInv
  <2> QED
    BY <1>1, <2>1, <2>3 DEF OwnInv
<1>4. CASE FinishLoad(t)
  <2>1. /\ memory' = [memory EXCEPT ![t] = WithLoaded(t)]
        /\ mine' = [mine EXCEPT ![t] = IF saved = <<>> THEN mine[t]
                                       ELSE SubSeq(mine[t], 1, before[t])]
        /\ UNCHANGED <<loaded, before>>
    BY <1>4 DEF FinishLoad
  <2>2. SubSeq(mine[t], 1, before[t]) = <<>>
    <3>1. mine[t] \in Seq(Nat) /\ before[t] = 0
      BY DEF OwnInv
    <3> QED
      BY <3>1
  <2>3. Remembers(memory'[t], mine'[t]) /\ DOMAIN memory = Tracers
    BY <2>1, <2>2, NothingToRemember DEF WithLoaded, OwnInv, ListInv
  <2>4. mine'[t] \in Seq(Nat) /\ (~loaded[t] => mine'[t] = <<>>)
    BY <2>1, <2>2 DEF OwnInv
  <2> QED
    BY <1>1, <2>1, <2>3, <2>4 DEF OwnInv
<1>5. CASE FailLoad(t)
  BY <1>2, <1>5 DEF FailLoad
<1>6. CASE Reflect(t)
  <2>1. /\ loaded[t] /\ made' = made + 1
        /\ memory' = [memory EXCEPT ![t] = Newest(Append(memory[t], made + 1))]
        /\ mine' = [mine EXCEPT ![t] = Append(mine[t], made + 1)]
        /\ UNCHANGED <<loaded, before>>
    BY <1>6 DEF Reflect, OwnInv, ListInv
  <2>2. made + 1 \in Nat /\ memory[t] \in Seq(Nat) /\ mine[t] \in Seq(Nat)
    BY DEF OwnInv, ListInv, IsList
  <2>3. Remembers(Newest(Append(memory[t], made + 1)), Append(mine[t], made + 1))
    BY <2>2, RemembersOneMore DEF OwnInv
  <2>4. Append(mine[t], made + 1) \in Seq(Nat)
    BY <2>2
  <2>5. DOMAIN memory = Tracers
    BY DEF OwnInv, ListInv
  <2> QED
    BY <1>1, <2>1, <2>3, <2>4, <2>5 DEF OwnInv
<1>7. CASE Land(t) \/ Drop(t)
  BY <1>2, <1>7 DEF Land, Drop
<1>8. CASE Restart(t)
  <2>1. /\ memory' = [memory EXCEPT ![t] = <<>>] /\ mine' = [mine EXCEPT ![t] = <<>>]
        /\ loaded' = [loaded EXCEPT ![t] = FALSE]
        /\ before' = [before EXCEPT ![t] = 0]
    BY <1>8 DEF Restart
  <2>2. DOMAIN memory = Tracers /\ <<>> \in Seq(Nat)
    BY DEF OwnInv, ListInv
  <2> QED
    BY <1>1, <2>1, <2>2, NothingToRemember DEF OwnInv
<1> QED
  BY <1>3, <1>4, <1>5, <1>6, <1>7, <1>8 DEF ReflectionStep

\* A tracer keeps the newest of its own reflections, however many tracers overwrite
\* the key they share: only those made while the load is on its way can be lost.
THEOREM OwnAreRemembered == ReflectionsSpec => []RemembersOwn
<1>1. ReflectionsInit => OwnInv
  <2> SUFFICES ASSUME ReflectionsInit PROVE OwnInv
    OBVIOUS
  <2>1. ListInv
    BY EmptyIsList DEF ReflectionsInit, ListInv
  <2> QED
    BY <2>1, NothingToRemember DEF ReflectionsInit, OwnInv
<1>2. OwnInv /\ [ReflectionsNext]_reflectionVars => OwnInv'
  <2>1. OwnInv /\ UNCHANGED reflectionVars => OwnInv'
    BY DEF reflectionVars, OwnInv, ListInv
  <2> QED
    BY <2>1, OwnStep DEF ReflectionsNext
<1>3. OwnInv => RemembersOwn
  <2> SUFFICES ASSUME OwnInv, NEW t \in Tracers
               PROVE  LET kept == Newest(mine[t])
                          skip == Len(memory[t]) - Len(kept)
                      IN  /\ Len(kept) <= Len(memory[t])
                          /\ \A i \in DOMAIN kept : memory[t][skip + i] = kept[i]
    BY DEF RemembersOwn
  <2> DEFINE s == memory[t]
             o == mine[t]
             kept == Newest(o)
  <2>1. o \in Seq(Nat) /\ s \in Seq(Nat) /\ Remembers(s, o)
    BY DEF OwnInv, ListInv, IsList
  <2>2. /\ kept \in Seq(Nat)
        /\ Len(kept) = IF Len(o) > MaxReflections THEN MaxReflections ELSE Len(o)
        /\ \A d \in Nat : d < Len(kept) => kept[Len(kept) - d] = o[Len(o) - d]
    BY <2>1, NewestEnds
  <2>3. Len(s) \in Nat /\ Len(o) \in Nat /\ Len(kept) \in Nat /\ DOMAIN kept = 1 .. Len(kept)
    BY <2>1, <2>2
  <2> HIDE DEF s, o, kept
  <2>4. ASSUME NEW d \in Nat, d < Len(kept)
        PROVE  d < Len(s) /\ s[Len(s) - d] = kept[Len(kept) - d]
    <3>1. d < MaxReflections /\ d < Len(o)
      BY <2>2, <2>3, <2>4, ReflectionsAssumption
    <3> QED
      BY <2>1, <2>2, <2>4, <3>1 DEF Remembers
  <2>5. Len(kept) <= Len(s)
    <3>1. CASE Len(kept) = 0
      BY <2>3, <3>1
    <3>2. CASE Len(kept) > 0
      <4>1. Len(kept) - 1 \in Nat /\ Len(kept) - 1 < Len(kept)
        BY <2>3, <3>2
      <4>2. Len(kept) - 1 < Len(s)
        BY <2>4, <4>1
      <4> QED
        BY <2>3, <4>2
    <3> QED
      BY <2>3, <3>1, <3>2
  <2>6. ASSUME NEW i \in DOMAIN kept PROVE s[Len(s) - Len(kept) + i] = kept[i]
    <3>1. /\ Len(kept) - i \in Nat /\ Len(kept) - i < Len(kept)
          /\ Len(s) - (Len(kept) - i) = Len(s) - Len(kept) + i
          /\ Len(kept) - (Len(kept) - i) = i
      BY <2>3
    <3> QED
      BY <2>4, <3>1
  <2> QED
    BY <2>5, <2>6 DEF s, o, kept
<1> QED
  BY <1>1, <1>2, <1>3, PTL DEF ReflectionsSpec
=============================================================================
