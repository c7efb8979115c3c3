----------------------------- MODULE MCDelivery -----------------------------
(* Values for the constants of GoapLoop: fetch data or use the cached copy,   *)
(* write a draft, send it.                                                    *)
EXTENDS GoapDomain, TLC

MCKeys == {"data", "draft", "sent"}
MCActions == {"fetch", "cached", "write", "send"}

Facts(f) == f @@ Nothing

MCPre == [a \in Actions |->
  CASE a = "write" -> Facts([data |-> TRUE])
    [] a = "send"  -> Facts([draft |-> TRUE])
    [] OTHER       -> Nothing]
MCEff == [a \in Actions |->
  CASE a = "write" -> Facts([draft |-> TRUE])
    [] a = "send"  -> Facts([sent |-> TRUE])
    [] OTHER       -> Facts([data |-> TRUE])]

MCRetries == [a \in Actions |-> IF a = "fetch" THEN 1 ELSE 0]

\* Every action does what it declares.
AsDeclared == [a \in Actions |-> {Eff[a]}]

\* Fetching, writing and sending may do nothing; writing may use the data up.
Unreliable == [a \in Actions |->
  CASE a = "write" -> {Eff[a], Facts([draft |-> TRUE, data |-> FALSE]), Nothing}
    [] a \in {"fetch", "send"} -> {Eff[a], Nothing}
    [] OTHER       -> {Eff[a]}]

\* No effect_validator; one that wants a draft of every write.
AnythingGoes == [a \in Actions |-> World]
WritesAreChecked == [a \in Actions |->
  IF a = "write" THEN {w \in World : Satisfies(w, Eff[a])} ELSE World]

\* Fetching never returns.
FetchIsDown == [a \in Actions |-> IF a = "fetch" THEN {} ELSE {Eff[a]}]

Quiet == {Nothing}
DataExpires == {Nothing, Facts([data |-> FALSE])}
DataArrives == {Nothing, Facts([data |-> TRUE])}
DataKnown == Facts([data |-> TRUE])
\* What the draft was written from is withdrawn, and the draft with it.
Withdrawn == {Nothing, Facts([draft |-> FALSE, data |-> FALSE])}
None == {}

HasData(strategy, replans) ==
  [conditions |-> Facts([data |-> TRUE]), strategy |-> strategy, max_replans |-> replans]
HasDraft(strategy, replans) ==
  [conditions |-> Facts([draft |-> TRUE]), strategy |-> strategy, max_replans |-> replans]
IsSent(strategy, replans) ==
  [conditions |-> Facts([sent |-> TRUE]), strategy |-> strategy, max_replans |-> replans]

NoGoalGiven == [mode |-> "none", goals |-> <<>>]
Single(g) == [mode |-> "single", goals |-> <<g>>]
Sequential(gs) == [mode |-> "sequential", goals |-> gs]
AnyOf(gs) == [mode |-> "any", goals |-> gs]

\* The worlds and goals the runs are invoked with.
AnyWorld == World
Deliveries ==
  {Single(IsSent("on_deviation", 3)), Single(IsSent("every_action", 3)),
   Single(IsSent("never", 3)), NoGoalGiven}
DataDraftSend ==
  {Sequential(<<HasData("on_deviation", 2), HasDraft("on_deviation", 2),
                IsSent("on_deviation", 2)>>)}
DraftOrSend == {AnyOf(<<IsSent("every_action", 4), HasDraft("on_deviation", 2)>>)}
MultiGoals == DataDraftSend \cup DraftOrSend
SendEventually ==
  {Single(IsSent("on_deviation", 3)),
   Sequential(<<HasDraft("on_deviation", 3), IsSent("on_deviation", 3)>>),
   AnyOf(<<IsSent("on_deviation", 3), HasDraft("on_deviation", 3)>>)}
DataFirst == {Sequential(<<HasData("on_deviation", 2)>>)}
Relaxed == {AnyOf(<<HasData("on_deviation", 2), HasDraft("on_deviation", 2)>>)}
SendOnly == {Single(IsSent("on_deviation", 3))}
SentWithData == Single([conditions |-> Facts([sent |-> TRUE, data |-> TRUE]),
                        strategy |-> "on_deviation", max_replans |-> 2])
StuckRelaxes == {Sequential(<<HasDraft("on_deviation", 2)>>), Single(IsSent("on_deviation", 2))}
StuckDeliveries == {Single(IsSent("on_deviation", 2)), SentWithData,
                     Sequential(<<HasData("on_deviation", 2), HasDraft("on_deviation", 2)>>)}
ThreadGoals ==
  {Sequential(<<HasData("on_deviation", 2), HasDraft("on_deviation", 2)>>),
   Sequential(<<IsSent("on_deviation", 3)>>),
   AnyOf(<<IsSent("on_deviation", 3), HasDraft("on_deviation", 3)>>)}
DraftReady == {Facts([draft |-> TRUE])}
NothingOrDraft == Quiet \cup DraftReady
=============================================================================
