------------------------------ MODULE MCWaves ------------------------------
(* WaveLoop where data and logo can be had side by side and sending needs data. *)
EXTENDS WaveLoop, TLC

MCKeys == {"data", "logo", "sent"}
MCActions == {"fetch", "draw", "send"}

Facts(f) == f @@ Nothing

MCPre == [a \in Actions |->
  IF a = "send" THEN Facts([data |-> TRUE]) ELSE Nothing]
MCEff == [a \in Actions |->
  CASE a = "fetch" -> Facts([data |-> TRUE])
    [] a = "draw"  -> Facts([logo |-> TRUE])
    [] a = "send"  -> Facts([sent |-> TRUE])]

MCRetries == [a \in Actions |-> IF a = "fetch" THEN 1 ELSE 0]
MCAttempts == [a \in Actions |-> IF a = "send" THEN 1 ELSE 2]

\* Fetching writes as it goes: an attempt that raises may have spoilt the logo.
MCLeftovers == [a \in Actions |->
  IF a = "fetch" THEN {Nothing, Facts([logo |-> FALSE])} ELSE {Nothing}]

AsDeclared == [a \in Actions |-> {Eff[a]}]
MCOutcomes == [a \in Actions |-> IF a = "draw" THEN {Eff[a], Nothing} ELSE {Eff[a]}]

AnythingGoes == [a \in Actions |-> World]
LogoIsChecked == [a \in Actions |->
  IF a = "draw" THEN {w \in World : Satisfies(w, Eff[a])} ELSE World]

Quiet == {Nothing}
None == {}

\* Nothing there yet; a logo or both known to be missing.
MCWorlds == {Nothing, Facts([logo |-> FALSE]), Facts([data |-> FALSE, logo |-> FALSE])}

Sent(strategy) ==
  [conditions |-> Facts([sent |-> TRUE, logo |-> TRUE]), strategy |-> strategy, max_replans |-> 3]
Single(g) == [mode |-> "single", goals |-> <<g>>]
MCGoals == {Single(Sent(s)) : s \in {"on_deviation", "every_action"}}
ClaimGoals == {Single(Sent("on_deviation"))}
=============================================================================
