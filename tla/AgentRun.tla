------------------------------ MODULE AgentRun ------------------------------
(***************************************************************************)
(* What a caller of GoapGraph.invoke may rely on, whatever planner, sensors*)
(* and actions do: while a run is under way the active goal may come to    *)
(* hold or stop holding; it is replanned at most budget times per goal; the*)
(* count starts again only once the active goal holds; and the outcome is  *)
(* decided once, by whether the goal holds at that moment, and is final.   *)
(***************************************************************************)
EXTENDS Naturals

VARIABLES
  outcome,  \* "running", or how the run ended
  holds,    \* whether the active goal holds
  rounds,   \* replanning rounds since the active goal was taken up
  budget    \* replanning rounds allowed for it; 0: no limit

vars == <<outcome, holds, rounds, budget>>

Endings == {"goal_achieved", "failed", "no_plan", "error", "terminated", "raised"}

Init ==
  /\ outcome = "running"
  /\ holds \in BOOLEAN
  /\ rounds = 0
  /\ budget \in Nat

Running == outcome = "running" /\ outcome' = "running"

Anywhere == holds' \in BOOLEAN /\ budget' \in Nat

Work == Running /\ Anywhere /\ rounds' = rounds

Replan ==
  /\ Running /\ Anywhere
  /\ budget = 0 \/ rounds < budget
  /\ rounds' = rounds + 1

NextGoal == Running /\ Anywhere /\ holds /\ rounds' = 0

Finish ==
  /\ outcome = "running" /\ outcome' \in Endings
  /\ outcome' = "goal_achieved" => holds
  /\ outcome' \in {"failed", "no_plan"} => ~holds
  /\ UNCHANGED <<holds, rounds, budget>>

Next == Work \/ Replan \/ NextGoal \/ Finish

Spec == Init /\ [][Next]_vars
=============================================================================
