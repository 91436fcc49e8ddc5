---------------------------- MODULE MCScenarios ----------------------------
(* The whole list of scenarios, as the runner takes it without --scenario. *)
EXTENDS Scenarios

AllScenarios == [n \in 1 .. 10 |-> n]
=============================================================================
