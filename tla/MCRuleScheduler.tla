--------------------------- MODULE MCRuleScheduler ---------------------------
(* A small instance of RuleScheduler: a first plan of one step, as a new task  *)
(* gets it (_default_plan_steps), and plans of two steps that replace it.      *)
EXTENDS RuleScheduler, TLC

MCOffered ==
  [p \in Plans |-> IF p = First THEN <<"Pending">> ELSE <<"Ready", "Pending">>]

Symmetry == Permutations(Schedules) \cup Permutations(Planners)
=============================================================================
