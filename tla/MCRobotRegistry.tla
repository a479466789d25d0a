-------------------------- MODULE MCRobotRegistry --------------------------
(* A default robot and another one; the cache and the registry in turn, and *)
(* what connects the two.                                                   *)
EXTENDS RobotRegistry, TLC

Others == Robots \ Default

MCOffered ==
  {{"state", "expiry", "restart"} \cup Default, {"state", "expiry", "restart"} \cup Others,
   {"robot", "config"} \cup Others, {"message", "expiry", "restart"},
   {"executor", "config", "config_only"}, {"executor", "transition"}, {"config", "restart"},
   {"robot", "config_only", "state", "restart"} \cup Others}

Symmetry ==
  Permutations(Writers) \cup Permutations(Admins) \cup Permutations(Columns)
    \cup Permutations(Values)
=============================================================================
