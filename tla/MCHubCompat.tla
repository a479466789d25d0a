---------------------------- MODULE MCHubCompat ----------------------------
(* Two clients of the Hub API beside requests for batches and chains.        *)
EXTENDS HubCompat, TLC

MCOffered ==
  {{"scene"}, {"entity"}, {"plan", "task"}, {"trace", "event"}, {"run", "task", "group"}}

Symmetry == Permutations(Clients) \cup Permutations(Runs) \cup Permutations(Makers)
=============================================================================
