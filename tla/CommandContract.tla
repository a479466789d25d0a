-------------------------- MODULE CommandContract --------------------------
(***************************************************************************)
(* What the platform may expect of the result events of one robot, whatever*)
(* its threads do: every delivery of a command goes through the phases     *)
(* below, it never leaves a final one, and at most one delivery at a time  *)
(* is reported as running.  RobotExecutor implements this specification.   *)
(***************************************************************************)
CONSTANT Deliveries

VARIABLE phase

Final  == {"rejected", "answered", "succeeded", "failed", "stopped"}
Phases == {"silent", "accepted", "running"} \cup Final

Init == phase = [d \in Deliveries |-> "silent"]

Become(d, p) == phase' = [phase EXCEPT ![d] = p]

\* A query is answered at once; a command is accepted or rejected.
Respond(d) ==
  /\ phase[d] = "silent"
  /\ \E p \in {"rejected", "answered", "accepted"} : Become(d, p)

Run(d) ==
  /\ phase[d] = "accepted"
  /\ \A e \in Deliveries : phase[e] # "running"
  /\ Become(d, "running")

Finish(d) ==
  /\ phase[d] = "running"
  /\ \E p \in {"succeeded", "failed", "stopped"} : Become(d, p)

\* An exception before the start; a stop that finds the robot idle.
Conclude(d) ==
  \/ phase[d] \in {"silent", "accepted"} /\ Become(d, "failed")
  \/ phase[d] = "accepted" /\ Become(d, "stopped")

Next == \E d \in Deliveries : Respond(d) \/ Run(d) \/ Finish(d) \/ Conclude(d)

Spec == Init /\ [][Next]_phase
=============================================================================
