-------------------------- MODULE MCRobotExecutor --------------------------
(* A small instance of RobotExecutor: every kind of command the executor     *)
(* tells apart, for two tasks.                                               *)
EXTENDS RobotExecutor, TLC

CONSTANTS move, pick, halt, query, junk, stray, TA, TB

Base == [op |-> "goto_pose", addressed |-> TRUE, task |-> TA, request |-> FALSE,
         xy |-> TRUE, sane |-> TRUE]

\* A move whose numbers may raise, another action, a stop, a query, an action
\* without parameters, a command for another robot.
AllPayloads ==
  move :> [Base EXCEPT !.sane = FALSE]
  @@ pick  :> [Base EXCEPT !.op = "generic", !.task = TB]
  @@ halt  :> [Base EXCEPT !.op = "stop"]
  @@ query :> [Base EXCEPT !.op = "where", !.task = None, !.request = TRUE]
  @@ junk  :> [Base EXCEPT !.xy = FALSE]
  @@ stray :> [Base EXCEPT !.addressed = FALSE]

MCPayload == [c \in Commands |-> AllPayloads[c]]

\* Sound without liveness properties: nothing tells one thread from another.
ThreadSymmetry == Permutations(Threads)
=============================================================================
