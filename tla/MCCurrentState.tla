--------------------------- MODULE MCCurrentState ---------------------------
(* A small instance of CurrentState: faults of a robot and of a path, their    *)
(* recoveries, a new task, a snapshot.                                         *)
EXTENDS CurrentState, TLC

Ask(op, event, target) == [op |-> op, event |-> event, target |-> target]

FaultRequests ==
  {Ask("inject", "robot.offline", Robot), Ask("inject", "path.blocked", Path),
   Ask("recover", None, Robot), Ask("recover", "path.blocked", Path)}

MCRequests == FaultRequests \cup {Ask("task", None, None), Ask("snapshot", None, None)}

\* Every fault of a robot and a path, every recovery with and without event and target.
MCRobotRequests ==
  {q \in AnyRequest : q.op # "snapshot" /\ ~(q.op = "inject" /\ q.target = None)}

Symmetry == Permutations(Handlers)
=============================================================================
