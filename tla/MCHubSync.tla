------------------------------ MODULE MCHubSync ------------------------------
(* A small instance of HubSync: one run with two tasks, a plan of one of them, *)
(* an Action and a query, and an older Action that is one too many for the     *)
(* list.                                                                       *)
EXTENDS HubSync

CONSTANTS sync1, sync2, dog, run, task, plan, action, query, older, other

MCRunOf == [t \in Tasks |-> run]
MCTaskOf == [p \in Plans |-> task]
\* An Action may name another task than its plan's.
MCNamedTask == [a \in Actions |-> IF a = action THEN other ELSE task]
MCPlanOf == [a \in Actions |-> plan]
MCRobotOf == [a \in Actions |-> dog]
MCCreatedAt == [a \in Actions |-> CASE a = older -> 1 [] a = query -> 2 [] OTHER -> 3]

Ask(what, o, force) == [what |-> what, obj |-> o, force |-> force]
Republish == Ask("publish", Scenario, TRUE)

MCRequests ==
  (sync1 :> {Ask("plan", Plan(plan), FALSE), Ask("task", Task(task), FALSE), Republish}) @@
  (sync2 :> {Ask("graph", Run(run), FALSE), Ask("action", Action(action), TRUE),
             Ask("scene", Scenario, TRUE), Ask("entities", Scenario, FALSE)})

\* The map is published anew while an Action is synchronised.
MovedRequests ==
  (sync1 :> {Ask("action", Action(action), FALSE)}) @@ (sync2 :> {Republish})
=============================================================================
