-------------------------- MODULE MCActionDispatch --------------------------
(* A small instance of ActionDispatch: an action and a stop of the same task,  *)
(* a query of another.                                                         *)
EXTENDS ActionDispatch, TLC

CONSTANTS go, halt, ask, TA, TB, Twice

MCKind   == [a \in Actions |-> (go :> "act" @@ halt :> "stop" @@ ask :> "query")[a]]
MCTaskOf == [a \in Actions |-> (go :> TA @@ halt :> TA @@ ask :> TB)[a]]
\* The commands of Twice are delivered twice.
MCCopies == [a \in Actions |-> IF a \in Twice THEN 2 ELSE 1]
=============================================================================
