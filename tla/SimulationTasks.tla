-------------------------- MODULE SimulationTasks --------------------------
(***************************************************************************)
(* How tasks come to be in a run (src/backend/app/database_store.py):      *)
(* create_simulation_task is one transaction that stores a task, its plan  *)
(* of version 1 and the steps; create_batch_tasks and create_task_chain    *)
(* call it once per task, and the chain's row and items are a last         *)
(* transaction.  The process may end, or a transaction fail, between any   *)
(* two of them.  Abstracted: goals, inputs, templates, traces.             *)
(***************************************************************************)
EXTENDS Integers, Sequences, SequencesExt, FiniteSets

CONSTANTS
  Runs,     \* ids of runs
  Makers,   \* threads of requests that create tasks
  Sizes,    \* how many tasks a batch or chain is asked for
  MaxTasks  \* bound: tasks, and batches and chains

ASSUME TasksAssumption == Sizes \subseteq Nat \ {0} /\ MaxTasks \in Nat

VARIABLES
  runs,     \* simulation_runs
  tasks,    \* simulation_tasks, in order; a task's id is its place
  versions, \* versions[t]: of the newest plan of task t in simulation_plans
  groups,   \* task chains with their items, and (history) the batches answered
  making,   \* making[m]: the request m serves
  failed,   \* history: batches and chains whose request has failed
  begun     \* number of batches and chains begun: the next one's id

taskVars == <<runs, tasks, versions, groups, making, failed, begun>>

TaskIds == 1..Len(tasks)
\* Rows of tasks: the batch or chain of a task, or 0, and its place there.
Rows == [run : runs, group : 0..begun, index : Nat]
Groups ==
  [id : 1..begun, run : runs, chain : BOOLEAN, parallel : BOOLEAN, size : Sizes,
   items : Seq(TaskIds)]
\* A request's batch or chain, with the tasks it has made so far; id 0: no request.
NoGroup == [id |-> 0, items |-> <<>>]
Busy(m) == making[m] # NoGroup

TasksTypeOK ==
  /\ runs \subseteq Runs
  /\ tasks \in Seq(Rows)
  /\ versions \in [TaskIds -> Nat \ {0}]
  /\ groups \subseteq Groups
  /\ making \in [Makers -> Groups \cup {NoGroup}]
  /\ begun \in Nat /\ failed \subseteq 1..begun

TasksInit ==
  /\ runs = {} /\ tasks = <<>> /\ versions = <<>> /\ groups = {}
  /\ making = [m \in Makers |-> NoGroup] /\ failed = {} /\ begun = 0

\* create_simulation_task: the task, its first plan and its steps, in a run there is.
Store(run, group, index) ==
  /\ run \in runs /\ Len(tasks) < MaxTasks
  /\ tasks' = Append(tasks, [run |-> run, group |-> group, index |-> index])
  /\ versions' = Append(versions, 1)

\* A task of its own, from the platform, a template or the Hub API.
CreateTask(run) ==
  /\ Store(run, 0, 0)
  /\ UNCHANGED <<runs, groups, making, failed, begun>>

\* create_batch_tasks and create_task_chain: 404 unless there is the run.  (A batch of a
\* template that does not exist answers with no task at all and is left out.)
BeginGroup(m, run, chain, parallel, size) ==
  /\ ~Busy(m) /\ run \in runs
  /\ begun < MaxTasks /\ Len(tasks) + size <= MaxTasks
  /\ begun' = begun + 1
  /\ making' = [making EXCEPT ![m] = [id |-> begun + 1, run |-> run, chain |-> chain,
                                      parallel |-> parallel, size |-> size, items |-> <<>>]]
  /\ UNCHANGED <<runs, tasks, versions, groups, failed>>

\* Mutant: the chain is stored before its last task.
EndGroupEarly(m) ==
  /\ Busy(m) /\ Len(making[m].items) + 1 >= making[m].size
  /\ groups' = groups \cup {making[m]}
  /\ making' = [making EXCEPT ![m] = NoGroup]
  /\ UNCHANGED <<runs, tasks, versions, failed, begun>>

\* One of its tasks, whose constraints name the batch or chain and the place in it.
MakeTask(m) ==
  /\ Busy(m) /\ Len(making[m].items) < making[m].size
  /\ Store(making[m].run, making[m].id, Len(making[m].items) + 1)
  /\ making' = [making EXCEPT ![m].items = Append(@, Len(tasks) + 1)]
  /\ UNCHANGED <<runs, groups, failed, begun>>

\* The chain and its items are stored, or the batch is answered.
EndGroup(m) ==
  /\ Busy(m) /\ Len(making[m].items) = making[m].size
  /\ groups' = groups \cup {making[m]}
  /\ making' = [making EXCEPT ![m] = NoGroup]
  /\ UNCHANGED <<runs, tasks, versions, failed, begun>>

\* A transaction fails or the process ends; the tasks made before remain.
FailGroup(m) ==
  /\ Busy(m)
  /\ failed' = failed \cup {making[m].id}
  /\ making' = [making EXCEPT ![m] = NoGroup]
  /\ UNCHANGED <<runs, tasks, versions, groups, begun>>

\* create_plan of a replanning: the next version.
CreatePlan(t, max) ==
  /\ t \in TaskIds /\ versions[t] < max
  /\ versions' = [versions EXCEPT ![t] = @ + 1]
  /\ UNCHANGED <<runs, tasks, groups, making, failed, begun>>

MakerNext ==
  \E m \in Makers :
    \/ \E run \in Runs, chain, parallel \in BOOLEAN, size \in Sizes :
         /\ parallel => chain
         /\ BeginGroup(m, run, chain, parallel, size)
    \/ MakeTask(m) \/ EndGroup(m) \/ FailGroup(m)

\* _task_chain_model: the item that is Ready when the chain is stored, or all of them.
Ready(c) == IF c.parallel THEN DOMAIN c.items ELSE {1}

\* A chain that is stored, or a batch that is answered, has all its tasks, in the order
\* asked for and of its run, whatever other requests create meanwhile; and a task that
\* names a chain or batch is in it, unless the request is still at work or has failed
\* (create_task_chain, create_batch_tasks: a transaction for each task).
GroupsWhole ==
  /\ \A c \in groups :
       /\ Len(c.items) = c.size /\ Ready(c) \subseteq DOMAIN c.items
       /\ \A i \in 1..c.size :
            tasks[c.items[i]] = [run |-> c.run, group |-> c.id, index |-> i]
  /\ \A t \in TaskIds :
       tasks[t].group # 0 =>
         \/ \E c \in groups : c.id = tasks[t].group /\ c.items[tasks[t].index] = t
         \/ \E m \in Makers : making[m].id = tasks[t].group
         \/ tasks[t].group \in failed
=============================================================================
