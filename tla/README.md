# Verification of the embodied workflow simulation platform

TLA+ models of the platform in `src/`, the TLC runs that check them on small instances, and
proofs, checked by TLAPS, that hold for every instance. `PROJECT.json` lists components, runs,
theorems, hazards, findings and, for every definition that models code, the lines it models.

## The system

A backend (FastAPI, `src/backend/app`) keeps simulation runs, tasks, plans and Actions in a
database. An Action becomes an MQTT command to a virtual robot (`src/robot-executor`), whose
result events come back over MQTT and are ingested as observations that move Action, task and
current state on. Faults are injected by broadcast events. Maps are edited as drafts and
published; scenes, tasks and plans are mirrored to an external Hub.

| component | state | operations | interacts with |
|---|---|---|---|
| Robot executor (`robot-executor/app/main.py`) | `busy_lock`, four flags, `state`, ids of the current action | commands, stop, query, broadcast faults and recovery, poses, signal | broker, both ways |
| Action dispatch (`main.py`, `database_store.py`) | Action rows, task rows, plan step rows | create, issue, mark issued, stop | broker; the database shared with ingestion |
| MQTT bridge (`mqtt_bridge.py`) | connection, robot rows | store a message, merge the robot's state, ingest | one network thread; the database |
| Rule scheduler (`main.py:925-1373`) | none: reads current state, plans, Actions | pick robot and step, create and issue an Action | dispatch |
| Current state, faults, snapshots (`database_store.py:1881-2113, 2914-3040`) | one versioned row per run, the robots' rows | inject, recover, replay, refresh, snapshot | called by every handler and by ingestion |
| Runs, tasks, plans, chains (`database_store.py:1144-1633`) | rows | status updates, create tasks, plans, chains | scheduler, dispatch |
| Maps (`main.py:118-215, 428-443`, `database_store.py:411-493`, `store.py:591, 1262`) | drafts, active and archived versions, targets | save, validate, publish | Hub sync, broadcast |
| Hub sync (`hub_client.py`) | id mappings | sync scene, entities, run, task, plan, trace | HTTP to the Hub |
| Hub API (`hub_compat.py`) | objects as messages in the message table | create scenes, entities, runs, tasks, plans, traces, events, Actions; read them | runs, tasks and plans of the platform; dispatch |
| Executor registry and robot configuration (`database_store.py:643-1000`) | rows of robots, configurations, executors | create, stop, restart, replace, default fleet | cache, scheduler |
| Runtime cache (`runtime_cache.py`) | Redis copies of robots, messages | warm, set, append, read | written after the database |
| JSON store (`store.py`) | one file | the same interface without a database | replaces the database |

What is hard: the robot is many threads over a few unguarded attributes (a thread per command, the
network thread, the main loop); the command leaves before the Action row knows its id; results
arrive early, repeated or not at all; request handlers and the MQTT thread write the same rows;
the process can end between two transactions; several handlers read, decide and write in separate
transactions.

What makes each part correct, as far as the code means it to hold and the checks below show it:

- Executor: one action at a time; the ids it shows are the running action's; a stop stops what it
  met and nothing else; an injected fault hits one action; every command ends once and only once.
- Dispatch: a row says only what some delivery of the command has done, and the last thing it said
  unless reports were dropped.
- Scheduler: no plan step is passed over; a second Action for a step has an overlap, the limit of the list
  or an Action made without the task as its cause, one for a replaced plan an overlap; plans succeed each
  other.
- Current state: both lists of alerts agree, and a version names one state as long as no update is lost;
  the robot's row settles on what the robot said last.
- Tasks, batches, chains: what is stored or answered is whole and in order.
- Maps: only maps that can be driven are published; a publication that is alone leaves one active
  version and targets that agree with it, and what it tells is true.
- Hub sync: a mapping names an object's own Hub object; a request that answers ok has mapped all it was
  asked for, but for a run's Actions beyond the newest 1000, and what that depends on; nothing is made
  twice without a cause.
- Hub API: duplicates and repeated numbers have an overlap or the limit as their cause; no answer names a
  scene that is not the run's.
- Registry: two active executors of a robot have a cause; robots and configurations go together.
- Cache: it converges to the tables once writers that overlap are followed by one that meets no other, from
  its SELECT to its call of the cache.

## Modules

| module | models |
|---|---|
| `CommandContract` | abstract: the phases of a delivered command as its result events tell them |
| `RobotExecutor` | the executor process, thread by thread |
| `ActionDispatch` | dispatch and ingestion around the broker and the robot (`INSTANCE CommandContract`) |
| `CurrentState` | the CurrentState row and a robot's row under handlers of faults, recoveries, tasks and snapshots, and the MQTT thread |
| `RuleScheduler` | plans, plan steps and Actions of a task under schedule requests, direct Actions and replannings |
| `MapValidation` | operators: what makes a map fit to be published, its default path groups, its targets |
| `MapPublish` | publications, the active maps and the target registry, Hub and broadcast (extends `MapValidation`) |
| `HubSync` | synchronisation of scene, entities, runs, tasks, plans, traces and Actions with a Hub |
| `SimulationTasks` | runs, tasks, batches, chains |
| `HubCompat` | the platform as a Hub for others (extends `SimulationTasks`, whose runs, tasks and plans it shows) |
| `RuntimeCache` | the Redis copies of robots and messages beside their tables |
| `RobotRegistry` | robots, configurations, executors (extends `RuntimeCache`, which copies its robots) |
| `RobotExecutorProofs`, `ActionDispatchProofs`, `CurrentStateProofs`, `RuleSchedulerProofs`, `MapPublishProofs`, `HubSyncProofs`, `HubCompatProofs`, `RobotRegistryProofs` | theorems about the module named |
| `MCRobotExecutor`, `MCActionDispatch`, `MCCurrentState`, `MCRuleScheduler`, `MCMapPublish`, `MCHubSync`, `MCHubCompat`, `MCRobotRegistry` | small instances for TLC |

How they are linked: the executor's events refine `CommandContract`, and `ActionDispatch` lets the robot
take any step of that contract; the reports that `ActionDispatch` ingests are those that move the rows of
`CurrentState`; `RuleScheduler` creates and issues the Actions whose later life is `ActionDispatch`. These
are modules of their own because the state they share is small and their products are too large to
check. Where the shared state matters, one module extends the other: publication needs the validator,
the Hub API the platform's own tasks and plan versions, the registry the rows that the cache copies.

### RobotExecutor

A command thread is `pc[t]`; its program points are the places where it touches an attribute, flag
or lock that others touch. `execute_goto_pose` and `execute_generic_action` have the same shape and
are one sequence of actions: `Acquire`, the claim of the flag and the ids (`ClaimCancel`,
`ClaimCommand`, `ClaimTask`), `Plan`, `Start`, then per iteration the three fault tests of
`should_fail_current_action` (and `ConsumeFailure`), the stop test and `Move`; the four ways out
`Arrive`, `Fail`, `Halt`, `Abort`; and the `finally` in four steps. `Receive`, `RefuseOffline`,
`StopCancel`, `StopProbe` are `execute_command` and `handle_stop`. The network thread (`at["mqtt"]`)
delivers commands and runs `handle_broadcast_event`, each write and each test an action of its own.
Main loop and handlers read the ids in two steps (`ReadCommand`, `ReadTask`). `told[t]` is the list
of result events thread `t` has published. `asked` and `injected` are history: which action a cancel
request met, and where; how many failures were injected.

Abstracted: positions, battery, durations, payload texts, scene names. A task id stands for task,
trace and run id, which are written together. `sane = FALSE` says that some number in the parameters
makes a conversion raise; which one is left open. Left out: messages that are not JSON (answered
with an event that belongs to no command), and the main loop's end after a signal, which takes the
daemon threads with it: no property promises anything after a signal.

### ActionDispatch

`api[a]` is the handler of `POST /api/v1/actions` between its transactions: `CreateAction`,
`IssueCommand` (publish, or reject with HTTP 400), `MarkIssued`, and `Crash`. `StopAction` is the
`/stop` route, which changes the row only. `SendCommand` is `POST /api/v1/commands`, which is
`_issue_command` alone: its command may name any task and has no Action row, so that its reports move
the task only. `InjectFault` is an injected failure or timeout, which sets a task to Failed. `RobotStep`
is a step of `CommandContract` by one delivery, with the events the executor publishes for it; the link
from executor to contract is the property `ImplementsContract`. `queue` holds the reports on their way;
`Resend` and `Lose` are the broker and the client library, modelled as external. `Ingest` is
`ingest_observation_from_message` with `_apply_action_event` and `_apply_task_event`. `landed` and
`stopped` are history: whether the last report about an Action was applied to its row, and whether a
status was set by `StopAction`. Each store method is one transaction; the statuses they write do not
depend on statuses read, so committing in either order is all that interleaving can do.

Reporters are trusted: what is ingested is what the robot has published, or an injected fault. The code
also ingests any report that a client posts (`POST /api/v1/messages`, `main.py:710-715`; `POST
/observations` of the Hub API, `hub_compat.py:634-669`) and does not ask who posts it.
`SettledStatusAgrees`, `StatusHasEvidence` and `TaskHasEvidence` hold as long as such reports are the
robot's own, repeated or late as they may be; they say nothing about reports that no robot has made.

### CurrentState

The database is PostgreSQL at READ COMMITTED and nothing locks the row. A transaction on it is
`LoadRow` (the SELECT of `_refresh_current_state` or `_clear_recovered_fault`), `CopyRobots`
(`self.robots()`, a session of its own) and `StoreRow` (the commit, which writes the columns that
changed: `Overwrite`). `todo[t]` lists the transactions a thread still has to make: an ingested
observation; for a recovery also the clearing, in a transaction after it. A handler's steps around
them are `Begin` (looks for a task), `MarkOffline` or `ProbeRobot` and `MarkIdle` (the robot's row,
ahead of the observation), and `Broadcast`, or nothing when the ingestion found no task (HTTP 404) or
the bridge is not connected. `wire` holds what the robot reports, in order: its answers to
broadcasts, as `handle_broadcast_event` gives them, and reports of its own. The MQTT thread reads the
robot's row (`ReceiveReport`), writes it (`MergeRobot`) and ingests the report if it names a task.
`new` and `read` are one session's row; `FirstRow` stands for no session. History: `torn` says that
a commit has met a row other than the one read, `clock` stamps alerts. One run and one robot: rows of
different runs and robots are not written together. Alerts of injected failures and timeouts also
set the task to Failed; task statuses are in `ActionDispatch` (`InjectFault`).

### RuleScheduler

`at[q]` is the place of a request between its transactions. A request to `schedule_simulation_run` reads
the task with its plan (`ReadTask`; `ActivePlan` is `_active_plan_row`), lists the Actions and chooses
the first step that has none (`ChooseStep`, `Untaken`), creates the Action (`CreateAction`), issues the
command (`IssueCommand`) and marks Action and step (`LoadSteps`, `StoreSteps`). `CreateDirect` is `POST
/actions` for a step; from there both are the same. `create_action` does not check that the plan and the
step it is given belong to the task it is given, or that it is given a task at all: the Action may be
one of the task (`InsertOwn`) or not (`InsertForeign`), and has number 0 then, since the list of the
task's Actions (`Listed`) does not show it. A planner is `create_task_plan`: the query for the highest
version, the one for the active plans, and the commit. Any of these ends early by a refusal, an error or
a crash, and what was committed stays. Steps stand in two tables, `plan[p].steps` (`steps_json`, what
the scheduler reads) and `rows[p]` (`simulation_plan_steps`); the former is read and written as a whole.

History: `since` (the task's Actions made when a request listed them), `extant` (plans there when it
read one), `torn` (plans whose list was overwritten unread). The locks PostgreSQL keeps on updated rows
until the commit only remove interleavings of two marks of the same step. Left out: which robot is
picked, decisions and messages, and Actions that name no step of the task's plans, which only take up
room in the list.

### SimulationTasks and HubCompat

`create_simulation_task` is one transaction. A request for a batch or a chain is `making[m]`: `BeginGroup`
(404 unless there is the run), `MakeTask` once per task, `EndGroup` (the chain's row and items, or the
answer of a batch), and `FailGroup` wherever a transaction fails or the process ends. Tasks are numbered in
the order in which they are made, so that other requests' tasks come in between. The platform's
batch of a template that does not exist answers with no task at all and is left out.

In `HubCompat` every object is a message in `log`. `Latest(kind)` is the query with its limit, and a
handler is two steps: the check (`PostScene`, `PostEntity`, `PostPlan`, `PostTrace`, `PostEvent`,
`CreateRun`, which also stores the run) and `StoreObject`, or `FailObject`. Plans of the platform and of
the Hub share their versions (`versions` is `SimulationTasks`'). `Offered` is a set of sets of kinds;
each behaviour asks for the kinds of one of them. Kinds that no check compares with each other need not
meet in a behaviour, and the proofs make no use of the restriction. History: `looked` (how long the log
was when a message's handler looked) and `told` (answers to run creations).

### MapValidation and MapPublish

`MapValidation` has no state: `Valid` is `validate_map`, rule by rule, `WithDefaultGroups` what
`draft_map` fills in, `Targets` what `default_targets_from_map` makes of a map. Python's stable `sorted`
and its filters are `SortedBy` and `Picked`: the n-th element is the one with n - 1 indices before it,
which says the same as a loop and can be reasoned about by counting. `IsMap` is what the schema of a
request makes sure of. `Drivable` in `MapPublish` is the reference it is compared with: it says in terms
of robots that each group's edges, in some order, are a way.

A publication is `Load` (the draft is validated, the second is taken as version, the active rows of its
map are read), `Flush` (the query for the targets writes the archived rows and the new one and so takes
their locks; the targets are read), `Commit` or `RollBack`, then `Name`, `SyncScene` and `SyncEntities` or
`HubFails`, and `Tell` (the broadcast and the answer). `Crash` may take its place anywhere. `seen[p]` and
`read[p]` are the session's rows; at READ COMMITTED a commit writes only the columns that differ from
what was read (`After`). Rows of one map and one version violate a constraint, also across open
transactions (`Clashes`, `Inserting`). `CreateTarget` and `UpdateTarget` are edits by hand. History:
`published`, and `disturbed`, the publishers at work that another one or an edit has overlapped.
A draft never changes once it is saved, so that saving and checking drafts commute with everything.

### HubSync

A request is a list of steps, `todo[s]`, which stands for its stack of calls: `Work(q)` lists the
objects it enters, and each object goes through some of `enter` (its mapping is read), `find` (a scene
is looked for by its name), `check` (the mapped object is looked up, after the parents), `keep` and
`robot` (what an Action takes from the call for its task, and the robot's entity in the scene mapped by
then), `post` and `store`. `got[s]` holds the ids that calls have returned. Each HTTP request and each
transaction is a step, and `Fail` may come at each. The Hub is external and modelled from how the client
uses it and from its stand-in in the tests: it has one scene of a name, one entity of a name in a scene
and one run of an id, answers 409 to a second one, refuses what has no parents (`Accepts`), and may be
set up anew (`Reset`, once, between requests). A publication is a request, too
(`sync_hub_after_map_publish`), with its new version. `ListActions` are the Actions a run's request is
given: those with fewer than `ActionLimit` newer ones, since `sync_run_graph` lists 1000; their times of
creation (`CreatedAt`) differ. `OkMeansMapped` speaks of these. An Action names its task (`NamedTask`),
which need not be the one of its plan. The tables of runs, tasks, plans and Actions stay as they are,
and Actions that name no task or no plan are left out: a request that meets one, unless it is a query,
fails. `EnterTrace` is apart because the code never looks up a mapped trace. History: `refused`, `at`
(the version when a request began), `before` (the requests that had ended by then).

### RuntimeCache and RobotRegistry

A robot's state is a value in each of a few columns. `ReadRobot` is the SELECT of `upsert_robot_state` and
`CommitRobot` its commit, an UPDATE of the columns in which the new state differs from the one that was
read (`Overwritten`), so that the row may become a mixture of two writers' states; the second of two rows
for one robot breaks the unique constraint (`CommitFails`, which also stands for any other failure). A
message is stored in one step (`StoreMessage`). In `pending[w]` a writer holds what it is about to commit
or to put into the cache: `SetRobot`, `SetRobotFails` (Redis may have obeyed all the same), `Push`.
`Expire` is the end of the keys' time or an empty Redis; an expired list is read as empty. `Restart` ends
all writers and warms the cache, or fails to. `stale` is history: the robots whose copy may differ, by an
overlap, a failure, an expiry or a row that was written without the cache. Two writers of a robot overlap
if one begins, with its SELECT, before the other has called the cache or failed; a writer that is alone
all that time clears it. `updated_at` is left out.

`RobotRegistry` adds `create_executor` (`LookForExecutor`, `InsertExecutor`), `create_robot_config` (with
or without an executor, which is created first), `create_robot`, reports of unknown robots and
`transition_executor`. `looked` and `restarted` are history of an executor. `Configure` writes the row of a
robot past the cache, as the code does. `Offered` has the same part as in `HubCompat`: one behaviour
asks for one of its sets.

## Runs

Every property of a passing run has a mutant of a modelled definition that TLC finds violating it.

| run | instance | question and result |
|---|---|---|
| `executor_safety` | 2 deliveries of any of 6 commands (an action whose numbers may raise, another action, stop, query, incomplete, for another robot), 2 iterations, 2 broadcasts or reconnections, a signal; 1.7 million states | all safety properties hold, and the events refine `CommandContract` |
| `executor_liveness` | the same with 1 broadcast; 0.5 million states | `EveryCommandEnds`, `CancelTakesEffect` hold |
| `executor_lost_stop` | action and stop | `NoStopLost` fails: acquire, stop accepted and flag set, flag cleared, success |
| `dispatch_safety` | an action and a stop of one task, each of an Action or sent without one, 1 resending, 1 lost report, injected failures, progress told until 4 reports are out; 3.7 million states | evidence and agreement hold |
| `state_safety` | 3 handlers with any of an offline robot, a blocked path, their recoveries, a task, a snapshot; 2 alerts kept; 2.0 million states | both alert columns agree, newest first, versions name states until an update is lost |
| `state_robot` | 2 handlers with every fault and every recovery, with and without event and target; 1 report unasked; 10.4 million states | the robot's row settles |
| `scheduler_safety` | 2 schedule requests, a direct Action, made for the task or not, 2 replannings, a first plan of one step and new ones of two, a list of 1 Action; 2.1 million states | order, causes of second Actions, agreement of steps and Actions, succession of plans hold |
| `hub_sync` | 2 requests, of plan, task or publication and of run, Action (forced), scene (forced) or entities; a robot, a run of 2 tasks, a plan of one, an Action that names the other, a query, an older Action beyond a list of 2; 14 Hub objects, the Hub set up anew once; 1.6 million states | mappings are right, complete as far as Actions are listed, not repeated without need, and follow the map |
| `hub_moved` | an Action beside a publication | `ActionsAccepted` fails: the robot's entity is taken from the new scene, the task is in the old one |
| `map_publish` | 2 publishers of 7 drafts of 2 maps, 3 of them not to be published (a group against a direction, a station off the site, a node cut off); 2 seconds, 1 edit, 3 publications; 0.4 million states | what is published can be driven, the current map never goes back, publishers that were alone leave order and tell the truth |
| `hub_compat` | 2 clients, 2 makers of chains and batches of 2, 2 runs, 3 tasks, a limit of 2 messages of a kind and 5 in all; 1.9 million states | groups are whole, duplicates have a cause, events are in order, runs keep their scene |
| `registry` | 2 robots (1 by default), 2 writers, 2 administrators, 3 messages of which 2 are kept, a robot's state of 2 columns with 2 values, written any number of times, 4 executors; 1.1 million states | cache, messages, executors and configurations agree |

Why these bounds are enough to meet the hazards: two deliveries are a holder of the lock and a rival, a
stop and its target, or one command twice; with two iterations there is a check before and a check after
progress, and a last stretch without one; two broadcasts give a fault and its recovery or two faults of
one action. What needs more actors (a third thread between two others) is covered by the theorems, which
bound nothing. In `ActionDispatch` two Actions of one task are what a task row can be torn between, with
and without rows of their own; one resending repeats any suffix of the reports. In `CurrentState` three
transactions are a reader, one that overwrites it, and one that builds on the result; two alerts kept
are enough for the third to be cut off. In `RuleScheduler` a plan of two steps has an earlier and a
later one; two requests and a direct Action are a rival and a third Action, with which the list of one
cuts an older one off; two replannings overlap each other or succeed each other.

In `HubSync` two requests overlap at every step or follow each other, and each of them may fail at any
step; together they enter every kind of object, and 14 Hub objects leave room to make each kind twice:
at the bound a `post` can only fail. Of three Actions a list of two leaves the oldest out. In
`MapPublish` three publications are two that overlap and a third that finds what they left; two seconds
let two publications of a map meet the constraint or not; a node and targets shared by both maps let a
publication take over a target. In `HubCompat` a limit of two is cut by the third message, and five
messages leave a repeated number two to be read after; two chains of two do not fit into three tasks
together, so that one is at work or fails beside the other. In `RobotRegistry` two columns of two values
are what a mixture needs, and the writes are not bounded; three messages overflow a list of two, and
four executors let two rivals be joined by a restarted one.

`SYMMETRY` permutes threads, handlers or requests in safety runs only. Deadlock checking is off
everywhere: when all requests are dealt with and the bounds are used up, the system rests.

`InjectedFailureOnce`, `StopHasCause`, `StopObeyed`, `SettledStatusAgrees` and most properties of the
modules with requests use history variables; no guard of an operation reads them. `SettledStatusAgrees`
speaks of an Action whose last report was applied. `RobotRowSettles` leaves out handlers that have
written the robot's row and never broadcast: their row stays wrong, and a hazard says so. `TypeOK` is
checked by TLC in `state_safety` and `hub_sync`, and proved of every module with proofs.

### Fairness

`RobotExecutor`: weak fairness of every command thread's own steps while no signal has come. A
thread that is started runs (the operating system schedules it; the lock is never waited for, the
loop is bounded). Nothing is assumed of messages, broadcasts, poses or signals: none has to happen.
All other modules have safety properties only and assume no fairness: a handler may end at any point
(a crash, an error), reports may be lost, and nothing in the code repeats either.

### What the failing runs say

They state what the repository's documents or tests say and show the code do otherwise; quotes are under
`findings`. `NoStopLost`: a stop accepted between `busy_lock.acquire` and `cancel_current_task.clear()`
is forgotten. `ActionsAccepted`: a task stays mapped to the scene it was synchronised in, while the
robot's entity is looked up in the scene that is current. After a publication the Hub refuses the
Action, and no retry helps. Neither does it need an overlap: any new Action of a task that was
synchronised before the publication meets it.

### What else the code does

Seen while modelling. The models do these things as the code does, and the properties are stated so as
to say what holds nevertheless:

- `mark_action_issued` (`database_store.py:1720`), late reports and repeated ones overwrite a terminal
  status of an Action. `StatusHasEvidence` says that what stands there did happen.
- An Action whose reports are dropped (they came before the row knew its commandId,
  `database_store.py:1816`) or lost stays Issued: nothing acts on a timeout.
- `state_version` (`database_store.py:2976`) is incremented on what was read, so two observations may
  both store version n + 1 and the first is lost. Nothing compares versions.
- A robot's report of a blocked path that arrives after the path's recovery blocks it again
  (`database_store.py:2950`), and a later recovery of the path does not remove that alert.
- A command sent without an Action (`main.py:802`) moves the task it names (`database_store.py:1826`): the
  task may succeed or be cancelled while none of its Actions has ended. `TaskHasEvidence` speaks of
  commands for that reason.
- `create_action` accepts a plan and a step without their task or with another one
  (`database_store.py:1652-1681`). The scheduler looks for Actions of the task (`main.py:1279`) and makes
  another one for the step.
- A run is synchronised with its newest 1000 Actions only (`hub_client.py:204`); older ones that were not
  mapped before stay so, and the answer is ok.
- Two replannings that overlap leave two active plans of one version (`database_store.py:1564`).
- Requests of the Hub synchronisation that overlap or end in an error leave tasks, plans, Actions and
  traces in the Hub twice.
- A run of the Hub API whose message is not stored keeps the scene of its scenario and can be neither
  created again (409) nor corrected.
- Two reports of a robot that overlap leave a row that mixes their columns (`database_store.py:653`),
  and the cache holds one of the two whole, until a report that meets no other.
- An executor created for a configuration that is then refused stays, and `transition_executor`
  accepts every transition, so that a restart may leave two active executors of a robot.

## Proofs

From the assumptions on the constants that the modules declare (`ExecutorAssumption`,
`DispatchAssumption`, `NoneAssumption`, `StateAssumption`, `ScheduleAssumption`, `PublishAssumption`,
`SyncAssumption`, `TasksAssumption`, `HubAssumption`, `CacheAssumption`, `RegistryAssumption`: types and
bounds of the constants; `None` and `Free` are no ids; drafts and default groups are maps and groups as
the schema has them, and the seeded one may be published; default robots, and what there is to
synchronise, are finitely many) and nothing else. Every safety property that a run checks is also
proved.

Some definitions are recursive functions over an interval (`Remaining`, and `FlattenSeq` of the
community modules in `HubSync`). The induction theorems of the library take an operator, which the
provers cannot instantiate; `SetInduction` says the same of a set and follows from the natural order
being well-founded, and `Recursion` derives from it that such a definition defines a function and what
its values are.

`RobotExecutorProofs`, for any number of threads, commands, tasks, iterations and broadcasts:

- `TypeCorrect`: `TypeOK`.
- `MutualExclusion`, `IdsCorrect`, `RestCorrect`. None of these is inductive. The invariant
  `LockInv` says for each place in the claim and in the `finally` which ids are already set or
  reset and which state is shown, because the lock is free only after the last of them.
- `StopCauseCorrect`, `StopObedience` from `CancelInv`. It says by the thread's place where a
  request that met the action can be: in the flag as long as a check is ahead and nothing has
  cleared it (`RequestPending`, `CancelByPhase`), and it says that success is the last thing a
  thread tells and that a thread that has not reached a place has told nothing of it
  (`SuccessIsLast`, `NothingToldYet`). Without the first, the step to success would have to be
  trusted; without the second, `StopHasCause` could be broken by an earlier event of the thread.
- `ContractImplemented` from `ContractInv`: `PhaseByPc` says which phases of the contract fit each place
  of a thread. Each of the thread's actions then is a step of `CommandContract` for its command or
  leaves the phase alone, and what others do leaves it alone, too. This is what `ActionDispatch` builds
  on when it lets the robot take any step of the contract.
- `InjectionCorrect` from `FailureInv`: failed actions, and the failure on its way if there is one
  (`Pending`: the flag is set or an action has seen it), are at most as many as injections. That two
  actions cannot use one failure up needs that only the holder of the lock tests for it, so `LockInv` is
  part of the invariant.

`ActionDispatchProofs`, for any Actions, tasks, numbers of deliveries, resendings and losses:

- `TypeCorrect`: `TypeOK`.
- `StatusCorrect`, `TaskCorrect` from `EvidenceInvariant`: every report ever published, and so
  every report in the queue, is backed by a phase that some delivery of its command has gone
  through. A row is set from a queued report, so the queue must carry the evidence; the queue is
  refilled from `sent`, so `sent` must as well. That phases only move forward (`EvidenceKept`)
  keeps old evidence true. For a task the evidence is a command that belongs to it, with or without an
  Action; a query belongs to it once its Action is marked, which is not undone.
- `SettledCorrect` from `SettledInv` and `QueueInv`: the last report about an Action in the queue, if
  there is one, is the last it has published. Resending keeps that because it repeats a suffix, and
  the row of an Action that is named no more in the queue was set by its last report. With this the
  row is right for any number of deliveries of a command, which the run shows for one.

`CurrentStateProofs`, for any handlers, requests, limits and reports:

- `MirrorCorrect` from `RowInv` and `MirrorInv`: what a transaction has read and what it will write
  each have equal alerts in both columns, so it writes both columns or neither. `RowInvariant` gives
  the shape of rows and that a transaction writes the version after the one it read.
- `VersionsCorrect` from `VersionInv`: until an update is lost no snapshot is newer than the row, and
  one of its version is the row.
- `RobotRowCorrect` from `SettleInv`: the last report on the wire that says a state says the device's;
  with none on it, the row, or what the MQTT thread is about to write, is right, unless a handler
  still has to broadcast. That a stale merge is harmless then follows: whoever made it stale will have
  the robot speak again.
- `TypeCorrect`, `NewestAreFirst` from `ThreadInv` and `ListInv`: the lists a transaction has read and will
  write are sequences within the limit, with stamps that fall and none later than the clock. The
  order is kept by an insertion since the new stamp is the clock's, and by a recovery since what
  `Remaining` leaves is a subsequence (`RemainingPicked`, `ListedOrdered`). An older copy that is written
  late is in order as well, only not the newest.

`RuleSchedulerProofs`, for any requests, planners, plans, statuses of steps and limits. Nine of the
actions touch few of the variables, so lemmas sort the steps of `Next` by their effect
(`RequestStepKinds`, `ServeOthers`, `ServeEffect`, `StoreEffect`, `RowsGrow`):

- `TypeCorrect`: `TypeOK`, which also says that a plan has a version when it is there.
- `PlansCorrect` from `PlanInv`: a planner about to commit will supersede every plan it knows that is
  active by then, since a plan only becomes active when it is made; and it commits once.
  `ReplacedCorrect` follows from it: of the plans that were there when a request read one, none that
  was activated knew the one it read, or that one would have been superseded or been older.
- `IssuedCorrect` from `StepInv`: no copy of the steps, in a plan or in a request's hands, is ahead of
  the rows (`Behind`), and a row is Issued only after its Action. An overwritten list then loses
  marks but never invents one.
- `OrderCorrect`, `SecondCorrect` from `ChoiceInv`: when a request has chosen, the earlier steps have
  their Actions (a step shown as Issued by `IssuedCorrect`, a taken one by the list), and Actions for
  the step itself are newer than the list, were cut off it, or were not made for the task. The
  properties speak of the Action, which comes two transactions later; the invariant carries the choice
  there.
- `AgreeCorrect` from `AgreeInv`, with `StepInv` for a commit that finds nothing to change.

`MapPublishProofs`, for any maps, default groups, publishers, targets, seconds, edits and publications:

- `PublishedCorrect`: the validator is right about any map of any size (`ValidIsDrivable`), and what is
  not valid never gets into a row (`DraftInv`). The way asked for is the order in which `Ordered` sorts
  the edges of a group. That it meets every edge once is a matter of counting (`RankTaken`): different
  indices have different ranks, and a rank that no index has would leave fewer ranks than indices.
  Default groups keep a map a map (`DefaultsKeepMap`), so the argument holds of what is published and
  not only of what was drawn.
- `TypeCorrect` from `TypeInv`: `TypeOK`, with the fact that a target once found is not removed again
  (`FoundStay`), since otherwise an UPDATE of some columns would make a row of halves.
- `CurrentCorrect` from `CurrentInv`: stamps of rows never exceed the number of publications begun, and a
  publisher archives only rows older than the one it inserts. Whatever it takes away, its own row is newer.
- `OrderCorrect`, `TruthCorrect` from `AloneInv`: by the phase of a publisher that is undisturbed,
  what it has read is what there is, what it has written still stands, and name and Hub are those of its
  row. Both are action properties, of the step to `committed` and of the step that tells.

`HubSyncProofs`, for any requests, robots, runs, tasks, plans, Actions and bounds. Every action is a
`Begin`, an end (`GivesUp`), a `Reset`, or a `MoveOf`: it replaces the first step a request has ahead,
by none, one or several, while table and Hub only grow (`AllMove`). The invariants below are kept by any
such move, each with what it needs to know of the steps put in, so that the actions are gone through
once and not for each invariant:

- `SyncInvariant`, with `TypeCorrect` and `IdsOwn`: `Nest` gives the order of the steps ahead, a stack of
  calls in which an object stands above those that wait for it; `GotFits` says that an id a call has
  returned is of the object it was for, and that a step that posts has the ids of the parents. The Hub
  forgets objects and never changes one, so that ids stay what they were.
- `OkMapped` from `CoverInv`: what a request was to bring to the Hub is mapped or still ahead of it, and so
  is what that depends on, or the object has not been entered yet. At the answer nothing is ahead. That
  each listed Action is among what was to be brought (`MeantActions`) rests on `InjectiveOrder`: the order
  in which a set is entered takes in each of its elements.
- `NotRepeated` from `MadeInv` and `RepeatInv`: what has been made is mapped, unless its maker failed or
  is just about to store it; so a request that began after the maker had answered finds it and does not
  post.
- `SceneFollows` from `NameInv` and `SceneInv`: a scene on its way to the table has the name of a
  version not older than the request; when all requests of older versions are over, a stored one is the
  current.

`HubCompatProofs`, for any clients, makers, runs, sizes, limits and logs:

- `TypeCorrect` from `TypeInv`: `TypeOK`, with the shape of what handlers hold.
- `GroupsCorrect` from `GroupInv`: the items so far are right for requests still at work, too; and a task
  that names a group is listed by it, by its request, or the request has failed.
- `DuplicatesCorrect` from `DuplicateInv`: what a handler holds was not among the messages it saw; the
  log only grows, so that stays true until and after it is stored.
- `EventsCorrect` from `EventInv`: a number, held or stored, is at most one above the events counted,
  and above the number of each event before it if all were counted. The first part is what makes the
  second inductive: without it an earlier event could carry any number.
- `RunsCorrect` from `RunInv`: a run has at most one message, held or stored, and an answer names one.

`RobotRegistryProofs`, for any robots, writers, administrators, messages and executors:

- `TypeCorrect`: `TypeOK`.
- `CacheCorrect` from `CacheInv`: a writer that is still alone is the only one, and the row is the one
  it has read or, after its commit, its whole state; if a writer is not alone, the robot counts as
  stale. The row it has read is what makes the rest inductive: only from there does an UPDATE of some
  columns give the state.
- `MessagesCorrect` from `MessageInv`: a message about to be pushed is in the table, not in the
  list, and held by one writer only.
- `TwoActiveCorrect` from `LookInv`: among the executors that a creator saw none of the robot is active
  unless restarted, also after it has inserted its own.
- `ConfigsCorrect` from `ConfigInv`: what a request remembers of a configuration and of the executor it
  has created stays true.

Only model-checked: `EveryCommandEnds` and `CancelTakesEffect`. They are liveness under fairness, which is
out of the prover's reach, like `ENABLED`. The two properties that fail have no theorem.

## Not modelled

- The JSON store (`store.py` where it keeps state), the fallback without a database. It has the
  operations of the database store without transactions; concurrent requests overwrite the whole file
  (`store.py:567`), and nothing in it is meant to prevent that. What the two stores share, validation,
  default groups, targets and the default fleet, is modelled.
- Statuses of runs, which are set and read and decide nothing; binding status and heartbeat of a
  gateway; fields of a robot's configuration; audits.
- Which robot the scheduler picks, and its recorded decisions. The robot is not looked at again after it
  is picked (`main.py:1240`); the executor refuses what it cannot do.
- Repeated reports in `CurrentState`: one is stored once, but its alert is listed again
  (`database_store.py:2947`). In `RobotExecutor` a refusal that has read `offline_mode` may write Offline
  after a recovery (`robot-executor/app/main.py:170`); that is modelled, and no property forbids it: the
  robot shows it until its next action.
- Reports that clients post as a robot's (`POST /messages`, `POST /observations`): see `ActionDispatch`.
- Of the Hub API: snapshots, results and statuses, which append messages that no check reads, and
  Actions, which are dispatched like the platform's own. Of the Hub synchronisation: payloads and
  `current_state`, which only reads.
- Saving and checking drafts; the default fleet's and targets' synchronisation when the API process
  starts; that a publication ends (nothing repeats one that does not).
- Wiring and declarations (`schemas.py`, `db_models.py`, `database.py`, `store_factory.py`, alembic),
  the constant MQTT listing (`mqtt_contract.py`), exports, and the frontend, which polls the API and
  keeps no state of the system.
