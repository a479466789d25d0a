--------------------------- MODULE RobotExecutor ---------------------------
(***************************************************************************)
(* The virtual robot of src/robot-executor/app/main.py: one process, many  *)
(* threads.  The paho network thread ("mqtt") hands every command message  *)
(* to a daemon thread of its own and runs the handlers of broadcast events *)
(* itself; the main thread ("main") publishes a pose every few seconds.    *)
(* They share plain attributes, four Event flags and one non-blocking      *)
(* lock.  An action of this module is a stretch of code that touches one   *)
(* shared attribute, flag or lock, or several that commute with what the   *)
(* other threads do in between, so that every interleaving the interpreter *)
(* can produce is a behaviour of Spec.                                     *)
(*                                                                         *)
(* Abstracted: positions, battery, durations, payload texts, scene names.  *)
(* A task id stands for the task, trace and run ids, which are assigned,   *)
(* reset and published together.                                           *)
(***************************************************************************)
EXTENDS Naturals, Sequences, FiniteSets

CONSTANTS
  Threads,       \* one per delivery of a command message (QoS 1: a command
                 \* may be delivered more than once)
  Commands,      \* command ids
  Tasks,         \* task ids
  Payload,       \* Payload[c]: what command c asks for
  Steps,         \* iterations of the progress loop (>= 3 in the code)
  MaxBroadcasts, \* bound: broadcasts and reconnections in a behaviour
  Watchers,      \* {"mqtt"}, or with "main", whose poses change nothing shared
  None, Free     \* Python's None; the unlocked busy_lock

Ops == {"goto_pose", "generic", "where", "stop", "unsupported"}

\* addressed: messageType is "command" and robotCode is this robot's.
\* sane: no duration, target or yaw in params makes float() or
\* planned_duration_ms raise.
PayloadType ==
  [op : Ops, addressed : BOOLEAN, task : Tasks \cup {None}, request : BOOLEAN,
   xy : BOOLEAN, sane : BOOLEAN]

ASSUME ExecutorAssumption ==
  /\ Payload \in [Commands -> PayloadType]
  /\ Steps \in Nat \ {0}
  /\ MaxBroadcasts \in Nat
  /\ "mqtt" \in Watchers /\ Watchers \subseteq {"main", "mqtt"}
  /\ None \notin Commands \cup Tasks
  /\ Free \notin Threads

VARIABLES
  pc, cmd, step, why,        \* a command thread: where it is, its command,
                             \* the loop counter, its `failure` local
  busy_lock,                 \* the holder, or Free
  cancel_current_task, offline_mode, fail_next_action, path_blocked, stop_event,
  state, current_command_id, current_task_id,
  at, saw,           \* "main" and "mqtt": where they are, the command
                             \* id read; the ids of the last event they sent
  told,                      \* told[t]: the result events thread t published
  budget,
  asked, injected            \* history: cancel requests that met an action,
                             \* failure injections

locals == <<pc, cmd, step, why>>
ids    == <<current_command_id, current_task_id>>
watch  == <<at, saw>>
ghosts == <<asked, injected>>
faults == <<offline_mode, fail_next_action, path_blocked>>
life   == <<stop_event, budget>>
vars == <<locals, busy_lock, cancel_current_task, faults, state, ids, watch, told,
          life, ghosts>>

\* Program points of a command thread, in the order the code visits them.
Claiming  == {"claim", "name", "enter"}
Checking  == {"offline?", "path?", "fail?", "stop?"}
Running   == {"plan", "start", "consume", "move", "arrive", "failing", "halting",
              "abort"} \cup Checking
Finishing == {"reset command", "reset task", "reset cancel", "release"}
Holding   == Claiming \cup Running \cup Finishing
PCs == {"new", "received", "refuse", "acquire", "cancel", "probe", "done"} \cup Holding

WatchPCs == {"ready", "offline state", "offline cancel", "recover path",
             "recover fail", "recover probe", "recover idle", "blocked cancel",
             "read command", "read task"}

Active == {"Moving", "Executing"}      \* ACTION_STATES, by kind of action
States == {"Idle", "Error", "Offline"} \cup Active
Codes  == {"none", "DEVICE_OFFLINE", "PATH_BLOCKED", "ACTION_FAILED", "exception"}
Events == {"command.accepted", "command.rejected", "action.started", "task.started",
           "action.progress", "action.succeeded", "task.succeeded", "action.failed",
           "task.failed", "task.stopped", "where.result", "device.offline"}

TypeOK ==
  /\ pc \in [Threads -> PCs]
  /\ cmd \in [Threads -> Commands \cup {None}]
  /\ step \in [Threads -> 0..Steps]
  /\ why \in [Threads -> Codes]
  /\ busy_lock \in Threads \cup {Free}
  /\ cancel_current_task \in BOOLEAN
  /\ offline_mode \in BOOLEAN
  /\ fail_next_action \in BOOLEAN
  /\ path_blocked \in BOOLEAN
  /\ stop_event \in BOOLEAN
  /\ state \in States
  /\ current_command_id \in Commands \cup {None}
  /\ current_task_id \in Tasks \cup {None}
  /\ at \in [Watchers -> WatchPCs]
  /\ saw \in [Watchers -> Commands \cup {None}]
  /\ told \in [Threads -> Seq(Events)]
  /\ budget \in 0..MaxBroadcasts
  /\ asked \subseteq Threads \X {"claim", "later"}
  /\ injected \in Nat

Init ==
  /\ pc = [t \in Threads |-> "new"]
  /\ cmd = [t \in Threads |-> None]
  /\ step = [t \in Threads |-> 0]
  /\ why = [t \in Threads |-> "none"]
  /\ busy_lock = Free
  /\ cancel_current_task = FALSE
  /\ offline_mode = FALSE
  /\ fail_next_action = FALSE
  /\ path_blocked = FALSE
  /\ stop_event = FALSE
  /\ state = "Idle"
  /\ current_command_id = None
  /\ current_task_id = None
  /\ at = [w \in Watchers |-> "ready"]
  /\ saw = [w \in Watchers |-> None]
  /\ told = [t \in Threads |-> <<>>]
  /\ budget = MaxBroadcasts
  /\ asked = {}
  /\ injected = 0

-----------------------------------------------------------------------------
\* Helpers

Ask(t) == Payload[cmd[t]]

GoTo(t, p)  == pc' = [pc EXCEPT ![t] = p]
Say(t, es)  == told' = [told EXCEPT ![t] = @ \o es]

\* publish_command_rejected, then the thread returns.
Reject(t) == Say(t, <<"command.rejected">>) /\ GoTo(t, "done")

\* A check of the stop flags is still ahead of thread t.
WillCheckStop(t) ==
  \/ pc[t] \in Claiming \cup Checking \cup {"plan", "start"}
  \/ pc[t] = "move" /\ step[t] + 1 < Steps

\* cancel_current_task.set(), with the history of whom it met.
RequestCancel ==
  /\ cancel_current_task' = TRUE
  /\ asked' = IF busy_lock # Free /\ WillCheckStop(busy_lock)
              THEN asked \cup {<<busy_lock, IF pc[busy_lock] = "claim"
                                            THEN "claim" ELSE "later">>}
              ELSE asked

-----------------------------------------------------------------------------
\* Command threads: from the message to an answer, or to the lock

\* on_message, the command topic: a daemon thread per delivery.
Deliver(t, c) ==
  /\ at["mqtt"] = "ready"
  /\ pc[t] = "new"
  /\ cmd' = [cmd EXCEPT ![t] = c]
  /\ GoTo(t, "received")
  /\ UNCHANGED <<step, why, busy_lock, cancel_current_task, faults, state, ids,
                 watch, told, life, ghosts>>

\* execute_command turns away everything but a stop while the device is offline.
TurnsAway(t) == offline_mode /\ Ask(t).op # "stop"

\* execute_command, handle_where and handle_stop: what is rejected unseen.
Malformed(t) ==
  \/ ~Ask(t).addressed
  \/ ~TurnsAway(t) /\ \/ Ask(t).op = "unsupported"
                      \/ Ask(t).op = "where" /\ ~Ask(t).request
                      \/ Ask(t).op = "stop" /\ Ask(t).task = None

\* execute_command: the payload checks, handle_where, and the dispatch.
Receive(t) ==
  /\ pc[t] = "received"
  /\ \/ /\ Malformed(t)
        /\ Reject(t)
     \/ /\ ~Malformed(t) /\ TurnsAway(t)
        /\ GoTo(t, "refuse") /\ UNCHANGED told
     \/ /\ ~Malformed(t) /\ ~TurnsAway(t) /\ Ask(t).op = "where"
        /\ Say(t, <<"command.accepted", "where.result">>) /\ GoTo(t, "done")
     \/ /\ ~Malformed(t) /\ Ask(t).op = "stop"
        /\ Say(t, <<"command.accepted">>) /\ GoTo(t, "cancel")
     \/ /\ ~Malformed(t) /\ ~TurnsAway(t) /\ Ask(t).op \in {"goto_pose", "generic"}
        /\ GoTo(t, "acquire") /\ UNCHANGED told
  /\ UNCHANGED <<cmd, step, why, busy_lock, cancel_current_task, faults, state, ids,
                 watch, life, ghosts>>

\* execute_command, after offline_mode was seen set.
RefuseOffline(t) ==
  /\ pc[t] = "refuse"
  /\ state' = "Offline"
  /\ Say(t, <<"command.rejected", "device.offline">>)
  /\ GoTo(t, "done")
  /\ UNCHANGED <<cmd, step, why, busy_lock, cancel_current_task, faults, ids, watch,
                 life, ghosts>>

\* handle_stop after command.accepted: it cancels whatever task is running.
StopCancel(t) ==
  /\ pc[t] = "cancel"
  /\ RequestCancel
  /\ GoTo(t, "probe")
  /\ UNCHANGED <<cmd, step, why, busy_lock, faults, state, ids, watch, told, life,
                 injected>>

\* handle_stop reports task.stopped itself when nobody holds the lock.
StopProbe(t) ==
  /\ pc[t] = "probe"
  /\ IF busy_lock = Free THEN Say(t, <<"task.stopped">>) ELSE UNCHANGED told
  /\ GoTo(t, "done")
  /\ UNCHANGED <<cmd, step, why, busy_lock, cancel_current_task, faults, state, ids,
                 watch, life, ghosts>>

-----------------------------------------------------------------------------
\* Command threads: execute_goto_pose and execute_generic_action, which differ
\* in the parameters they check, the number of steps and the state they show

\* An action without its required parameters is rejected before the lock.
Incomplete(t) ==
  Ask(t).task = None \/ (Ask(t).op = "goto_pose" /\ ~Ask(t).xy)

\* Mutant: the rejection of a busy device runs the `finally`.
AcquireReleasing(t) ==
  /\ pc[t] = "acquire"
  /\ \/ /\ Incomplete(t) \/ busy_lock # Free
        /\ Say(t, <<"command.rejected">>) /\ GoTo(t, "release") /\ UNCHANGED busy_lock
     \/ /\ ~Incomplete(t) /\ busy_lock = Free
        /\ busy_lock' = t
        /\ GoTo(t, "claim") /\ UNCHANGED told
  /\ UNCHANGED <<cmd, step, why, cancel_current_task, faults, state, ids, watch,
                 life, ghosts>>

\* busy_lock.acquire(blocking=False)
Acquire(t) ==
  /\ pc[t] = "acquire"
  /\ \/ /\ Incomplete(t) \/ busy_lock # Free       \* INVALID_TARGET_POSE, DEVICE_BUSY
        /\ Reject(t) /\ UNCHANGED busy_lock
     \/ /\ ~Incomplete(t) /\ busy_lock = Free
        /\ busy_lock' = t
        /\ GoTo(t, "claim") /\ UNCHANGED told
  /\ UNCHANGED <<cmd, step, why, cancel_current_task, faults, state, ids, watch,
                 life, ghosts>>

\* Mutant: the flag a previous stop has set is not cleared.
ClaimStale(t) ==
  /\ pc[t] = "claim"
  /\ GoTo(t, "name")
  /\ UNCHANGED <<cmd, step, why, busy_lock, cancel_current_task, faults, state, ids,
                 watch, told, life, ghosts>>

\* cancel_current_task.clear()
ClaimCancel(t) ==
  /\ pc[t] = "claim"
  /\ cancel_current_task' = FALSE
  /\ GoTo(t, "name")
  /\ UNCHANGED <<cmd, step, why, busy_lock, faults, state, ids, watch, told, life,
                 ghosts>>

ClaimCommand(t) ==
  /\ pc[t] = "name"
  /\ current_command_id' = cmd[t]
  /\ GoTo(t, "enter")
  /\ UNCHANGED <<cmd, step, why, busy_lock, cancel_current_task, faults, state,
                 current_task_id, watch, told, life, ghosts>>

ClaimTask(t) ==
  /\ pc[t] = "enter"
  /\ current_task_id' = Ask(t).task
  /\ state' = IF Ask(t).op = "goto_pose" THEN "Moving" ELSE "Executing"
  /\ GoTo(t, "plan")
  /\ UNCHANGED <<cmd, step, why, busy_lock, cancel_current_task, faults,
                 current_command_id, watch, told, life, ghosts>>

\* A number of the payload raises where it is used; which one is left open.
Raises(t) == ~Ask(t).sane

\* planned_duration_ms, command.accepted, and for goto_pose the target's numbers.
Plan(t) ==
  /\ pc[t] = "plan"
  /\ \/ /\ Raises(t)
        /\ GoTo(t, "abort") /\ UNCHANGED told
     \/ /\ Say(t, <<"command.accepted">>)
        /\ \/ GoTo(t, "start")
           \/ Raises(t) /\ Ask(t).op = "goto_pose" /\ GoTo(t, "abort")
  /\ UNCHANGED <<cmd, step, why, busy_lock, cancel_current_task, faults, state, ids,
                 watch, life, ghosts>>

Start(t) ==
  /\ pc[t] = "start"
  /\ Say(t, <<"action.started", "task.started">>)
  /\ GoTo(t, "offline?")
  /\ UNCHANGED <<cmd, step, why, busy_lock, cancel_current_task, faults, state, ids,
                 watch, life, ghosts>>

\* should_fail_current_action: three flags read one after the other.
FailWith(t, code) == why' = [why EXCEPT ![t] = code] /\ GoTo(t, "failing")

CheckOffline(t) ==
  /\ pc[t] = "offline?"
  /\ IF offline_mode THEN FailWith(t, "DEVICE_OFFLINE")
                     ELSE GoTo(t, "path?") /\ UNCHANGED why
  /\ UNCHANGED <<cmd, step, busy_lock, cancel_current_task, faults, state, ids,
                 watch, told, life, ghosts>>

CheckPath(t) ==
  /\ pc[t] = "path?"
  /\ IF path_blocked THEN FailWith(t, "PATH_BLOCKED")
                     ELSE GoTo(t, "fail?") /\ UNCHANGED why
  /\ UNCHANGED <<cmd, step, busy_lock, cancel_current_task, faults, state, ids,
                 watch, told, life, ghosts>>

CheckFail(t) ==
  /\ pc[t] = "fail?"
  /\ GoTo(t, IF fail_next_action THEN "consume" ELSE "stop?")
  /\ UNCHANGED <<cmd, step, why, busy_lock, cancel_current_task, faults, state, ids,
                 watch, told, life, ghosts>>

\* Mutant: the injected failure is not consumed.
ConsumeNothing(t) ==
  /\ pc[t] = "consume"
  /\ FailWith(t, "ACTION_FAILED")
  /\ UNCHANGED <<cmd, step, busy_lock, cancel_current_task, faults, state, ids,
                 watch, told, life, ghosts>>

\* The failure is cleared by the action it fails, after the test.
ConsumeFailure(t) ==
  /\ pc[t] = "consume"
  /\ fail_next_action' = FALSE
  /\ FailWith(t, "ACTION_FAILED")
  /\ UNCHANGED <<cmd, step, busy_lock, cancel_current_task, offline_mode,
                 path_blocked, state, ids, watch, told, life, ghosts>>

\* Mutant: the loop looks at the process's flag only.
CheckSignalOnly(t) ==
  /\ pc[t] = "stop?"
  /\ GoTo(t, IF stop_event THEN "halting" ELSE "move")
  /\ UNCHANGED <<cmd, step, why, busy_lock, cancel_current_task, faults, state, ids,
                 watch, told, life, ghosts>>

CheckStop(t) ==
  /\ pc[t] = "stop?"
  /\ GoTo(t, IF stop_event \/ cancel_current_task THEN "halting" ELSE "move")
  /\ UNCHANGED <<cmd, step, why, busy_lock, cancel_current_task, faults, state, ids,
                 watch, told, life, ghosts>>

\* Mutant: the loop does not advance.
MoveForever(t) ==
  /\ pc[t] = "move"
  /\ UNCHANGED <<step, told>>
  /\ GoTo(t, "offline?")
  /\ UNCHANGED <<cmd, why, busy_lock, cancel_current_task, faults, state, ids, watch,
                 life, ghosts>>

\* One iteration: the pose and action.progress, then the sleep.  The yaw of a
\* goto_pose is converted here.
Move(t) ==
  /\ pc[t] = "move"
  /\ \/ /\ Raises(t) /\ Ask(t).op = "goto_pose"
        /\ GoTo(t, "abort") /\ UNCHANGED <<step, told>>
     \/ /\ step' = [step EXCEPT ![t] = @ + 1]
        /\ Say(t, <<"action.progress">>)
        /\ GoTo(t, IF step[t] + 1 < Steps THEN "offline?" ELSE "arrive")
  /\ UNCHANGED <<cmd, why, busy_lock, cancel_current_task, faults, state, ids, watch,
                 life, ghosts>>

\* The four ways out of the try block: what the state becomes and what is reported.
Leave(t, from, s, events) ==
  /\ pc[t] = from
  /\ state' = s
  /\ Say(t, events)
  /\ GoTo(t, "reset command")
  /\ UNCHANGED <<cmd, step, busy_lock, cancel_current_task, faults, ids, watch, life,
                 ghosts>>

Arrive(t) ==
  /\ Leave(t, "arrive", "Idle", <<"action.succeeded", "task.succeeded">>)
  /\ UNCHANGED why

\* Mutant: no return after the failure is reported.
FailAndGoOn(t) ==
  /\ pc[t] = "failing"
  /\ state' = "Error"
  /\ Say(t, <<"action.failed", "task.failed">>)
  /\ GoTo(t, "stop?")
  /\ UNCHANGED <<cmd, step, why, busy_lock, cancel_current_task, faults, ids, watch,
                 life, ghosts>>

Fail(t) ==
  /\ Leave(t, "failing", IF why[t] = "DEVICE_OFFLINE" THEN "Offline" ELSE "Error",
           <<"action.failed", "task.failed">>)
  /\ UNCHANGED why

\* Mutant: a stopped action keeps its state.
HaltInState(t) ==
  /\ Leave(t, "halting", state, <<"task.stopped">>)
  /\ UNCHANGED why

\* Mutant: a stopped action skips the `finally`.
HaltHolding(t) ==
  /\ pc[t] = "halting"
  /\ state' = "Idle"
  /\ Say(t, <<"task.stopped">>)
  /\ GoTo(t, "done")
  /\ UNCHANGED <<cmd, step, why, busy_lock, cancel_current_task, faults, ids, watch,
                 life, ghosts>>

Halt(t) ==
  /\ Leave(t, "halting", "Idle", <<"task.stopped">>)
  /\ UNCHANGED why

Abort(t) ==
  /\ Leave(t, "abort", "Error", <<"action.failed", "task.failed">>)
  /\ why' = [why EXCEPT ![t] = "exception"]

\* finally: the ids, the cancel flag and the lock, in this order.
ResetCommand(t) ==
  /\ pc[t] = "reset command"
  /\ current_command_id' = None
  /\ GoTo(t, "reset task")
  /\ UNCHANGED <<cmd, step, why, busy_lock, cancel_current_task, faults, state,
                 current_task_id, watch, told, life, ghosts>>

\* Mutant: the task id is left behind.
ResetTaskForgotten(t) ==
  /\ pc[t] = "reset task"
  /\ GoTo(t, "reset cancel")
  /\ UNCHANGED <<cmd, step, why, busy_lock, cancel_current_task, faults, state, ids,
                 watch, told, life, ghosts>>

ResetTask(t) ==
  /\ pc[t] = "reset task"
  /\ current_task_id' = None
  /\ GoTo(t, "reset cancel")
  /\ UNCHANGED <<cmd, step, why, busy_lock, cancel_current_task, faults, state,
                 current_command_id, watch, told, life, ghosts>>

ResetCancel(t) ==
  /\ pc[t] = "reset cancel"
  /\ cancel_current_task' = FALSE
  /\ GoTo(t, "release")
  /\ UNCHANGED <<cmd, step, why, busy_lock, faults, state, ids, watch, told, life,
                 ghosts>>

Release(t) ==
  /\ pc[t] = "release"
  /\ busy_lock' = Free
  /\ GoTo(t, "done")
  /\ UNCHANGED <<cmd, step, why, cancel_current_task, faults, state, ids, watch,
                 told, life, ghosts>>

-----------------------------------------------------------------------------
\* The network thread: handle_broadcast_event.  An event whose target is
\* another robot returns at once and is not modelled.

WatchTo(w, p) == at' = [at EXCEPT ![w] = p]

\* A handler starts at most MaxBroadcasts times.
OpenHandler(p) ==
  /\ at["mqtt"] = "ready"
  /\ budget > 0
  /\ budget' = budget - 1
  /\ WatchTo("mqtt", p)

RobotOffline ==
  /\ OpenHandler("offline state")
  /\ offline_mode' = TRUE
  /\ UNCHANGED <<locals, busy_lock, cancel_current_task, fail_next_action,
                 path_blocked, stop_event, state, ids, saw, told, ghosts>>

RobotOfflineState ==
  /\ at["mqtt"] = "offline state"
  /\ state' = "Offline"
  /\ WatchTo("mqtt", "offline cancel")
  /\ UNCHANGED <<locals, busy_lock, cancel_current_task, faults, ids, saw,
                 told, life, ghosts>>

PathBlocked ==
  /\ OpenHandler("blocked cancel")
  /\ path_blocked' = TRUE
  /\ UNCHANGED <<locals, busy_lock, cancel_current_task, offline_mode,
                 fail_next_action, stop_event, state, ids, saw, told, ghosts>>

\* Both handlers end in cancel_current_task.set() and an event with the current ids.
FaultCancel ==
  /\ at["mqtt"] \in {"offline cancel", "blocked cancel"}
  /\ RequestCancel
  /\ WatchTo("mqtt", "read command")
  /\ UNCHANGED <<locals, busy_lock, faults, state, ids, saw, told, life,
                 injected>>

\* action.failed / task.failed: the next check of a running action fails it.
InjectFailure ==
  /\ OpenHandler("ready")
  /\ fail_next_action' = TRUE
  /\ injected' = injected + 1
  /\ UNCHANGED <<locals, busy_lock, cancel_current_task, offline_mode, path_blocked,
                 stop_event, state, ids, saw, told, asked>>

\* fault.recovered clears the three fault flags, never cancel_current_task.
FaultRecovered ==
  /\ OpenHandler("recover path")
  /\ offline_mode' = FALSE
  /\ UNCHANGED <<locals, busy_lock, cancel_current_task, fail_next_action,
                 path_blocked, stop_event, state, ids, saw, told, ghosts>>

RecoverPath ==
  /\ at["mqtt"] = "recover path"
  /\ path_blocked' = FALSE
  /\ WatchTo("mqtt", "recover fail")
  /\ UNCHANGED <<locals, busy_lock, cancel_current_task, offline_mode,
                 fail_next_action, state, ids, saw, told, life, ghosts>>

RecoverFail ==
  /\ at["mqtt"] = "recover fail"
  /\ fail_next_action' = FALSE
  /\ WatchTo("mqtt", "recover probe")
  /\ UNCHANGED <<locals, busy_lock, cancel_current_task, offline_mode, path_blocked,
                 state, ids, saw, told, life, ghosts>>

\* `if not self.busy_lock.locked(): self.state = "Idle"`: test and assignment.
RecoverProbe ==
  /\ at["mqtt"] = "recover probe"
  /\ WatchTo("mqtt", IF busy_lock = Free THEN "recover idle" ELSE "read command")
  /\ UNCHANGED <<locals, busy_lock, cancel_current_task, faults, state, ids, saw, told, life, ghosts>>

RecoverIdle ==
  /\ at["mqtt"] = "recover idle"
  /\ state' = "Idle"
  /\ WatchTo("mqtt", "read command")
  /\ UNCHANGED <<locals, busy_lock, cancel_current_task, faults, ids, saw,
                 told, life, ghosts>>

-----------------------------------------------------------------------------
\* Events sent outside the command threads: the main loop's pose, the pose of
\* on_connect, and the answers of the broadcast handlers.  Their ids are read
\* from the shared attributes one after the other.

OnConnect ==
  /\ OpenHandler("read command")
  /\ UNCHANGED <<locals, busy_lock, cancel_current_task, faults, stop_event, state,
                 ids, saw, told, ghosts>>

ReadCommand(w) ==
  /\ at[w] = IF w = "main" THEN "ready" ELSE "read command"
  /\ saw' = [saw EXCEPT ![w] = current_command_id]
  /\ WatchTo(w, "read task")
  /\ UNCHANGED <<locals, busy_lock, cancel_current_task, faults, state, ids, told,
                 life, ghosts>>

\* The task id is read and the event published, with the command id read before.
ReadTask(w) ==
  /\ at[w] = "read task"
  /\ saw' = [saw EXCEPT ![w] = None]
  /\ WatchTo(w, "ready")
  /\ UNCHANGED <<locals, busy_lock, cancel_current_task, faults, state, ids, told,
                 life, ghosts>>

\* SIGTERM or SIGINT.
Signal ==
  /\ ~stop_event
  /\ stop_event' = TRUE
  /\ UNCHANGED <<locals, busy_lock, cancel_current_task, faults, state, ids, watch,
                 told, budget, ghosts>>

-----------------------------------------------------------------------------
\* A command thread's own steps.
Step(t) ==
  \/ Receive(t) \/ RefuseOffline(t) \/ StopCancel(t) \/ StopProbe(t)
  \/ Acquire(t) \/ ClaimCancel(t) \/ ClaimCommand(t) \/ ClaimTask(t)
  \/ Plan(t) \/ Start(t)
  \/ CheckOffline(t) \/ CheckPath(t) \/ CheckFail(t) \/ ConsumeFailure(t)
  \/ CheckStop(t) \/ Move(t)
  \/ Arrive(t) \/ Fail(t) \/ Halt(t) \/ Abort(t)
  \/ ResetCommand(t) \/ ResetTask(t) \/ ResetCancel(t) \/ Release(t)

Broadcast ==
  \/ RobotOffline \/ PathBlocked \/ InjectFailure \/ FaultRecovered \/ OnConnect

Handle ==
  \/ RobotOfflineState \/ FaultCancel \/ RecoverPath \/ RecoverFail \/ RecoverProbe
  \/ RecoverIdle

Watch(w) == ReadCommand(w) \/ ReadTask(w)

Next ==
  \/ \E t \in Threads, c \in Commands : Deliver(t, c)
  \/ \E t \in Threads : Step(t)
  \/ Broadcast
  \/ Handle
  \/ \E w \in Watchers : Watch(w)
  \/ Signal

\* The operating system schedules every runnable thread while the process
\* lives; nothing makes a command, a broadcast or a signal arrive.  After a
\* signal the main loop ends and takes the daemon threads with it, wherever
\* they are: nothing is promised then.
Spec ==
  /\ Init /\ [][Next]_vars
  /\ \A t \in Threads : WF_vars(~stop_event /\ Step(t))

-----------------------------------------------------------------------------
\* Properties

\* At most one thread is between busy_lock.acquire and busy_lock.release: the
\* rejection of a busy device must not go through the `finally` that releases.
OneActionAtATime ==
  \A t \in Threads : pc[t] \in Holding <=> busy_lock = t

\* The shared ids are those of the lock's holder once it has claimed them and
\* None whenever the lock is free, so no pose of an idle robot names a task.
IdsBelongToHolder ==
  /\ busy_lock = Free => current_command_id = None /\ current_task_id = None
  /\ busy_lock # Free /\ pc[busy_lock] \in Running =>
       current_command_id = cmd[busy_lock] /\ current_task_id = Ask(busy_lock).task

\* A robot nobody drives does not show a moving state, whatever the handlers of
\* faults, the refusals of an offline robot and the ends of actions wrote last.
RestingStateWhenFree == busy_lock = Free => state \notin Active

RanAction(t) == cmd[t] # None /\ Ask(t).op \in {"goto_pose", "generic"}
Told(t, e)   == \E i \in 1..Len(told[t]) : told[t][i] = e

\* An action reports task.stopped only if a cancel request met it after it had
\* cleared the flag, or the process was told to stop: a stop answered while
\* the robot was idle, or meant for the previous action, does not stop the next.
StopHasCause ==
  \A t \in Threads :
    RanAction(t) /\ Told(t, "task.stopped") => <<t, "later">> \in asked \/ stop_event

\* An action that a cancel request met between its claim of the flag and its
\* last check does not go on to succeed.
StopObeyed ==
  \A t \in Threads : <<t, "later">> \in asked => ~Told(t, "task.succeeded")

\* A failure injected once (broadcast action.failed) fails at most one action.
InjectedFailureOnce ==
  Cardinality({t \in Threads : why[t] = "ACTION_FAILED"}) <= injected

\* The phase the platform reads off the last event of a delivery.
PhaseOf(e) ==
  CASE e = "command.accepted" -> "accepted"
    [] e \in {"command.rejected", "device.offline"} -> "rejected"
    [] e = "where.result" -> "answered"
    [] e \in {"task.started", "action.progress"} -> "running"
    [] e = "task.succeeded" -> "succeeded"
    [] e = "task.failed" -> "failed"
    [] OTHER -> "stopped"

Phase(t) == IF told[t] = <<>> THEN "silent" ELSE PhaseOf(told[t][Len(told[t])])

Contract == INSTANCE CommandContract
  WITH Deliveries <- Threads, phase <- [t \in Threads |-> Phase(t)]

\* The events a robot publishes follow the contract of CommandContract.
ImplementsContract == Contract!Spec

\* Every delivered command is dealt with while the process lives: no path
\* leaves a thread behind, whatever faults, stops and refusals it meets.
EveryCommandEnds ==
  \A t \in Threads : pc[t] = "received" ~> pc[t] = "done" \/ stop_event

\* A cancel request that met an action before its last check ends that action,
\* and the end is reported as a stop or a failure.
CancelTakesEffect ==
  \A t \in Threads :
    <<t, "later">> \in asked ~>
      \/ Told(t, "task.stopped") /\ busy_lock # t
      \/ Told(t, "task.failed") /\ busy_lock # t
      \/ stop_event

\* Stopping a robot (command=stop) ends the action it runs: a cancel request
\* made while an action holds the device keeps that action from succeeding.
NoStopLost ==
  \A t \in Threads : <<t, "claim">> \in asked => ~Told(t, "task.succeeded")

=============================================================================
