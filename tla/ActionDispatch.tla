--------------------------- MODULE ActionDispatch ---------------------------
(***************************************************************************)
(* From an Action of the platform to its end: the HTTP handlers that       *)
(* create, issue and stop Actions (src/backend/app/main.py), the broker,   *)
(* the robot, and the MQTT thread that ingests what the robot reports      *)
(* (mqtt_bridge.py), all meeting in rows of the Action and task tables     *)
(* (database_store.py).  Every method of the store is one transaction and  *)
(* one action here; between two of them any other thread may run.  A       *)
(* client may also send a command by itself: it has no Action, and names   *)
(* any task.                                                               *)
(*                                                                         *)
(* The robot is the contract that RobotExecutor implements.  Reports are   *)
(* trusted: those that clients may post as a robot's (create_message of    *)
(* main.py, append_observation of hub_compat.py) are not modelled.         *)
(* Abstracted: parameters, traces, plan steps, and the events that change  *)
(* no status.                                                              *)
(***************************************************************************)
EXTENDS Naturals, Sequences

CONSTANTS
  Actions,     \* Actions, each with its command, and commands sent by themselves
  Tasks,       \* tasks in the database
  Kind,        \* Kind[a]: "act", "query" (command where) or "stop"
  TaskOf,      \* the task an Action belongs to, or a command names, or None
  Copies,      \* bound: Copies[a] deliveries of one command message (QoS 1)
  MaxResends,  \* bound: reconnections of the robot, which resends reports
  MaxLost,     \* bound: reports that are lost while the bridge is disconnected
  MaxReports,  \* bound: reports published, beyond which no progress is told
  None

ASSUME DispatchAssumption ==
  /\ Kind \in [Actions -> {"act", "query", "stop"}]
  /\ TaskOf \in [Actions -> Tasks \cup {None}]
  /\ None \notin Tasks
  /\ Copies \in [Actions -> Nat]
  /\ MaxResends \in Nat /\ MaxLost \in Nat /\ MaxReports \in Nat

Deliveries == UNION {{a} \X (1..Copies[a]) : a \in Actions}

VARIABLES
  api,      \* api[a]: the handler of POST /api/v1/actions or /api/v1/commands
  status,   \* status[a] of the Action row, None before it exists
  linked,   \* linked[a]: the row knows its commandId
  task,     \* task[k]: status of a task row
  phase,    \* phase[d]: the robot, as CommandContract describes it
  sent,     \* every report the robot has published, in order
  queue,    \* the reports on their way to the MQTT thread
  resends, lost,
  landed,   \* history: the last report about a to arrive found its row
  stopped   \* history: Actions stopped through the API

vars == <<api, status, linked, task, phase, sent, queue, resends, lost, landed, stopped>>
rows == <<status, linked, task>>
wire == <<sent, queue, resends, lost>>

Final    == {"rejected", "answered", "succeeded", "failed", "stopped"}
Terminal == {"Succeeded", "Failed", "Rejected", "Stopped", "Timeout"}
Statuses == Terminal \cup {"Pending", "Issued", "Accepted", "Running"}
ASSUME NoneAssumption == None \notin Statuses

TaskStatuses == {"Ready", "Running", "Succeeded", "Failed", "Cancelled"}
Events == {"command.accepted", "command.rejected", "where.result", "action.started",
           "task.started", "action.progress", "action.succeeded", "task.succeeded",
           "action.failed", "task.failed", "task.stopped"}
Reports == [of : Actions, event : Events]

TypeOK ==
  /\ api \in [Actions -> {"idle", "created", "published", "done", "refused", "dead", "sent"}]
  /\ status \in [Actions -> Statuses \cup {None}]
  /\ linked \in [Actions -> BOOLEAN]
  /\ task \in [Tasks -> TaskStatuses]
  /\ phase \in [Deliveries -> Final \cup {"silent", "accepted", "running"}]
  /\ sent \in Seq(Reports) /\ queue \in Seq(Reports)
  /\ resends \in 0..MaxResends /\ lost \in 0..MaxLost
  /\ landed \in [Actions -> BOOLEAN]
  /\ stopped \subseteq Actions

Init ==
  /\ api = [a \in Actions |-> "idle"]
  /\ status = [a \in Actions |-> None]
  /\ linked = [a \in Actions |-> FALSE]
  /\ task = [k \in Tasks |-> "Ready"]
  /\ phase = [d \in Deliveries |-> "silent"]
  /\ sent = <<>> /\ queue = <<>>
  /\ resends = 0 /\ lost = 0
  /\ landed = [a \in Actions |-> FALSE]
  /\ stopped = {}

-----------------------------------------------------------------------------
\* The platform's handlers

\* POST /api/v1/actions: store.create_action.
CreateAction(a) ==
  /\ api[a] = "idle"
  /\ api' = [api EXCEPT ![a] = "created"]
  /\ status' = [status EXCEPT ![a] = "Pending"]
  /\ UNCHANGED <<linked, task, phase, wire, landed, stopped>>

\* _issue_command validates again, records the command and hands it to the broker;
\* a rejection (HTTP 400) leaves the row that is already committed.
IssueCommand(a) ==
  /\ api[a] = "created"
  /\ \E p \in {"published", "refused"} : api' = [api EXCEPT ![a] = p]
  /\ UNCHANGED <<rows, phase, wire, landed, stopped>>

\* POST /api/v1/commands: _issue_command alone, for a command of no Action.
SendCommand(a) ==
  /\ api[a] = "idle"
  /\ \E p \in {"sent", "refused"} : api' = [api EXCEPT ![a] = p]
  /\ UNCHANGED <<rows, phase, wire, landed, stopped>>

\* store.mark_action_issued, after the robot may have answered.
MarkIssued(a) ==
  /\ api[a] = "published"
  /\ api' = [api EXCEPT ![a] = "done"]
  /\ status' = [status EXCEPT ![a] = "Issued"]
  /\ linked' = [linked EXCEPT ![a] = TRUE]
  /\ landed' = [landed EXCEPT ![a] = FALSE]
  /\ UNCHANGED <<task, phase, wire, stopped>>

\* The process ends between publishing and marking.
Crash(a) ==
  /\ api[a] = "published"
  /\ api' = [api EXCEPT ![a] = "dead"]
  /\ UNCHANGED <<rows, phase, wire, landed, stopped>>

\* POST /api/v1/actions/{id}/stop: the row only; no command is sent.
StopAction(a) ==
  /\ status[a] # None
  /\ status' = [status EXCEPT ![a] = "Stopped"]
  /\ stopped' = stopped \cup {a}
  /\ UNCHANGED <<api, linked, task, phase, wire, landed>>

\* inject_simulation_event of action.failed or interface.timeout: ingested as a report, of no
\* command and of the run's newest task.
InjectFault(k) ==
  /\ task' = [task EXCEPT ![k] = "Failed"]
  /\ UNCHANGED <<api, status, linked, phase, wire, landed, stopped>>

-----------------------------------------------------------------------------
\* The robot and the wire

Robot == INSTANCE CommandContract

\* The result events a robot publishes when a delivery enters a phase.
Announcing(q) ==
  CASE q = "rejected"  -> <<"command.rejected">>
    [] q = "answered"  -> <<"command.accepted", "where.result">>
    [] q = "accepted"  -> <<"command.accepted">>
    [] q = "running"   -> <<"action.started", "task.started">>
    [] q = "succeeded" -> <<"action.succeeded", "task.succeeded">>
    [] q = "failed"    -> <<"action.failed", "task.failed">>
    [] q = "stopped"   -> <<"task.stopped">>

Naming(a, es) == [i \in 1..Len(es) |-> [of |-> a, event |-> es[i]]]

Publish(a, es) ==
  /\ sent' = sent \o Naming(a, es)
  /\ queue' = queue \o Naming(a, es)
  /\ UNCHANGED <<resends, lost>>

\* What the phases of each kind of command may be.
PhasesOf(k) ==
  CASE k = "query" -> {"rejected", "answered"}
    [] k = "stop"  -> {"rejected", "accepted", "stopped"}
    [] k = "act"   -> {"rejected", "accepted", "running", "succeeded", "failed", "stopped"}

\* A command handed to the broker reaches the robot up to Copies[a] times, also when
\* the platform has not marked it issued, or never does.
RobotStep(d) ==
  /\ api[d[1]] \in {"published", "done", "dead", "sent"}
  /\ Robot!Respond(d) \/ Robot!Run(d) \/ Robot!Finish(d) \/ Robot!Conclude(d)
  /\ phase'[d] \in PhasesOf(Kind[d[1]])
  /\ Publish(d[1], Announcing(phase'[d]))
  /\ UNCHANGED <<api, rows, landed, stopped>>

RobotProgress(d) ==
  /\ phase[d] = "running"
  /\ Len(sent) < MaxReports
  /\ Publish(d[1], <<"action.progress">>)
  /\ UNCHANGED <<api, rows, phase, landed, stopped>>

\* The robot reconnects and publishes again, in order, what was not acknowledged.
Resend ==
  /\ resends < MaxResends
  /\ \E k \in 1..Len(sent) : queue' = queue \o SubSeq(sent, k, Len(sent))
  /\ resends' = resends + 1
  /\ UNCHANGED <<api, rows, phase, sent, lost, landed, stopped>>

\* A report published while the bridge is disconnected is not kept for it.
Lose ==
  /\ lost < MaxLost
  /\ queue # <<>>
  /\ queue' = Tail(queue)
  /\ lost' = lost + 1
  /\ landed' = [landed EXCEPT ![Head(queue).of] = FALSE]
  /\ UNCHANGED <<api, rows, phase, sent, resends, stopped>>

-----------------------------------------------------------------------------
\* store.ingest_observation_from_message

\* Mutant: an accepted command counts as a running one.
StatusTooEarly(e) ==
  CASE e = "command.rejected" -> "Rejected"
    [] e \in {"task.succeeded", "where.result", "action.succeeded"} -> "Succeeded"
    [] e \in {"task.failed", "action.failed"} -> "Failed"
    [] e = "task.stopped" -> "Stopped"
    [] OTHER -> "Running"

\* _apply_action_event: whatever the status was.
StatusAfter(e) ==
  CASE e = "command.accepted" -> "Accepted"
    [] e \in {"task.started", "action.started", "action.progress"} -> "Running"
    [] e \in {"task.succeeded", "where.result", "action.succeeded"} -> "Succeeded"
    [] e = "command.rejected" -> "Rejected"
    [] e \in {"task.failed", "action.failed"} -> "Failed"
    [] e = "task.stopped" -> "Stopped"

\* Mutant: a failed task is shown as cancelled.
TaskCancelled(e, s) ==
  CASE e \in {"task.started", "action.started", "action.progress"} -> "Running"
    [] e \in {"task.succeeded", "where.result"} -> "Succeeded"
    [] e \in {"task.failed", "action.failed", "task.stopped"} -> "Cancelled"
    [] OTHER -> s

\* _apply_task_event; action.succeeded, and the answers to a command, change nothing.
TaskAfter(e, s) ==
  CASE e \in {"task.started", "action.started", "action.progress"} -> "Running"
    [] e \in {"task.succeeded", "where.result"} -> "Succeeded"
    [] e \in {"task.failed", "action.failed"} -> "Failed"
    [] e = "task.stopped" -> "Cancelled"
    [] OTHER -> s

\* The Action, if the command has one, is found by the report's commandId.  The task is found
\* by the report's taskId, which a query does not carry, or else through the Action.
TaskFound(a) == IF Kind[a] = "query" /\ ~linked[a] THEN None ELSE TaskOf[a]

\* Mutant: the newest report first.
IngestNewest ==
  /\ queue # <<>>
  /\ LET a == queue[Len(queue)].of
         e == queue[Len(queue)].event
     IN /\ status' = IF linked[a] THEN [status EXCEPT ![a] = StatusAfter(e)] ELSE status
        /\ landed' = [landed EXCEPT ![a] = linked[a]]
        /\ stopped' = IF linked[a] THEN stopped \ {a} ELSE stopped
  /\ queue' = SubSeq(queue, 1, Len(queue) - 1)
  /\ UNCHANGED <<api, linked, task, phase, sent, resends, lost>>

\* Observations are stored once per eventId, but a repeated report is applied again.
Ingest ==
  /\ queue # <<>>
  /\ LET a == Head(queue).of
         e == Head(queue).event
     IN /\ status' = IF linked[a] THEN [status EXCEPT ![a] = StatusAfter(e)] ELSE status
        /\ task' = [k \in Tasks |-> IF k = TaskFound(a) THEN TaskAfter(e, task[k])
                                                       ELSE task[k]]
        /\ landed' = [landed EXCEPT ![a] = linked[a]]
        /\ stopped' = IF linked[a] THEN stopped \ {a} ELSE stopped
  /\ queue' = Tail(queue)
  /\ UNCHANGED <<api, linked, phase, sent, resends, lost>>

-----------------------------------------------------------------------------
Handle(a) == CreateAction(a) \/ IssueCommand(a) \/ MarkIssued(a) \/ SendCommand(a)

Next ==
  \/ \E a \in Actions : Handle(a) \/ Crash(a) \/ StopAction(a)
  \/ \E d \in Deliveries : RobotStep(d) \/ RobotProgress(d)
  \/ \E k \in Tasks : InjectFault(k)
  \/ Resend \/ Lose \/ Ingest

Spec == Init /\ [][Next]_vars

-----------------------------------------------------------------------------
\* Properties

LastReport(a) ==
  LET i == CHOOSE i \in 1..Len(sent) :
             sent[i].of = a /\ \A j \in (i + 1)..Len(sent) : sent[j].of # a
  IN sent[i].event

\* Reports may be early, repeated or lost, and a row may be stopped by hand; but
\* once the last word about an Action has been applied to its row and nothing more
\* is under way, the row says what the robot said last.
SettledStatusAgrees ==
  \A a \in Actions :
    landed[a] /\ a \notin stopped /\ (\A i \in 1..Len(queue) : queue[i].of # a) =>
      status[a] = StatusAfter(LastReport(a))

Reached(a, p) == \E n \in 1..Copies[a] : phase[<<a, n>>] \in p

\* No Action is shown as ended in a way no delivery of its command ended.
StatusHasEvidence ==
  \A a \in Actions :
    /\ status[a] = "Succeeded" => Reached(a, {"succeeded", "answered"})
    /\ status[a] = "Rejected" => Reached(a, {"rejected"})
    /\ status[a] = "Failed" => Reached(a, {"failed"})
    /\ status[a] = "Stopped" /\ a \notin stopped => Reached(a, {"stopped"})
    /\ status[a] = "Running" => Reached(a, {"running", "succeeded", "failed", "stopped"})

\* The same for the tasks: success is earned, and a cancellation caused, by a command that
\* belongs to the task: of one of its Actions, or sent by itself with the task's id; and in
\* the case of a query, which carries no taskId, by one whose Action was marked issued.
TaskHasEvidence ==
  \A k \in Tasks :
    /\ task[k] = "Succeeded" =>
         \E a \in Actions : TaskFound(a) = k /\ Reached(a, {"succeeded", "answered"})
    /\ task[k] = "Cancelled" =>
         \E a \in Actions : TaskFound(a) = k /\ Reached(a, {"stopped"})

=============================================================================
