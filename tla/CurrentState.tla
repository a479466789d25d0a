---------------------------- MODULE CurrentState ----------------------------
(***************************************************************************)
(* The CurrentState row of one simulation run, the alerts in it, and the   *)
(* row of one robot (src/backend/app/database_store.py), written by HTTP   *)
(* handlers that inject faults, recover from them, create tasks and take   *)
(* snapshots, and by the MQTT thread (mqtt_bridge.py) that stores what the *)
(* robot reports about the broadcast fault.                                *)
(*                                                                         *)
(* The database is PostgreSQL at READ COMMITTED.  A transaction that       *)
(* changes the CurrentState row reads it, reads the robots in a session of *)
(* its own, and writes the columns it has changed at its commit.           *)
(*                                                                         *)
(* Abstracted: the columns copied from the task, plan and Action tables    *)
(* (whose statuses ActionDispatch models), locks and stations, kept and    *)
(* cleared like blocked paths, and interfaceEvents, written with the       *)
(* alerts, in their column.  Reports are neither lost nor repeated here.   *)
(***************************************************************************)
EXTENDS Naturals, Sequences

CONSTANTS
  Handlers,    \* threads of HTTP requests, each serving one
  Requests,    \* what may be asked, a set of AnyRequest
  Robot, Path, \* a robot and a path of the map
  AlertLimit,  \* alerts kept (20 in the code)
  MaxOwn,      \* bound: reports the robot makes unasked
  None, Mqtt

Faults == {"robot.offline", "path.blocked", "action.failed", "message.dropped"}

\* A fault may leave its target open, a recovery the event or the target.  "task" is
\* create_simulation_task; create_action, mark_action_issued and stop_action refresh the
\* row as it does.
AnyRequest ==
  [op : {"inject"}, event : Faults, target : {Robot, Path, None}]
    \cup [op : {"recover"}, event : Faults \cup {None}, target : {Robot, Path, None}]
    \cup [op : {"task", "snapshot"}, event : {None}, target : {None}]

ASSUME StateAssumption ==
  /\ Requests \subseteq AnyRequest
  /\ Robot # Path /\ None \notin {Robot, Path} /\ None \notin Faults
  /\ Mqtt \notin Handlers
  /\ AlertLimit \in Nat \ {0} /\ MaxOwn \in Nat

Threads == Handlers \cup {Mqtt}

VARIABLES
  row,      \* the CurrentState row
  robot,    \* robot_state in the row of the robot
  tasked,   \* the run has a task
  pc, req,  \* where a thread is, and what a handler was asked
  known,    \* known[h]: the run had a task when h began
  todo,     \* changes a thread has still to make to the row, each a transaction
  read,     \* the row as the thread's transaction has read it (FirstRow: none runs)
  new,      \* the row as its transaction will write it (the same)
  merged,   \* the robot state the MQTT thread is about to write
  wire,     \* the robot's reports on their way
  device,   \* the robot state the last of all reports stands for
  own,      \* reports made unasked
  clock,    \* history: alerts made so far; stamps them
  snaps,    \* snapshots taken
  torn      \* history: a transaction has overwritten a row it had not read

vars == <<row, robot, tasked, pc, req, known, todo, read, new, merged,
          wire, device, own, clock, snaps, torn>>
request == <<req, known>>
transaction == <<read, new, clock>>
robotSide == <<wire, device, own>>

RobotStates == {"Idle", "Offline", "Error", "Executing"}
OwnEvents == {"pose.updated", "action.started", "action.failed"}
Reports ==
  [event : OwnEvents \cup {"device.offline", "path.blocked", "fault.recovered"},
   about : {Robot, Path, None}, tagged : BOOLEAN]

\* A change is an observation to ingest, a fault to clear, or a refresh alone.
\* target is listed with an alert; about is the targetId in an event's data.
Changes ==
  [do : {"observe", "clear", "task"},
   event : Faults \cup OwnEvents \cup {"device.offline", "fault.recovered", None},
   target : {Robot, Path, None}, about : {Robot, Path, None}]

Alerts ==
  [event : Faults \cup {"device.offline"}, target : {Robot, Path, None}, at : Nat]
Rows ==
  [version : Nat, events : Seq(Alerts), alerts : Seq(Alerts),
   blocked : SUBSET {Robot, Path}, robots : RobotStates]

TypeOK ==
  /\ row \in Rows /\ Len(row.events) <= AlertLimit
  /\ robot \in RobotStates /\ device \in RobotStates /\ merged \in RobotStates
  /\ tasked \in BOOLEAN /\ torn \in BOOLEAN
  /\ pc \in [Threads -> {"new", "mark", "idle", "load", "copy", "store", "tell",
                         "merge", "done", "silent"}]
  /\ req \in [Handlers -> AnyRequest \cup {None}]
  /\ known \in [Handlers -> BOOLEAN]
  /\ todo \in [Threads -> Seq(Changes)]
  /\ read \in [Threads -> Rows] /\ new \in [Threads -> Rows]
  /\ wire \in Seq(Reports)
  /\ own \in 0..MaxOwn /\ clock \in Nat
  /\ snaps \subseteq Rows

FirstRow ==
  [version |-> 1, events |-> <<>>, alerts |-> <<>>, blocked |-> {}, robots |-> "Idle"]

\* create_simulation_run; the run may or may not have been given a task already.
Init ==
  /\ row = FirstRow /\ robot = "Idle" /\ tasked \in BOOLEAN
  /\ pc = [t \in Threads |-> "new"]
  /\ req = [h \in Handlers |-> None] /\ known = [h \in Handlers |-> FALSE]
  /\ todo = [t \in Threads |-> <<>>]
  /\ read = [t \in Threads |-> FirstRow] /\ new = [t \in Threads |-> FirstRow]
  /\ merged = "Idle" /\ wire = <<>> /\ device = "Idle" /\ own = 0
  /\ clock = 0 /\ snaps = {} /\ torn = FALSE

-----------------------------------------------------------------------------
\* What a transaction makes of the row it has read

\* _event_category; the reports path.blocked and action.failed are alerts as well.
IsAlert(event) == event \in Faults \cup {"device.offline"}

\* Mutant: the newest alert last.
ListedLast(alert, s) ==
  IF Len(s) < AlertLimit THEN Append(s, alert) ELSE Append(Tail(s), alert)

\* Mutant: one alert too many is kept.
ListedLong(alert, s) == SubSeq(<<alert>> \o s, 1, IF Len(s) <= AlertLimit
                                                  THEN Len(s) + 1 ELSE AlertLimit)

\* [event_item, *active_events][:20]
Listed(alert, s) == SubSeq(<<alert>> \o s, 1, IF Len(s) < AlertLimit THEN Len(s) + 1
                                                                    ELSE AlertLimit)

\* Mutant: the version is left alone.
RefreshedSilently(c, r) ==
  LET alert == [event |-> c.event, target |-> c.target, at |-> clock + 1]
      list == IF c.do = "observe" /\ IsAlert(c.event) THEN Listed(alert, r.events)
                                                      ELSE r.events
  IN [r EXCEPT !.events = list, !.alerts = list]

\* _refresh_current_state, of the observation c or of none.
Refreshed(c, r) ==
  LET alert == [event |-> c.event, target |-> c.target, at |-> clock + 1]
      raises == c.do = "observe" /\ IsAlert(c.event)
      list == IF raises THEN Listed(alert, r.events) ELSE r.events
  IN [version |-> r.version + 1,
      events |-> list,
      alerts |-> IF raises THEN list ELSE r.alerts,
      blocked |-> IF c.do = "observe" /\ c.event = "path.blocked" /\ c.about # None
                  THEN r.blocked \cup {c.about} ELSE r.blocked,
      robots |-> r.robots]

Cleared(c, alert) ==
  /\ c.target \in {None, alert.target}
  /\ c.event \in {None, alert.event}

\* kept[i]: the alerts that remain of the first i.
Remaining(c, s) ==
  LET kept[i \in 0..Len(s)] ==
        IF i = 0 THEN <<>>
        ELSE IF Cleared(c, s[i]) THEN kept[i - 1] ELSE Append(kept[i - 1], s[i])
  IN kept[Len(s)]

Unblocked(c, paths) == IF c.target = Path THEN paths \ {Path} ELSE paths

\* Mutant: the alerts in environment_state are left alone.
RecoveredListOnly(c, r) ==
  [r EXCEPT !.version = @ + 1, !.events = Remaining(c, @), !.blocked = Unblocked(c, @)]

\* _clear_recovered_fault
Recovered(c, r) ==
  LET list == Remaining(c, r.events)
  IN [version |-> r.version + 1, events |-> list, alerts |-> list,
      blocked |-> Unblocked(c, r.blocked), robots |-> r.robots]

Changed(c, r) == IF c.do = "clear" THEN Recovered(c, r) ELSE Refreshed(c, r)

\* An UPDATE names the columns whose new value differs from the one that was read.
Overwrite(was, is) ==
  [version |-> IF is.version = was.version THEN row.version ELSE is.version,
   events  |-> IF is.events = was.events THEN row.events ELSE is.events,
   alerts  |-> IF is.alerts = was.alerts THEN row.alerts ELSE is.alerts,
   blocked |-> IF is.blocked = was.blocked THEN row.blocked ELSE is.blocked,
   robots  |-> IF is.robots = was.robots THEN row.robots ELSE is.robots]

-----------------------------------------------------------------------------
\* A transaction on the row, by any thread

LoadRow(t) ==
  /\ pc[t] = "load"
  /\ read' = [read EXCEPT ![t] = row]
  /\ new' = [new EXCEPT ![t] = Changed(Head(todo[t]), row)]
  /\ clock' = IF Head(todo[t]).do = "observe" /\ IsAlert(Head(todo[t]).event)
              THEN clock + 1 ELSE clock
  /\ pc' = [pc EXCEPT ![t] = "copy"]
  /\ UNCHANGED <<row, robot, tasked, request, todo, merged, robotSide, snaps, torn>>

CopyRobots(t) ==
  /\ pc[t] = "copy"
  /\ new' = [new EXCEPT ![t].robots = robot]
  /\ pc' = [pc EXCEPT ![t] = "store"]
  /\ UNCHANGED <<row, robot, tasked, request, todo, read, clock, merged, robotSide,
                 snaps, torn>>

\* A handler of a fault or a recovery broadcasts when the ingestion has returned an
\* observation, and otherwise answers HTTP 404.
Afterwards(t) ==
  IF t = Mqtt THEN "new"
  ELSE IF req[t].op \in {"task", "snapshot"} THEN "done"
  ELSE IF known[t] THEN "tell" ELSE "silent"

StoreRow(t) ==
  /\ pc[t] = "store"
  /\ row' = Overwrite(read[t], new[t])
  /\ torn' = (torn \/ read[t] # row)
  /\ tasked' = (tasked \/ Head(todo[t]).do = "task")
  /\ todo' = [todo EXCEPT ![t] = Tail(@)]
  /\ pc' = [pc EXCEPT ![t] = IF Len(todo[t]) > 1 THEN "load" ELSE Afterwards(t)]
  /\ read' = [read EXCEPT ![t] = FirstRow] /\ new' = [new EXCEPT ![t] = FirstRow]
  /\ UNCHANGED <<robot, request, clock, merged, robotSide, snaps>>

-----------------------------------------------------------------------------
\* The handlers

Observation(event, target) ==
  [do |-> "observe", event |-> event, target |-> target, about |-> target]

\* Without a task the event is tied to no run, and the ingestion returns nothing.
Work(q) ==
  CASE q.op = "inject"  -> IF tasked THEN <<Observation(q.event, q.target)>> ELSE <<>>
    [] q.op = "recover" -> (IF tasked THEN <<Observation("fault.recovered", q.target)>>
                                      ELSE <<>>)
                           \o <<[do |-> "clear", event |-> q.event, target |-> q.target,
                                 about |-> None]>>
    [] q.op = "task"    -> <<[do |-> "task", event |-> None, target |-> None,
                              about |-> None]>>

WritesRobot(q) ==
  /\ q.target = Robot
  /\ q.op = "recover" \/ q.event = "robot.offline"

Onward(t, work) == IF work = <<>> THEN Afterwards(t) ELSE "load"

\* inject_simulation_event, recover_simulation_event and create_simulation_task begin;
\* the first two look for the run's task.
Begin(h) ==
  /\ pc[h] = "new"
  /\ \E q \in Requests :
       /\ q.op # "snapshot"
       /\ req' = [req EXCEPT ![h] = q]
       /\ known' = [known EXCEPT ![h] = tasked]
       /\ todo' = [todo EXCEPT ![h] = Work(q)]
       /\ pc' = [pc EXCEPT ![h] = IF WritesRobot(q) THEN "mark"
                                  ELSE IF Work(q) = <<>> THEN "silent" ELSE "load"]
  /\ UNCHANGED <<row, robot, tasked, transaction, merged, robotSide, snaps, torn>>

\* The robot is shown offline before the event is ingested.
MarkOffline(h) ==
  /\ pc[h] = "mark" /\ req[h].op = "inject"
  /\ robot' = "Offline"
  /\ pc' = [pc EXCEPT ![h] = Onward(h, todo[h])]
  /\ UNCHANGED <<row, tasked, request, todo, transaction, merged, robotSide, snaps, torn>>

\* A recovery looks at the robot first,
ProbeRobot(h) ==
  /\ pc[h] = "mark" /\ req[h].op = "recover"
  /\ pc' = [pc EXCEPT ![h] = IF robot = "Offline" THEN "idle" ELSE "load"]
  /\ UNCHANGED <<row, robot, tasked, request, todo, transaction, merged, robotSide,
                 snaps, torn>>

\* and shows it idle if it was offline.
MarkIdle(h) ==
  /\ pc[h] = "idle"
  /\ robot' = "Idle"
  /\ pc' = [pc EXCEPT ![h] = "load"]
  /\ UNCHANGED <<row, tasked, request, todo, transaction, merged, robotSide, snaps, torn>>

\* create_snapshot: the row as it is now.
TakeSnapshot(h) ==
  /\ pc[h] = "new"
  /\ \E q \in Requests : q.op = "snapshot" /\ req' = [req EXCEPT ![h] = q]
  /\ snaps' = snaps \cup {row}
  /\ pc' = [pc EXCEPT ![h] = "done"]
  /\ UNCHANGED <<row, robot, tasked, known, todo, transaction, merged, robotSide, torn>>

-----------------------------------------------------------------------------
\* The robot: handle_broadcast_event, and reports of its own

\* Mutant: a recovery the robot reports does not bring its row back.
StateKept(event, before) ==
  CASE event \in {"path.blocked", "action.failed"} -> "Error"
    [] event = "device.offline" -> "Offline"
    [] event = "action.started" -> "Executing"
    [] OTHER -> before

\* state_by_event of _upsert_robot_from_result
StateAfter(event, before) ==
  CASE event \in {"path.blocked", "action.failed"} -> "Error"
    [] event = "device.offline" -> "Offline"
    [] event = "fault.recovered" -> "Idle"
    [] event = "action.started" -> "Executing"
    [] event = "pose.updated" -> before

\* What the robot answers to a broadcast; the injected failure of an action and a
\* dropped message are answered by nothing.
AnswerTo(q) ==
  CASE q.op = "recover" -> {"fault.recovered"}
    [] q.op = "inject" /\ q.event = "robot.offline" -> {"device.offline"}
    [] q.op = "inject" /\ q.event = "path.blocked" -> {"path.blocked"}
    [] OTHER -> {}

\* A report is ingested if it names a task, that is, if the robot is at work on one.
Tags == IF tasked THEN BOOLEAN ELSE {FALSE}

\* _broadcast_runtime_event; the reports come back in the order of the broadcasts.
Broadcast(h) ==
  /\ pc[h] = "tell"
  /\ IF AnswerTo(req[h]) = {} THEN UNCHANGED <<wire, device>>
     ELSE \E tag \in Tags, event \in AnswerTo(req[h]) :
            /\ wire' = Append(wire, [event |-> event, about |-> req[h].target,
                                     tagged |-> tag])
            /\ device' = StateAfter(event, device)
  /\ pc' = [pc EXCEPT ![h] = "done"]
  /\ UNCHANGED <<row, robot, tasked, request, todo, transaction, merged, own, snaps, torn>>

\* The bridge is not connected: publish returns FALSE, and nobody looks at it.
BroadcastFails(h) ==
  /\ pc[h] = "tell"
  /\ pc' = [pc EXCEPT ![h] = "silent"]
  /\ UNCHANGED <<row, robot, tasked, request, todo, transaction, merged, robotSide,
                 snaps, torn>>

ReportUnasked ==
  /\ own < MaxOwn
  /\ own' = own + 1
  /\ \E event \in OwnEvents, tag \in Tags :
       /\ wire' = Append(wire, [event |-> event, about |-> None, tagged |-> tag])
       /\ device' = StateAfter(event, device)
  /\ UNCHANGED <<row, robot, tasked, pc, request, todo, transaction, merged, snaps, torn>>

-----------------------------------------------------------------------------
\* The MQTT thread: _handle_dog_result

\* _upsert_robot_from_result reads the robot,
ReceiveReport ==
  /\ pc[Mqtt] = "new" /\ wire # <<>>
  /\ merged' = StateAfter(Head(wire).event, robot)
  /\ todo' = [todo EXCEPT ![Mqtt] =
       IF Head(wire).tagged
       THEN <<[do |-> "observe", event |-> Head(wire).event, target |-> Robot,
               about |-> Head(wire).about]>>
       ELSE <<>>]
  /\ wire' = Tail(wire)
  /\ pc' = [pc EXCEPT ![Mqtt] = "merge"]
  /\ UNCHANGED <<row, robot, tasked, request, transaction, device, own, snaps, torn>>

\* and writes it in another transaction; then the report is ingested.
MergeRobot ==
  /\ pc[Mqtt] = "merge"
  /\ robot' = merged
  /\ pc' = [pc EXCEPT ![Mqtt] = Onward(Mqtt, todo[Mqtt])]
  /\ UNCHANGED <<row, tasked, request, todo, transaction, merged, robotSide, snaps, torn>>

-----------------------------------------------------------------------------
Transact(t) == LoadRow(t) \/ CopyRobots(t) \/ StoreRow(t)

Serve(h) ==
  \/ Begin(h) \/ MarkOffline(h) \/ ProbeRobot(h) \/ MarkIdle(h) \/ TakeSnapshot(h)
  \/ Broadcast(h) \/ BroadcastFails(h)

Next ==
  \/ \E t \in Threads : Transact(t)
  \/ \E h \in Handlers : Serve(h)
  \/ ReportUnasked \/ ReceiveReport \/ MergeRobot

Spec == Init /\ [][Next]_vars

-----------------------------------------------------------------------------
\* Properties

\* active_events and the alerts in environment_state are two columns with one meaning.
\* However transactions overwrite each other, they agree.
AlertsMirrorEvents == row.alerts = row.events

\* The list of alerts is cut at its end, so its end must be the oldest: also when
\* updates were lost, alerts stand in the reverse order in which they were made, and
\* none stands there twice.
NewestFirst ==
  \A i, j \in 1..Len(row.events) : i < j => row.events[i].at > row.events[j].at

\* A handler that may have changed the robot's row and whose broadcast is not out.
Unsettled(h) ==
  /\ pc[h] \notin {"new", "done"}
  /\ WritesRobot(req[h])

\* Handlers write the robot's row ahead of the robot's answer, and the MQTT thread
\* writes what it has read before: when all broadcasts are out and all reports stored,
\* the row shows what the robot said last.
RobotRowSettles ==
  wire = <<>> /\ pc[Mqtt] # "merge" /\ (\A h \in Handlers : ~Unsettled(h))
    => robot = device

\* As long as no transaction has overwritten another's work, a version names one state.
SameVersionSameState ==
  ~torn => \A s, t \in snaps : s.version = t.version => s = t

=============================================================================
