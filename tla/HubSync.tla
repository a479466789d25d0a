------------------------------- MODULE HubSync -------------------------------
(***************************************************************************)
(* What HubIntegrationService (src/backend/app/hub_client.py) posts to an  *)
(* external Hub over HTTP, and the table hub_id_mappings in which          *)
(* database_store.py keeps the id the Hub gave to each local object.       *)
(*                                                                         *)
(* A request to synchronise works through todo[s]: it enters an object,    *)
(* reads its mapping, does what the object depends on, asks the Hub if     *)
(* the mapped object still exists, posts a new one and stores its id.      *)
(* Every HTTP request and every transaction is a step; at each the         *)
(* request may fail (a time-out, an answer lost after the Hub has acted,   *)
(* a constraint of the table, the end of the process).                     *)
(*                                                                         *)
(* The Hub is external: it has one scene of a name, one entity of a name   *)
(* in a scene, one run of an id; it refuses an object whose parents it     *)
(* has not; and it may lose objects.  Abstracted: payloads, statuses and   *)
(* trace events, and targets, which are sent as entities like robots are.  *)
(* The tables of runs, tasks, plans and Actions stay as they are.  Actions *)
(* that name no task or no plan are left out: unless they are queries, a   *)
(* request that meets one fails.                                           *)
(***************************************************************************)
EXTENDS Integers, Sequences, SequencesExt, FiniteSets

CONSTANTS
  Syncs,                        \* threads of HTTP requests, each serving one
  Requests,                     \* Requests[s]: what s may be asked
  Robots, Runs, Tasks, Plans, Actions,
  RunOf, TaskOf,                \* of a task, of a plan
  NamedTask, PlanOf, RobotOf,   \* of an Action: its task, which need not be its plan's
  CreatedAt,                    \* of an Action
  Active,                       \* active plans of their tasks
  Queries,                      \* Actions whose command is "where"
  ActionLimit,                  \* Actions of a run that are listed (1000 in the code)
  MaxHub                        \* bound: Hub objects

\* Local objects: a kind and an id.  The scenario is one; a trace has its task's id.
Scenario == <<"scene", "scenario">>
Entity(r) == <<"entity", r>>
Run(n) == <<"run", n>>
Task(t) == <<"task", t>>
Trace(t) == <<"trace", t>>
Plan(p) == <<"plan", p>>
Action(a) == <<"action", a>>
Objects ==
  {Scenario} \cup ({"entity"} \X Robots) \cup ({"run"} \X Runs)
    \cup ({"task", "trace"} \X Tasks) \cup ({"plan"} \X Plans) \cup ({"action"} \X Actions)
Kind(o) == o[1]
Id(o) == o[2]

\* A task, a plan or an Action is asked for by its id, a run with its graph; the rest is of
\* the scenario.
AnyRequest ==
  [what : {"scene", "entities", "publish"}, obj : {Scenario}, force : BOOLEAN]
    \cup [what : {"graph"}, obj : {"run"} \X Runs, force : BOOLEAN]
    \cup [what : {"task"}, obj : {"task"} \X Tasks, force : BOOLEAN]
    \cup [what : {"plan"}, obj : {"plan"} \X Plans, force : BOOLEAN]
    \cup [what : {"action"}, obj : {"action"} \X Actions, force : BOOLEAN]

ASSUME SyncAssumption ==
  /\ \A s \in Syncs : Requests[s] \subseteq AnyRequest
  /\ IsFiniteSet(Robots) /\ IsFiniteSet(Tasks) /\ IsFiniteSet(Plans) /\ IsFiniteSet(Actions)
  /\ RunOf \in [Tasks -> Runs] /\ TaskOf \in [Plans -> Tasks]
  /\ NamedTask \in [Actions -> Tasks] /\ PlanOf \in [Actions -> Plans]
  /\ RobotOf \in [Actions -> Robots] /\ CreatedAt \in [Actions -> Nat]
  /\ \A a, b \in Actions : CreatedAt[a] = CreatedAt[b] => a = b
  /\ Queries \subseteq Actions /\ Active \subseteq Plans
  /\ ActionLimit \in Nat /\ MaxHub \in Nat

NoRequest == [what |-> "none", obj |-> Scenario, force |-> FALSE]
None == 0     \* no mapping, no Hub object
Skipped == -1 \* the mapping of a query, without a Hub id

VARIABLES
  version, \* of the current map, in the name of the scenario's scene
  hub,     \* objects the Hub has made, in order; their place is their Hub id
  lost,    \* the Hub no longer knows the ids up to this one
  map,     \* hub_id_mappings: a key to a Hub id
  asked,   \* asked[s]: the request s serves
  todo,    \* todo[s]: what s has still to do
  got,     \* got[s]: the Hub ids the calls of s have returned
  result,  \* result[s]: none yet, ok or error
  refused, \* history: objects the Hub has refused
  at,      \* history, at[s]: the version when s began
  before   \* history, before[s]: the requests that had ended when s began

vars == <<version, hub, lost, map, asked, todo, got, result, refused, at, before>>
request == <<asked, at, before>>

HubIds == 1..Len(hub)
Live(n) == n \in HubIds /\ n > lost
Mapped(key) == IF key \in DOMAIN map THEN map[key] ELSE None
\* Mutant: a robot has one entity for all scenes.
KeyWithoutScene(o, scene) == <<o, None>>

\* The entity of a robot is another one in each scene: _scene_entity_local_id.
KeyOf(o, scene) == <<o, IF Kind(o) = "entity" THEN scene ELSE None>>

\* The table with a row written: upsert_hub_mapping.
Upserted(key, n) == [k \in {key} \cup DOMAIN map |-> IF k = key THEN n ELSE map[k]]

\* of: the local object; name: a scene's version; the Hub ids of its parents; by whom.
HubObjects ==
  [of : Objects, name : Nat, scene : Nat, task : Nat, plan : Nat, entity : Nat, by : Syncs]
Steps ==
  [op : {"enter", "find", "check", "keep", "robot", "post", "store"}, obj : Objects,
   saw : Int]

TypeOK ==
  /\ version \in Nat \ {0}
  /\ hub \in Seq(HubObjects) /\ lost \in 0..Len(hub)
  /\ DOMAIN map \subseteq Objects \X (HubIds \cup {None})
  /\ \A k \in DOMAIN map : map[k] \in HubIds \cup {Skipped}
  /\ asked \in [Syncs -> AnyRequest \cup {NoRequest}]
  /\ todo \in [Syncs -> Seq(Steps)]
  /\ got \in [Syncs -> [Objects -> HubIds \cup {None, Skipped}]]
  /\ result \in [Syncs -> {"none", "ok", "error"}]
  /\ refused \subseteq Objects
  /\ at \in [Syncs -> 0..version] /\ before \in [Syncs -> SUBSET Syncs]

Init ==
  /\ version = 1 /\ hub = <<>> /\ lost = 0 /\ map = <<>>
  /\ asked = [s \in Syncs |-> NoRequest]
  /\ todo = [s \in Syncs |-> <<>>]
  /\ got = [s \in Syncs |-> [o \in Objects |-> None]]
  /\ result = [s \in Syncs |-> "none"] /\ refused = {}
  /\ at = [s \in Syncs |-> 0] /\ before = [s \in Syncs |-> {}]

-----------------------------------------------------------------------------
\* Steps of a request

Step(op, o, saw) == [op |-> op, obj |-> o, saw |-> saw]
Enter(o) == Step("enter", o, None)
EnterAll(objs) == [i \in 1..Cardinality(objs) |-> Enter(SetToSeq(objs)[i])]
ActivePlans(t) == {Plan(p) : p \in {q \in Active : TaskOf[q] = t}}
Entities == {Entity(r) : r \in Robots}

\* An Action is in the run of its task.
ActionsOf(n) == {a \in Actions : RunOf[NamedTask[a]] = n}
Newer(a) == {b \in ActionsOf(RunOf[NamedTask[a]]) : CreatedAt[b] > CreatedAt[a]}

\* Mutant: the oldest Actions are listed.
ListOldest(n) ==
  {a \in ActionsOf(n) : Cardinality(ActionsOf(n) \ Newer(a)) <= ActionLimit}

\* list_actions: the newest ones.
ListActions(n) == {a \in ActionsOf(n) : Cardinality(Newer(a)) < ActionLimit}

\* sync_run_graph's way through a run: its tasks with their active plans, its Actions as far
\* as they are listed.
Graph(n) ==
  LET tasks == SetToSeq({t \in Tasks : RunOf[t] = n})
  IN <<Enter(Run(n))>>
       \o FlattenSeq([i \in 1..Len(tasks) |->
                        <<Enter(Task(tasks[i]))>> \o EnterAll(ActivePlans(tasks[i]))])
       \o EnterAll({Action(a) : a \in ListActions(n)})

\* What a request has to do; publish is sync_hub_after_map_publish.
Work(q) ==
  CASE q.what = "scene" -> <<Enter(Scenario)>>
    [] q.what = "entities" -> <<Enter(Scenario)>> \o EnterAll(Entities)
    [] q.what = "publish" -> <<Enter(Scenario), Enter(Scenario)>> \o EnterAll(Entities)
    [] q.what = "graph" -> Graph(Id(q.obj))
    [] q.what = "task" -> <<Enter(q.obj)>> \o EnterAll(ActivePlans(Id(q.obj)))
    [] OTHER -> <<Enter(q.obj)>>

Doing(s, op) == todo[s] # <<>> /\ Head(todo[s]).op = op
Obj(s) == Head(todo[s]).obj
Saw(s) == Head(todo[s]).saw
Forced(s) == asked[s].force

NothingGot == [o \in Objects |-> None]

\* s goes on with steps and with what its calls have returned; it ends well when nothing is left.
GoWith(s, steps, returned) ==
  LET rest == steps \o Tail(todo[s])
  IN /\ todo' = [todo EXCEPT ![s] = rest]
     /\ got' = [got EXCEPT ![s] = IF rest = <<>> THEN NothingGot ELSE returned]
     /\ result' = [result EXCEPT ![s] = IF rest = <<>> THEN "ok" ELSE @]

Go(s, steps) == GoWith(s, steps, got[s])

\* Mutant: a new task is left without its trace.
ReturnUntraced(s, o, n) == GoWith(s, <<>>, [got[s] EXCEPT ![o] = n])

\* s returns from the call for o with the Hub id n.  A task is followed by its trace.
Return(s, o, n) ==
  GoWith(s, IF Kind(o) = "task" THEN <<Enter(Trace(Id(o)))>> ELSE <<>>,
         [got[s] EXCEPT ![o] = n])

GiveUp(s) ==
  /\ todo' = [todo EXCEPT ![s] = <<>>]
  /\ got' = [got EXCEPT ![s] = NothingGot]
  /\ result' = [result EXCEPT ![s] = "error"]

-----------------------------------------------------------------------------
\* Requests

\* publish_map_draft publishes before it synchronises.
Begin(s, q) ==
  /\ asked[s] = NoRequest
  /\ version' = IF q.what = "publish" THEN version + 1 ELSE version
  /\ asked' = [asked EXCEPT ![s] = q]
  /\ todo' = [todo EXCEPT ![s] = Work(q)]
  /\ at' = [at EXCEPT ![s] = version']
  /\ before' = [before EXCEPT ![s] = {r \in Syncs : result[r] # "none"}]
  /\ UNCHANGED <<hub, lost, map, got, result, refused>>

\* Mutant: a scenario that is mapped is taken as synchronised.
KeepScene(s) ==
  LET existing == Mapped(KeyOf(Scenario, None))
  IN /\ Doing(s, "enter") /\ Obj(s) = Scenario
     /\ IF existing # None THEN Return(s, Scenario, existing)
                           ELSE Go(s, <<Step("find", Scenario, version)>>)
     /\ UNCHANGED <<version, hub, lost, map, refused, request>>

\* _sync_scene: the name is that of the current version.
EnterScene(s) ==
  /\ Doing(s, "enter") /\ Obj(s) = Scenario
  /\ Go(s, <<Step("find", Scenario, version)>>)
  /\ UNCHANGED <<version, hub, lost, map, refused, request>>

\* Scenes of that name, entities of that robot in that scene, objects of that run.
Same(o, name, scene) ==
  {n \in HubIds : /\ Live(n) /\ hub[n].of = o
                  /\ Kind(o) = "scene" => hub[n].name = name
                  /\ Kind(o) = "entity" => hub[n].scene = scene}

\* _find_scene_by_name.
FindScene(s) ==
  /\ Doing(s, "find")
  /\ LET found == Same(Scenario, Saw(s), None)
     IN IF found = {} THEN Go(s, <<Step("post", Scenario, Saw(s))>>)
                      ELSE \E n \in found : Go(s, <<Step("store", Scenario, n)>>)
  /\ UNCHANGED <<version, hub, lost, map, refused, request>>

\* Mutant: plans are looked up under a path the Hub has not.
ReusableButPlans(s, o, existing) ==
  /\ existing > 0 /\ ~Forced(s) /\ Kind(o) # "plan"
  /\ CASE Kind(o) = "run" -> Same(o, None, None) # {}
       [] OTHER -> Live(existing)

\* existing and existing.hubId and not force and self._mapping_is_live(existing): a run is
\* looked up by its own id, the others by their Hub ids.
Reusable(s, o, existing) ==
  /\ existing > 0 /\ ~Forced(s)
  /\ CASE Kind(o) = "run" -> Same(o, None, None) # {}
       [] OTHER -> Live(existing)

\* What comes between the lookup of an object that is not reused and its post.
Renew(o) ==
  (CASE Kind(o) = "run" -> <<Enter(Scenario)>> \o EnterAll(Entities)
     [] Kind(o) = "action" -> <<Step("robot", o, None)>>
     [] OTHER -> <<>>) \o <<Step("post", o, None)>>

\* _sync_robot_entity, _sync_target_entity, _sync_run: the mapping is read and looked up at once.
EnterMapped(s) ==
  LET o == Obj(s)
      existing == Mapped(KeyOf(o, got[s][Scenario]))
  IN /\ Doing(s, "enter") /\ Kind(o) \in {"entity", "run"}
     /\ IF Reusable(s, o, existing) THEN Return(s, o, existing) ELSE Go(s, Renew(o))
     /\ UNCHANGED <<version, hub, lost, map, refused, request>>

\* _sync_trace_for_task: a trace that is mapped is not looked up.
EnterTrace(s) ==
  LET o == Obj(s)
      existing == Mapped(KeyOf(o, None))
  IN /\ Doing(s, "enter") /\ Kind(o) = "trace"
     /\ IF existing # None /\ ~Forced(s) THEN Return(s, o, existing) ELSE Go(s, Renew(o))
     /\ UNCHANGED <<version, hub, lost, map, refused, request>>

\* _sync_task, _sync_plan, _sync_action read the mapping before they turn to the parents.
EnterChild(s) ==
  LET o == Obj(s)
      existing == Mapped(KeyOf(o, None))
      skip == Kind(o) = "action" /\ Id(o) \in Queries
  IN /\ Doing(s, "enter") /\ Kind(o) \in {"task", "plan", "action"} /\ ~skip
     /\ Go(s, (CASE Kind(o) = "task" -> <<Enter(Run(RunOf[Id(o)]))>>
                 [] Kind(o) = "plan" -> <<Enter(Task(TaskOf[Id(o)]))>>
                 [] OTHER -> <<Enter(Task(NamedTask[Id(o)])), Step("keep", o, None),
                               Enter(Plan(PlanOf[Id(o)]))>>)
                \o <<Step("check", o, existing)>>)
     /\ UNCHANGED <<version, hub, lost, map, refused, request>>

\* _sync_action of a query: no object, a mapping that says so, and a trace event.
SkipQuery(s) ==
  /\ Doing(s, "enter") /\ Kind(Obj(s)) = "action" /\ Id(Obj(s)) \in Queries
  /\ map' = Upserted(KeyOf(Obj(s), None), Skipped)
  /\ Return(s, Obj(s), Skipped)
  /\ UNCHANGED <<version, hub, lost, refused, request>>

\* The mapping the first call for its task has returned is the one an Action is posted with.
KeepTask(s) ==
  /\ Doing(s, "keep")
  /\ GoWith(s, <<>>, [got[s] EXCEPT ![Obj(s)] = got[s][Task(NamedTask[Id(Obj(s))])]])
  /\ UNCHANGED <<version, hub, lost, map, refused, request>>

\* The lookup, once the parents are there.  A task needs a scene.
Check(s) ==
  LET o == Obj(s)
      scene == IF Kind(o) = "task" THEN Mapped(KeyOf(Scenario, None)) ELSE got[s][Scenario]
  IN /\ Doing(s, "check")
     /\ Kind(o) = "task" => scene # None
     /\ IF Reusable(s, o, Saw(s))
        THEN Return(s, o, Saw(s))
        ELSE GoWith(s, Renew(o), [got[s] EXCEPT ![Scenario] = scene])
     /\ UNCHANGED <<version, hub, lost, map, refused, request>>

\* _sync_action takes the robot's entity in the scene that is mapped now.
FindRobot(s) ==
  LET robot == Entity(RobotOf[Id(Obj(s))])
      scene == Mapped(KeyOf(Scenario, None))
      entity == Mapped(KeyOf(robot, scene))
  IN /\ Doing(s, "robot")
     /\ GoWith(s, IF entity = None THEN <<Enter(robot)>> ELSE <<>>,
               [got[s] EXCEPT ![Scenario] = scene, ![robot] = entity])
     /\ UNCHANGED <<version, hub, lost, map, refused, request>>

\* The object s posts.
Posted(s) ==
  LET o == Obj(s) IN
  [of |-> o, by |-> s,
   name |-> IF Kind(o) = "scene" THEN Saw(s) ELSE None,
   scene |-> IF Kind(o) = "scene" THEN None ELSE got[s][Scenario],
   task |-> CASE Kind(o) = "plan" -> got[s][Task(TaskOf[Id(o)])]
              [] Kind(o) = "trace" -> got[s][Task(Id(o))]
              [] Kind(o) = "action" -> got[s][o]
              [] OTHER -> None,
   plan |-> IF Kind(o) = "action" THEN got[s][Plan(PlanOf[Id(o)])] ELSE None,
   entity |-> IF Kind(o) = "action" THEN got[s][Entity(RobotOf[Id(o)])] ELSE None]

\* The Hub has the parents, and an Action's robot is in the scene of its task.
Accepts(x) ==
  CASE Kind(x.of) = "task" -> Same(Run(RunOf[Id(x.of)]), None, None) # {}
    [] Kind(x.of) = "plan" -> Live(x.task)
    [] Kind(x.of) = "action" -> /\ Live(x.task) /\ Live(x.plan) /\ Live(x.entity)
                                /\ hub[x.entity].scene = hub[x.task].scene
    [] OTHER -> TRUE

Single == {"scene", "entity", "run"}

\* Mutant: an id is made up and stored, whatever the Hub says.
PostBlindly(s) ==
  /\ Doing(s, "post")
  /\ Go(s, <<Step("store", Obj(s), Len(hub) + 1)>>)
  /\ UNCHANGED <<version, hub, lost, map, refused, request>>

\* A POST the Hub answers with a new object, or with 409, upon which the old one is fetched.
Post(s) ==
  LET x == Posted(s)
      same == IF Kind(x.of) \in Single THEN Same(x.of, x.name, x.scene) ELSE {}
  IN /\ Doing(s, "post")
     /\ \/ /\ same = {} /\ Accepts(x) /\ Len(hub) < MaxHub
           /\ hub' = Append(hub, x)
           /\ Go(s, <<Step("store", x.of, Len(hub) + 1)>>)
        \/ \E n \in same : Go(s, <<Step("store", x.of, n)>>) /\ UNCHANGED hub
     /\ UNCHANGED <<version, lost, map, refused, request>>

Refuse(s) ==
  /\ Doing(s, "post") /\ ~Accepts(Posted(s))
  /\ refused' = refused \cup {Obj(s)}
  /\ GiveUp(s)
  /\ UNCHANGED <<version, hub, lost, map, request>>

\* The id that was found or made is put into the table.
Store(s) ==
  /\ Doing(s, "store")
  /\ map' = Upserted(KeyOf(Obj(s), got[s][Scenario]), Saw(s))
  /\ Return(s, Obj(s), Saw(s))
  /\ UNCHANGED <<version, hub, lost, refused, request>>

\* HubClientError, an error of the database, or the end of the process: what has been posted
\* and stored stays.  A status or trace event that cannot be posted fails the request, too.
Fail(s) ==
  /\ todo[s] # <<>> /\ GiveUp(s)
  /\ UNCHANGED <<version, hub, lost, map, refused, request>>

-----------------------------------------------------------------------------
\* The surroundings

\* The Hub is set up anew, without what it had; bound: once, between requests.
Reset ==
  /\ lost = 0 /\ hub # <<>> /\ lost' = Len(hub)
  /\ \A s \in Syncs : todo[s] = <<>>
  /\ UNCHANGED <<version, hub, map, todo, got, result, refused, request>>

Next ==
  \/ \E s \in Syncs :
       \/ \E q \in Requests[s] : Begin(s, q)
       \/ EnterScene(s) \/ FindScene(s) \/ EnterMapped(s) \/ EnterTrace(s) \/ EnterChild(s)
       \/ SkipQuery(s) \/ KeepTask(s) \/ Check(s) \/ FindRobot(s)
       \/ Post(s) \/ Refuse(s) \/ Store(s) \/ Fail(s)
  \/ Reset

Spec == Init /\ [][Next]_vars

-----------------------------------------------------------------------------
\* Properties

\* A mapping names a Hub object made for that very local object, in that very scene; and what
\* is posted names, as its task, plan and robot, objects made for its own task, plan and robot,
\* whatever other requests stored, lost or repeated meanwhile.
IdsAreOwn ==
  /\ \A k \in DOMAIN map :
       IF map[k] = Skipped THEN Id(k[1]) \in Queries
       ELSE hub[map[k]].of = k[1] /\ (Kind(k[1]) = "entity" => hub[map[k]].scene = k[2])
  /\ \A n \in HubIds : LET x == hub[n] IN
       /\ Kind(x.of) = "plan" => hub[x.task].of = Task(TaskOf[Id(x.of)])
       /\ Kind(x.of) = "trace" => hub[x.task].of = Task(Id(x.of))
       /\ Kind(x.of) = "action" => /\ hub[x.plan].of = Plan(PlanOf[Id(x.of)])
                                   /\ hub[x.task].of = Task(NamedTask[Id(x.of)])
                                   /\ hub[x.entity].of = Entity(RobotOf[Id(x.of)])

\* What a request was to bring to the Hub.
Meant(q) ==
  LET work == Work(q) IN {work[i].obj : i \in DOMAIN work}

\* A request that answers ok has left a mapping for everything it was asked for, and for the
\* run, the task, its trace and the plan above that: no way through the calls forgets one.
\* Of a run with its graph, that is every Action but those with ActionLimit newer ones: ok
\* does not mean that these are mapped.
OkMeansMapped ==
  \A s \in Syncs : result[s] = "ok" =>
    /\ \A o \in Meant(asked[s]) :
         /\ \E k \in DOMAIN map : k[1] = o
         /\ Kind(o) = "task" => {<<Trace(Id(o)), None>>, <<Run(RunOf[Id(o)]), None>>}
                                  \subseteq DOMAIN map
         /\ Kind(o) = "plan" => <<Task(TaskOf[Id(o)]), None>> \in DOMAIN map
         /\ Kind(o) = "action" /\ Id(o) \notin Queries =>
              <<Plan(PlanOf[Id(o)]), None>> \in DOMAIN map
    /\ asked[s].what = "graph" =>
         \A a \in ActionsOf(Id(asked[s].obj)) :
           Cardinality(Newer(a)) < ActionLimit => \E k \in DOMAIN map : k[1] = Action(a)

\* What one request has made is not made again by a request that began after the first had
\* answered ok, unless it was forced or the Hub has lost such an object.  (Requests that overlap
\* or end in an error do leave tasks, plans, Actions and traces in the Hub twice.)
NoNeedlessRepeat ==
  \A x, y \in HubIds :
    /\ x < y /\ hub[x].of = hub[y].of /\ Kind(hub[x].of) \notin Single
    /\ ~asked[hub[y].by].force /\ \A n \in 1..lost : hub[n].of # hub[x].of
    => /\ hub[x].by # hub[y].by
       /\ ~(hub[x].by \in before[hub[y].by] /\ result[hub[x].by] = "ok")

\* A request for the scene that answers ok leaves the scenario mapped to the scene of the
\* current version, if it began after the last publication and nothing that began before
\* that was still on its way; a slower one puts an older scene back.
SceneFollowsMap ==
  \A s \in Syncs :
    /\ result[s] = "ok" /\ asked[s].what \in {"scene", "entities", "publish"}
    /\ at[s] = version
    /\ \A r \in Syncs : asked[r] # NoRequest /\ at[r] < version => r \in before[s]
    => hub[map[KeyOf(Scenario, None)]].name = version

\* tests/test_api.py:155: the Hub turns an Action away whose robot is not in its task's scene.
ActionsAccepted == \A o \in refused : Kind(o) # "action"
=============================================================================
