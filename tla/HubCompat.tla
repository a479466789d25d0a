----------------------------- MODULE HubCompat -----------------------------
(***************************************************************************)
(* The Hub compatible API (src/backend/app/hub_compat.py): the platform    *)
(* plays the Hub.  Its objects are messages in the message table, read     *)
(* back from the newest Limit of their type.  A handler checks names,      *)
(* versions or the number of events in one query and appends in a          *)
(* transaction of its own, beside other handlers and beside the            *)
(* platform's own runs, tasks and plans (SimulationTasks).                 *)
(*                                                                         *)
(* Handlers that only append (snapshots, results, statuses) add messages   *)
(* of types that no check reads and are left out; Actions created through  *)
(* this API are dispatched like the platform's own (ActionDispatch).       *)
(***************************************************************************)
EXTENDS SimulationTasks

CONSTANTS
  Clients,     \* threads of requests to this API
  Names,       \* of scenes and entities
  Scenario,    \* the name of the platform's own scenario, which is a scene
  PlatformTrace, \* the trace of a task of the platform
  Offered,     \* sets of what is asked for in one behaviour
  Limit,       \* 1000 in the code: how many messages a query returns
  MaxVersion,  \* bound: versions of plans
  MaxLog       \* bound: messages

ASSUME HubAssumption ==
  /\ Scenario \in Names /\ Limit \in Nat \ {0}
  /\ MaxVersion \in Nat \ {0} /\ MaxLog \in Nat

\* A message: its object's type, what it belongs to, and its name, version, number or
\* scene; looked is history: the length of the log when its handler looked at it.
Object(kind, of, name, looked) == [kind |-> kind, of |-> of, name |-> name, looked |-> looked]
Kinds == {"scene", "entity", "plan", "run", "trace", "event"}
Objects ==
  [kind : Kinds, of : Nat \cup Names \cup Runs \cup {PlatformTrace}, name : Nat \cup Names,
   looked : Nat]
NoObject == Object("none", 0, 0, 0)

VARIABLES
  offered, \* what is asked for; types share no check, so that few at a time suffice
  log,     \* the objects' messages, oldest first
  storing, \* storing[c]: the object that c's request is about to store
  told     \* history: runs whose creation was answered, with the scene asked for

hubVars == <<log, storing, told>>
vars == <<taskVars, hubVars, offered>>

\* _latest_hub_objects: no object is stored twice, so every message is an object.
Latest(kind) ==
  {i \in DOMAIN log : log[i].kind = kind
     /\ Cardinality({j \in (i + 1)..Len(log) : log[j].kind = kind}) < Limit}

Has(kind, of, name) == \E i \in Latest(kind) : log[i].of = of /\ log[i].name = name

TypeOK ==
  /\ TasksTypeOK /\ offered \in Offered
  /\ log \in Seq(Objects) /\ \A i \in DOMAIN log : log[i].looked < i
  /\ storing \in [Clients -> Objects \cup {NoObject}]
  /\ \A c \in Clients : storing[c].looked <= Len(log)
  /\ told \subseteq runs \X Names

Init ==
  /\ TasksInit /\ offered \in Offered
  /\ log = <<>> /\ storing = [c \in Clients |-> NoObject] /\ told = {}

-----------------------------------------------------------------------------
Free(c) == storing[c] = NoObject
Look(c, kind, of, name) ==
  storing' = [storing EXCEPT ![c] = Object(kind, of, name, Len(log))]

\* create_hub_scene, 409: a scene or the scenario has the name.
PostScene(c, name) ==
  /\ Free(c) /\ name # Scenario /\ ~Has("scene", 0, name)
  /\ Look(c, "scene", 0, name)
  /\ UNCHANGED <<taskVars, log, told>>

\* Mutant: nobody asks for the names there are.
PostEntityUnasked(c, scene, name) ==
  /\ Free(c)
  /\ Look(c, "entity", scene, name)
  /\ UNCHANGED <<taskVars, log, told>>

\* create_hub_entity, 409: an entity of that scene, which need not exist, has the name.
PostEntity(c, scene, name) ==
  /\ Free(c) /\ ~Has("entity", scene, name)
  /\ Look(c, "entity", scene, name)
  /\ UNCHANGED <<taskVars, log, told>>

\* create_hub_plan, 404 and 409: plans of the platform and of the Hub share versions.
PostPlan(c, t, v) ==
  /\ Free(c) /\ t \in TaskIds /\ v > versions[t] /\ ~Has("plan", t, v)
  /\ Look(c, "plan", t, v)
  /\ UNCHANGED <<taskVars, log, told>>

\* create_hub_trace; a trace's name is its place in the log.
PostTrace(c) ==
  /\ Free(c) /\ Look(c, "trace", 0, 0)
  /\ UNCHANGED <<taskVars, log, told>>

\* Mutant: the events of every trace are counted, and the new one is not.
PostEventUncounted(c, trace) ==
  /\ Free(c) /\ trace \in Latest("trace") \cup {PlatformTrace}
  /\ Look(c, "event", trace, Cardinality({i \in Latest("event") : log[i].of # trace}))
  /\ UNCHANGED <<taskVars, log, told>>

\* append_hub_trace_event, 404: the number counts the events of the trace that the query returns.
PostEvent(c, trace) ==
  /\ Free(c) /\ trace \in Latest("trace") \cup {PlatformTrace}
  /\ Look(c, "event", trace, Cardinality({i \in Latest("event") : log[i].of = trace}) + 1)
  /\ UNCHANGED <<taskVars, log, told>>

\* Mutant: the overlay is stored for a run there is already.
CreateRunAgain(c, run, scene) ==
  /\ Free(c)
  /\ runs' = runs \cup {run}
  /\ Look(c, "run", run, scene)
  /\ UNCHANGED <<tasks, versions, groups, making, failed, begun, log, told>>

\* create_hub_run, 409: the run is stored first, the scene asked for in a message later.
CreateRun(c, run, scene) ==
  /\ Free(c) /\ run \notin runs
  /\ runs' = runs \cup {run}
  /\ Look(c, "run", run, scene)
  /\ UNCHANGED <<tasks, versions, groups, making, failed, begun, log, told>>

\* create_simulation_run by the platform itself.
CreatePlatformRun(run) ==
  /\ run \notin runs /\ runs' = runs \cup {run}
  /\ UNCHANGED <<tasks, versions, groups, making, failed, begun, hubVars>>

\* _store_hub_object, and the answer.
StoreObject(c) ==
  /\ ~Free(c) /\ Len(log) < MaxLog
  /\ LET o == storing[c] IN
     /\ log' = Append(log, o)
     /\ told' = IF o.kind = "run" THEN told \cup {<<o.of, o.name>>} ELSE told
  /\ storing' = [storing EXCEPT ![c] = NoObject]
  /\ UNCHANGED taskVars

\* The transaction fails or the process ends: a run stays, without the scene asked for.
FailObject(c) ==
  /\ ~Free(c)
  /\ storing' = [storing EXCEPT ![c] = NoObject]
  /\ UNCHANGED <<taskVars, log, told>>

Asks(kind) == kind \in offered

ClientNext ==
  \E c \in Clients :
    \/ \E name \in Names :
         \/ Asks("scene") /\ PostScene(c, name)
         \/ Asks("entity") /\ \E scene \in Names : PostEntity(c, scene, name)
         \/ Asks("run") /\ \E run \in Runs : CreateRun(c, run, name)
    \/ Asks("plan") /\ \E t \in TaskIds, v \in 1..MaxVersion : PostPlan(c, t, v)
    \/ Asks("trace") /\ PostTrace(c)
    \/ Asks("event") /\ \E trace \in DOMAIN log \cup {PlatformTrace} : PostEvent(c, trace)
    \/ StoreObject(c) \/ FailObject(c)

PlatformNext ==
  \/ \E run \in Runs : CreatePlatformRun(run)
  \/ Asks("task") /\ UNCHANGED hubVars /\ \E run \in Runs : CreateTask(run)
  \/ Asks("group") /\ UNCHANGED hubVars /\ MakerNext
  \/ Asks("plan") /\ UNCHANGED hubVars /\ \E t \in TaskIds : CreatePlan(t, MaxVersion)

Next == (ClientNext \/ PlatformNext) /\ UNCHANGED offered
Spec == Init /\ [][Next]_vars

-----------------------------------------------------------------------------
\* _run_to_hub: the scene a run is shown in; None stands for its scenario's.
Shown(run) == {log[i].name : i \in {j \in Latest("run") : log[j].of = run}}

Same(a, b) == a.kind = b.kind /\ a.of = b.of /\ a.name = b.name
\* Messages of a type between two places of the log.
Between(kind, i, j) == {k \in (i + 1)..j : log[k].kind = kind}

\* Two scenes of a name, two entities of a name in a scene, or two plans of a version
\* of a task come to be only when the second's handler looked before the first was
\* stored, or when as many newer objects as a query returns hid the first
\* (create_hub_scene, create_hub_entity, create_hub_plan, _latest_hub_objects).
DuplicatesHaveCause ==
  \A j \in DOMAIN log : log[j].kind \in {"scene", "entity", "plan"} =>
    \A i \in 1..(j - 1) : Same(log[i], log[j]) =>
      \/ log[j].looked < i
      \/ Cardinality(Between(log[i].kind, i, log[j].looked)) >= Limit

\* A trace's event gets a higher number than one stored before its handler looked, also
\* after overlapping handlers have given a number twice, as long as the query returns all
\* events there are (append_hub_trace_event).
EventsInOrder ==
  \A i, j \in DOMAIN log :
    /\ log[i].kind = "event" /\ log[j].kind = "event" /\ log[i].of = log[j].of
    /\ i <= log[j].looked
    /\ Cardinality(Between("event", 0, log[j].looked)) <= Limit
    => log[i].name < log[j].name

\* A run whose creation was answered is shown in the scene that was asked for, unless as
\* many newer runs as a query returns hide it; and nobody else's answer names another
\* scene (create_hub_run, _run_to_hub).
RunsKeepTheirScene ==
  /\ \A a, b \in told : a[1] = b[1] => a = b
  /\ \A a \in told : \A i \in DOMAIN log :
       /\ log[i].kind = "run" /\ log[i].of = a[1]
       /\ Cardinality(Between("run", i, Len(log))) < Limit
       => Shown(a[1]) = {a[2]}
=============================================================================
