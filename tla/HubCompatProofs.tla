-------------------------- MODULE HubCompatProofs --------------------------
(***************************************************************************)
(* What holds of HubCompat and SimulationTasks for any clients, makers,    *)
(* runs, names and limits.                                                 *)
(***************************************************************************)
EXTENDS HubCompat, FiniteSetTheorems, SequenceTheorems, TLAPS

-----------------------------------------------------------------------------
\* Tasks, batches and chains

\* A run is added.
AddRun(run) ==
  /\ run \notin runs /\ runs' = runs \cup {run}
  /\ UNCHANGED <<tasks, versions, groups, making, failed, begun>>

\* What the steps do to runs, tasks and groups.
LEMMA TaskStepKinds ==
  ASSUME [Next]_vars
  PROVE  \/ UNCHANGED taskVars
         \/ \E run \in Runs : AddRun(run) \/ CreateTask(run)
         \/ \E t \in TaskIds : CreatePlan(t, MaxVersion)
         \/ \E m \in Makers :
              \/ \E run \in Runs, chain, parallel \in BOOLEAN, size \in Sizes :
                   BeginGroup(m, run, chain, parallel, size)
              \/ MakeTask(m) \/ EndGroup(m) \/ FailGroup(m)
<1>1. CASE ClientNext
  BY <1>1 DEF ClientNext, PostScene, PostEntity, PostPlan, PostTrace, PostEvent, CreateRun,
              StoreObject, FailObject, AddRun, taskVars
<1>2. CASE PlatformNext
  BY <1>2 DEF PlatformNext, MakerNext, CreatePlatformRun, AddRun
<1> QED
  BY <1>1, <1>2 DEF Next, vars

LEMMA SeqGrows ==
  ASSUME NEW S, NEW T, S \subseteq T, NEW s \in Seq(S)
  PROVE  s \in Seq(T)
OBVIOUS

LEMMA RowsGrow ==
  ASSUME begun \in Nat, begun' \in Nat, begun <= begun', runs \subseteq runs'
  PROVE  Rows \subseteq Rows'
BY DEF Rows

LEMMA SetsKept ==
  ASSUME UNCHANGED <<runs, tasks, begun>>
  PROVE  Rows' = Rows /\ TaskIds' = TaskIds /\ Groups' = Groups
BY DEF Rows, TaskIds, Groups

LEMMA GroupsGrow ==
  ASSUME begun \in Nat, begun' \in Nat, begun <= begun', runs \subseteq runs',
         Len(tasks) \in Nat, Len(tasks') \in Nat, Len(tasks) <= Len(tasks')
  PROVE  Groups \subseteq Groups'
<1>1. \A s \in Seq(TaskIds) : s \in Seq(TaskIds')
  BY DEF TaskIds
<1>2. 1..begun \subseteq 1..begun'
  OBVIOUS
<1> QED
  BY <1>1, <1>2 DEF Groups

LEMMA MakingShape ==
  ASSUME TasksTypeOK, NEW m \in Makers
  PROVE  Busy(m) => making[m] \in Groups
BY DEF TasksTypeOK, Busy

LEMMA TasksTypeStart == Init => TasksTypeOK
BY DEF Init, TasksInit, TasksTypeOK, TaskIds

\* Storing a task with its plan keeps both tables in step.
LEMMA StoreType ==
  ASSUME TasksTypeOK, NEW run, NEW group \in 0..begun, NEW index \in Nat, Store(run, group, index),
         runs' = runs, begun' = begun
  PROVE  /\ tasks' \in Seq(Rows')
         /\ versions' \in [TaskIds' -> Nat \ {0}]
         /\ Len(tasks') = Len(tasks) + 1 /\ Len(tasks) \in Nat
         /\ tasks'[Len(tasks) + 1] = [run |-> run, group |-> group, index |-> index]
         /\ \A t \in TaskIds : tasks'[t] = tasks[t]
         /\ TaskIds' = TaskIds \cup {Len(tasks) + 1}
<1> DEFINE task == [run |-> run, group |-> group, index |-> index]
<1>1. tasks' = Append(tasks, task) /\ task \in Rows
  BY DEF Store, Rows
<1>2. tasks \in Seq(Rows) /\ Len(tasks) \in Nat
  BY DEF TasksTypeOK
<1> HIDE DEF task
<1>3. /\ tasks' \in Seq(Rows)
      /\ Len(tasks') = Len(tasks) + 1 /\ tasks'[Len(tasks) + 1] = task
      /\ \A t \in 1..Len(tasks) : tasks'[t] = tasks[t]
  BY <1>1, <1>2
<1>4. versions \in Seq(Nat \ {0}) /\ Len(versions) = Len(tasks)
  BY <1>2 DEF TasksTypeOK, TaskIds
<1>5. versions' \in Seq(Nat \ {0}) /\ Len(versions') = Len(tasks) + 1
  BY <1>2, <1>4, AppendProperties DEF Store
<1>6. versions' \in [1..(Len(tasks) + 1) -> Nat \ {0}]
  BY <1>5, LenProperties
<1>7. Rows' = Rows
  BY DEF Rows
<1> QED
  BY <1>2, <1>3, <1>6, <1>7 DEF TaskIds, task

LEMMA TasksTypeStep ==
  ASSUME TasksTypeOK, [Next]_vars
  PROVE  TasksTypeOK' /\ runs \subseteq runs' /\ begun <= begun' /\ Len(tasks) <= Len(tasks')
<1> DEFINE Goal == TasksTypeOK' /\ runs \subseteq runs' /\ begun <= begun' /\ Len(tasks) <= Len(tasks')
<1> USE TasksAssumption
<1>1. begun \in Nat /\ Len(tasks) \in Nat
  BY DEF TasksTypeOK
<1>2. CASE UNCHANGED taskVars
  BY <1>1, <1>2, SetsKept DEF taskVars, TasksTypeOK
<1>3. ASSUME NEW run \in Runs, AddRun(run)
      PROVE  Goal
  <2>1. Groups \subseteq Groups'
    BY <1>1, <1>3, GroupsGrow DEF AddRun
  <2>2. tasks' \in Seq(Rows')
    BY <1>1, <1>3, RowsGrow, SeqGrows DEF AddRun, TasksTypeOK
  <2> QED
    BY <1>1, <1>3, <2>1, <2>2 DEF AddRun, TasksTypeOK, TaskIds
<1>4. ASSUME NEW run \in Runs, CreateTask(run)
      PROVE  Goal
  <2>1. /\ tasks' \in Seq(Rows')
        /\ versions' \in [TaskIds' -> Nat \ {0}] /\ Len(tasks') = Len(tasks) + 1
    <3>1. 0 \in 0..begun /\ 0 \in Nat
      BY <1>1
    <3>2. Store(run, 0, 0) /\ runs' = runs /\ begun' = begun
      BY <1>4 DEF CreateTask
    <3> QED
      BY <3>1, <3>2, StoreType
  <2>2. Groups \subseteq Groups'
    BY <1>1, <1>4, <2>1, GroupsGrow DEF CreateTask
  <2> QED
    BY <1>1, <1>4, <2>1, <2>2 DEF CreateTask, TasksTypeOK
<1>5. ASSUME NEW t \in TaskIds, CreatePlan(t, MaxVersion)
      PROVE  Goal
  <2>1. versions' \in [TaskIds -> Nat \ {0}]
    BY <1>5 DEF CreatePlan, TasksTypeOK
  <2> QED
    BY <1>1, <1>5, <2>1, SetsKept DEF CreatePlan, TasksTypeOK
<1>6. ASSUME NEW m \in Makers, NEW run \in Runs, NEW chain \in BOOLEAN, NEW parallel \in BOOLEAN,
             NEW size \in Sizes, BeginGroup(m, run, chain, parallel, size)
      PROVE  Goal
  <2> DEFINE c == [id |-> begun + 1, run |-> run, chain |-> chain, parallel |-> parallel,
                   size |-> size, items |-> <<>>]
  <2>1. Groups \subseteq Groups'
    BY <1>1, <1>6, GroupsGrow DEF BeginGroup
  <2>2. c \in Groups'
    BY <1>1, <1>6 DEF BeginGroup, Groups, TaskIds
  <2>3. \A s \in Seq(Rows) :
          s \in Seq(Rows')
    BY <1>1, <1>6, RowsGrow, SeqGrows DEF BeginGroup
  <2>4. making' = [making EXCEPT ![m] = c]
    BY <1>6 DEF BeginGroup
  <2> HIDE DEF c
  <2> QED
    BY <1>1, <1>6, <2>1, <2>2, <2>3, <2>4 DEF BeginGroup, TasksTypeOK, TaskIds
<1>7. ASSUME NEW m \in Makers, MakeTask(m)
      PROVE  Goal
  <2>1. making[m] \in Groups
    BY <1>7, MakingShape DEF MakeTask
  <2>2. making[m].id \in 0..begun /\ making[m].items \in Seq(TaskIds)
        /\ Len(making[m].items) + 1 \in Nat
    BY <1>1, <2>1 DEF Groups
  <2>3. /\ tasks' \in Seq(Rows')
        /\ versions' \in [TaskIds' -> Nat \ {0}] /\ Len(tasks') = Len(tasks) + 1
        /\ TaskIds' = TaskIds \cup {Len(tasks) + 1}
    BY <1>1, <1>7, <2>2, StoreType DEF MakeTask
  <2>4. Groups \subseteq Groups'
    BY <1>1, <1>7, <2>3, GroupsGrow DEF MakeTask
  <2> DEFINE items == Append(making[m].items, Len(tasks) + 1)
             c == [making[m] EXCEPT !.items = items]
  <2>5. items \in Seq(TaskIds')
    BY <2>2, <2>3
  <2>6. making[m] \in Groups'
    BY <2>1, <2>4
  <2> HIDE DEF items
  <2>7. c \in Groups'
    BY <2>5, <2>6 DEF Groups
  <2>8. making' = [making EXCEPT ![m] = c]
    BY <1>7 DEF MakeTask, items
  <2> HIDE DEF c
  <2>9. making' \in [Makers -> Groups' \cup {NoGroup}]
    BY <2>4, <2>7, <2>8 DEF TasksTypeOK
  <2> QED
    BY <1>1, <1>7, <2>3, <2>4, <2>9 DEF MakeTask, TasksTypeOK, Store
<1>8. ASSUME NEW m \in Makers, EndGroup(m)
      PROVE  Goal
  <2>1. making[m] \in Groups
    BY <1>8, MakingShape DEF EndGroup
  <2> QED
    BY <1>1, <1>8, <2>1, SetsKept DEF EndGroup, TasksTypeOK
<1>9. ASSUME NEW m \in Makers, FailGroup(m)
      PROVE  Goal
  <2>1. making[m].id \in 1..begun
    BY <1>1, <1>9, MakingShape DEF FailGroup, Groups
  <2>2. making' \in [Makers -> Groups \cup {NoGroup}]
    BY <1>9 DEF FailGroup, TasksTypeOK
  <2>3. failed' \subseteq 1..begun
    BY <1>9, <2>1 DEF FailGroup, TasksTypeOK
  <2> QED
    BY <1>1, <1>9, <2>2, <2>3, SetsKept DEF FailGroup, TasksTypeOK
<1> QED
  BY <1>2, <1>3, <1>4, <1>5, <1>6, <1>7, <1>8, <1>9, TaskStepKinds

-----------------------------------------------------------------------------
\* The messages

\* An interval's places that satisfy a condition can be counted.
LEMMA CountType ==
  ASSUME NEW a \in Nat, NEW b \in Nat, NEW S, S \subseteq a..b
  PROVE  IsFiniteSet(S) /\ Cardinality(S) \in Nat
<1>1. IsFiniteSet(a..b)
  BY FS_Interval
<1>2. IsFiniteSet(S)
  BY <1>1, FS_Subset
<1> QED
  BY <1>2, FS_CardinalityType

LEMMA LatestFinite ==
  ASSUME log \in Seq(Objects), NEW kind, NEW S, S \subseteq Latest(kind)
  PROVE  S \subseteq 1..Len(log) /\ IsFiniteSet(S) /\ Cardinality(S) \in Nat
<1>1. Len(log) \in Nat /\ DOMAIN log = 1..Len(log)
  OBVIOUS
<1>2. S \subseteq 1..Len(log)
  BY <1>1 DEF Latest
<1> QED
  BY <1>1, <1>2, CountType

Owners == Nat \cup Names \cup Runs \cup {PlatformTrace}
\* The events of a trace that a query returns.
Counted(trace) == {i \in Latest("event") : log[i].of = trace}

\* A handler has looked and holds the object it will store.
Looks(c) ==
  /\ Free(c) /\ log' = log /\ told' = told
  /\ \E kind \in Kinds, of \in Owners, name \in Nat \cup Names :
       /\ Look(c, kind, of, name)
       /\ kind \in {"scene", "entity", "plan"} => ~Has(kind, of, name)
       /\ kind = "event" => name = Cardinality(Counted(of)) + 1
       /\ kind = "run" => of \notin runs /\ of \in runs' /\ name \in Names

LEMMA MessageSteps ==
  ASSUME TypeOK, [Next]_vars
  PROVE  \/ log' = log /\ storing' = storing /\ told' = told
         \/ \E c \in Clients : Looks(c) \/ StoreObject(c) \/ FailObject(c)
<1>0. /\ log \in Seq(Objects) /\ Len(log) \in Nat /\ DOMAIN log \subseteq Nat
      /\ TaskIds \subseteq Nat /\ 0 \in Owners /\ Names \subseteq Owners /\ Runs \subseteq Owners
      /\ TaskIds \subseteq Owners /\ DOMAIN log \cup {PlatformTrace} \subseteq Owners
      /\ {"scene", "entity", "plan", "run", "trace", "event"} \subseteq Kinds
  BY DEF TypeOK, TaskIds, TasksTypeOK, Owners, Kinds
<1>1. ASSUME NEW c \in Clients, NEW name \in Names, PostScene(c, name)
      PROVE  Looks(c)
  BY <1>0, <1>1 DEF PostScene, Looks
<1>2. ASSUME NEW c \in Clients, NEW scene \in Names, NEW name \in Names,
             PostEntity(c, scene, name)
      PROVE  Looks(c)
  BY <1>0, <1>2 DEF PostEntity, Looks
<1>3. ASSUME NEW c \in Clients, NEW run \in Runs, NEW name \in Names, CreateRun(c, run, name)
      PROVE  Looks(c)
  BY <1>0, <1>3 DEF CreateRun, Looks
<1>4. ASSUME NEW c \in Clients, NEW t \in TaskIds, NEW v \in 1..MaxVersion, PostPlan(c, t, v)
      PROVE  Looks(c)
  <2>1. v \in Nat \cup Names
    BY HubAssumption
  <2> QED
    BY <1>0, <1>4, <2>1 DEF PostPlan, Looks
<1>5. ASSUME NEW c \in Clients, PostTrace(c)
      PROVE  Looks(c)
  <2>1. 0 \in Nat \cup Names
    OBVIOUS
  <2> QED
    BY <1>0, <1>5, <2>1 DEF PostTrace, Looks
<1>6. ASSUME NEW c \in Clients, NEW trace \in DOMAIN log \cup {PlatformTrace},
             PostEvent(c, trace)
      PROVE  Looks(c)
  <2>1. Cardinality(Counted(trace)) + 1 \in Nat \cup Names
    <3>1. Counted(trace) \subseteq Latest("event")
      BY DEF Counted
    <3>2. Cardinality(Counted(trace)) \in Nat
      BY <1>0, <3>1, LatestFinite
    <3> QED
      BY <3>2
  <2>2. Look(c, "event", trace, Cardinality(Counted(trace)) + 1)
    BY <1>6 DEF PostEvent, Counted
  <2> QED
    BY <1>0, <1>6, <2>1, <2>2 DEF PostEvent, Looks
<1>7. CASE ClientNext
  BY <1>1, <1>2, <1>3, <1>4, <1>5, <1>6, <1>7 DEF ClientNext
<1>8. CASE PlatformNext
  BY <1>8 DEF PlatformNext, CreatePlatformRun, hubVars
<1> QED
  BY <1>7, <1>8 DEF Next, vars, hubVars

\* What a handler holds: an object to store, with the run it has created.
Holds == \A c \in Clients :
  storing[c].kind = "run" => storing[c].of \in runs /\ storing[c].name \in Names

TypeInv == TypeOK /\ Holds

LEMMA HubTypeStart == Init => TypeInv
<1> SUFFICES ASSUME Init PROVE TypeInv
  OBVIOUS
<1>1. TasksTypeOK /\ log = <<>> /\ log \in Seq(Objects) /\ DOMAIN log = {} /\ Len(log) = 0
  BY TasksTypeStart DEF Init
<1> QED
  BY <1>1 DEF Init, TypeInv, Holds, TypeOK, NoObject, Object

LEMMA MessageIsObject ==
  ASSUME TypeOK, NEW j \in DOMAIN log
  PROVE  log[j] \in Objects /\ log[j].looked \in Nat /\ log[j].looked < j
<1>1. log \in Seq(Objects) /\ j \in 1..Len(log)
  BY DEF TypeOK
<1>2. log[j] \in Objects
  BY <1>1, ElementOfSeq
<1> QED
  BY <1>2 DEF TypeOK, Objects

LEMMA StoreAppends ==
  ASSUME TypeOK, NEW c \in Clients, StoreObject(c)
  PROVE  /\ storing[c] \in Objects /\ Len(log) \in Nat
         /\ log' \in Seq(Objects) /\ Len(log') = Len(log) + 1
         /\ log'[Len(log) + 1] = storing[c]
         /\ \A i \in 1..Len(log) : log'[i] = log[i]
<1>1. storing[c] \in Objects /\ log \in Seq(Objects) /\ log' = Append(log, storing[c])
  BY DEF TypeOK, StoreObject, Free
<1> QED
  BY <1>1, AppendProperties

LEMMA LookStores ==
  ASSUME TypeOK, NEW c \in Clients, NEW kind \in Kinds, NEW of \in Owners,
         NEW name \in Nat \cup Names, Look(c, kind, of, name)
  PROVE  /\ storing' \in [Clients -> Objects \cup {NoObject}]
         /\ storing'[c] \in Objects /\ storing'[c].kind = kind /\ storing'[c].of = of
         /\ storing'[c].name = name /\ storing'[c].looked = Len(log)
         /\ \A d \in Clients \ {c} : storing'[d] = storing[d]
<1>1. Object(kind, of, name, Len(log)) \in Objects
  BY DEF Object, Objects, Owners, TypeOK
<1>2. /\ Object(kind, of, name, Len(log)).kind = kind
      /\ Object(kind, of, name, Len(log)).of = of
      /\ Object(kind, of, name, Len(log)).name = name
      /\ Object(kind, of, name, Len(log)).looked = Len(log)
  BY DEF Object
<1> QED
  BY <1>1, <1>2 DEF Look, TypeOK

LEMMA HubTypeStep ==
  ASSUME TypeInv, [Next]_vars
  PROVE  TypeInv' /\ runs \subseteq runs'
<1>1. TypeOK /\ Holds /\ TasksTypeOK' /\ runs \subseteq runs' /\ offered' = offered
  BY TasksTypeStep DEF TypeInv, TypeOK, Next, vars
<1>2. /\ log \in Seq(Objects) /\ Len(log) \in Nat /\ DOMAIN log = 1..Len(log)
      /\ NoObject.looked = 0 /\ NoObject.kind = "none"
  BY <1>1 DEF TypeOK, NoObject, Object
<1>3. CASE log' = log /\ storing' = storing /\ told' = told
  BY <1>1, <1>2, <1>3 DEF TypeInv, TypeOK, Holds
<1>4. ASSUME NEW c \in Clients, Looks(c)
      PROVE  TypeInv'
  <2>1. PICK kind \in Kinds, of \in Owners, name \in Nat \cup Names :
          Look(c, kind, of, name) /\ (kind = "run" => of \in runs' /\ name \in Names)
    BY <1>4 DEF Looks
  <2>2. \A d \in Clients : storing'[d].looked <= Len(log)
    <3>1. /\ storing'[c].looked = Len(log)
          /\ \A d \in Clients \ {c} : storing'[d] = storing[d]
      BY <1>1, <2>1, LookStores
    <3>2. \A d \in Clients : storing[d].looked <= Len(log)
      BY <1>1 DEF TypeOK
    <3> QED
      BY <1>2, <3>1, <3>2
  <2>3. Holds'
    BY <1>1, <2>1, LookStores DEF Holds
  <2> QED
    BY <1>1, <1>2, <1>4, <2>1, <2>2, <2>3, LookStores DEF TypeInv, TypeOK, Looks
<1>5. ASSUME NEW c \in Clients, StoreObject(c)
      PROVE  TypeInv'
  <2>1. storing' = [storing EXCEPT ![c] = NoObject]
    BY <1>5 DEF StoreObject
  <2>2. told' \subseteq runs' \X Names
    BY <1>1, <1>5 DEF TypeOK, Holds, StoreObject
  <2>3. /\ log' \in Seq(Objects) /\ Len(log') = Len(log) + 1
        /\ log'[Len(log) + 1] = storing[c] /\ \A i \in 1..Len(log) : log'[i] = log[i]
    BY <1>1, <1>5, StoreAppends
  <2>4. /\ \A i \in 1..Len(log) : log[i].looked < i
        /\ \A d \in Clients : storing[d].looked \in Nat /\ storing[d].looked <= Len(log)
    <3>1. \A d \in Clients : storing[d].looked \in Nat
      BY <1>1, <1>2 DEF TypeOK, Objects
    <3> QED
      BY <1>1, <1>2, <3>1 DEF TypeOK
  <2>5. \A i \in DOMAIN log' : log'[i].looked < i
    <3>1. DOMAIN log' = 1..(Len(log) + 1)
      BY <2>3
    <3> QED
      BY <1>2, <2>3, <2>4, <3>1
  <2>6. storing' \in [Clients -> Objects \cup {NoObject}]
    BY <1>1, <2>1 DEF TypeOK
  <2>7. \A d \in Clients : storing'[d].looked <= Len(log')
    BY <1>1, <1>2, <2>1, <2>3, <2>4 DEF TypeOK
  <2>8. Holds'
    BY <1>1, <1>2, <2>1 DEF TypeOK, Holds
  <2> QED
    BY <1>1, <2>2, <2>3, <2>5, <2>6, <2>7, <2>8 DEF TypeInv, TypeOK
<1>6. ASSUME NEW c \in Clients, FailObject(c)
      PROVE  TypeInv'
  BY <1>1, <1>2, <1>6 DEF TypeInv, Holds, TypeOK, FailObject
<1> QED
  BY <1>1, <1>3, <1>4, <1>5, <1>6, MessageSteps

-----------------------------------------------------------------------------
\* Duplicates

\* Messages of a type between two places of a log, which stay as the log grows.
Within(l, kind, i, j) == {k \in (i + 1)..j : l[k].kind = kind}
Prefix(l, m) == Len(l) <= Len(m) /\ \A i \in 1..Len(l) : m[i] = l[i]

LEMMA WithinKept ==
  ASSUME NEW l \in Seq(Objects), NEW m \in Seq(Objects), Prefix(l, m),
         NEW kind, NEW i \in Nat, NEW j \in Nat, j <= Len(l)
  PROVE  Within(m, kind, i, j) = Within(l, kind, i, j)
BY DEF Within, Prefix

Named == {"scene", "entity", "plan"}
\* The same object is not among those a handler found when it looked at so many messages.
Unseen(l, o, looked) ==
  \A i \in 1..looked : Same(l[i], o) => Cardinality(Within(l, o.kind, i, looked)) >= Limit
\* A handler that holds a named object found no such object.
Looked ==
  \A c \in Clients : storing[c].kind \in Named => Unseen(log, storing[c], storing[c].looked)
\* The same of the messages, object by object.
Logged == \A j \in DOMAIN log : log[j].kind \in Named => Unseen(log, log[j], log[j].looked)

DuplicateInv == TypeInv /\ Looked /\ Logged

LEMMA UnseenIfNotHas ==
  ASSUME TypeOK, NEW kind, NEW of, NEW name, ~Has(kind, of, name),
         NEW o \in Objects, o.kind = kind, o.of = of, o.name = name
  PROVE  Unseen(log, o, Len(log))
<1> SUFFICES ASSUME NEW i \in 1..Len(log), Same(log[i], o)
             PROVE  Cardinality(Within(log, kind, i, Len(log))) >= Limit
  BY DEF Unseen
<1>1. Len(log) \in Nat /\ DOMAIN log = 1..Len(log)
  BY DEF TypeOK
<1>2. log[i].kind = kind /\ log[i].of = of /\ log[i].name = name
  BY DEF Same
<1>3. i \notin Latest(kind)
  BY <1>2 DEF Has
<1>4. ~(Cardinality({j \in (i + 1)..Len(log) : log[j].kind = kind}) < Limit)
  BY <1>1, <1>2, <1>3 DEF Latest
<1>5. Within(log, kind, i, Len(log)) \subseteq 0..Len(log)
  BY <1>1 DEF Within
<1>6. Cardinality(Within(log, kind, i, Len(log))) \in Nat
  BY <1>1, <1>5, CountType
<1> QED
  BY <1>4, <1>6, HubAssumption DEF Within

LEMMA UnseenKept ==
  ASSUME NEW l \in Seq(Objects), NEW m \in Seq(Objects), Prefix(l, m),
         NEW o, NEW looked \in Nat, looked <= Len(l), Unseen(l, o, looked)
  PROVE  Unseen(m, o, looked)
<1> SUFFICES ASSUME NEW i \in 1..looked, Same(m[i], o)
             PROVE  Cardinality(Within(m, o.kind, i, looked)) >= Limit
  BY DEF Unseen
<1>1. Len(l) \in Nat /\ i \in Nat /\ m[i] = l[i]
  BY DEF Prefix
<1>2. Within(m, o.kind, i, looked) = Within(l, o.kind, i, looked)
  BY <1>1, WithinKept
<1> QED
  BY <1>1, <1>2 DEF Unseen

\* What every step does to the messages and to what the handlers hold.
LEMMA LogGrows ==
  ASSUME TypeInv, [Next]_vars
  PROVE  /\ log \in Seq(Objects) /\ log' \in Seq(Objects) /\ Prefix(log, log')
         /\ Len(log) \in Nat /\ DOMAIN log = 1..Len(log) /\ DOMAIN log' = 1..Len(log')
         /\ \A c \in Clients : storing[c].looked \in Nat /\ storing[c].looked <= Len(log)
         /\ \A j \in DOMAIN log : log[j].looked \in Nat /\ log[j].looked < j
<1>1. TypeOK /\ TypeOK'
  BY HubTypeStep DEF TypeInv
<1>2. log \in Seq(Objects) /\ log' \in Seq(Objects) /\ Len(log) \in Nat
  BY <1>1 DEF TypeOK
<1>3. Prefix(log, log')
  BY <1>1, <1>2, MessageSteps, StoreAppends DEF Prefix, Looks, FailObject
<1>4. \A c \in Clients : storing[c].looked \in Nat
  BY <1>1 DEF TypeOK, Objects, NoObject, Object
<1>5. \A j \in DOMAIN log : log[j].looked \in Nat
  BY <1>1, MessageIsObject
<1> QED
  BY <1>1, <1>2, <1>3, <1>4, <1>5 DEF TypeOK

\* Each client holds what it held, nothing, or an object it has just looked for.
LEMMA HoldSteps ==
  ASSUME TypeInv, [Next]_vars, NEW c \in Clients
  PROVE  \/ storing'[c] = storing[c]
         \/ storing'[c] = NoObject
         \/ /\ Free(c) /\ log' = log /\ storing'[c] \in Objects /\ storing'[c].looked = Len(log)
            /\ storing'[c].kind \in Named =>
                 ~Has(storing'[c].kind, storing'[c].of, storing'[c].name)
            /\ storing'[c].kind = "event" =>
                 storing'[c].name = Cardinality(Counted(storing'[c].of)) + 1
            /\ storing'[c].kind = "run" => storing'[c].of \notin runs
<1>1. TypeOK
  BY DEF TypeInv
<1>2. CASE log' = log /\ storing' = storing /\ told' = told
  BY <1>2
<1>3. ASSUME NEW d \in Clients, StoreObject(d) \/ FailObject(d)
      PROVE  storing'[c] = storing[c] \/ storing'[c] = NoObject
  BY <1>1, <1>3 DEF StoreObject, FailObject, TypeOK
<1>4. ASSUME NEW d \in Clients, Looks(d), d # c
      PROVE  storing'[c] = storing[c]
  BY <1>1, <1>4 DEF Looks, Look, TypeOK
<1>5. CASE Looks(c)
  <2>1. PICK kind \in Kinds, of \in Owners, name \in Nat \cup Names :
          /\ Look(c, kind, of, name)
          /\ kind \in {"scene", "entity", "plan"} => ~Has(kind, of, name)
          /\ kind = "event" => name = Cardinality(Counted(of)) + 1
          /\ kind = "run" => of \notin runs
    BY <1>5 DEF Looks
  <2>2. /\ storing'[c] \in Objects /\ storing'[c].kind = kind /\ storing'[c].of = of
        /\ storing'[c].name = name /\ storing'[c].looked = Len(log)
    BY <1>1, <2>1, LookStores
  <2> QED
    BY <1>5, <2>1, <2>2 DEF Looks, Named
<1> QED
  BY <1>1, <1>2, <1>3, <1>4, <1>5, MessageSteps

\* Each message of the log was there or is the object that some client held.
LEMMA LogSteps ==
  ASSUME TypeInv, [Next]_vars, NEW j \in DOMAIN log'
  PROVE  \/ j \in DOMAIN log /\ log'[j] = log[j]
         \/ /\ j = Len(log) + 1
            /\ \E c \in Clients : StoreObject(c) /\ log'[j] = storing[c]
<1>1. TypeOK
  BY DEF TypeInv
<1>2. ASSUME NEW c \in Clients, StoreObject(c)
      PROVE  \/ j \in DOMAIN log /\ log'[j] = log[j]
             \/ j = Len(log) + 1 /\ log'[j] = storing[c]
  <2>1. /\ Len(log) \in Nat /\ log' \in Seq(Objects) /\ Len(log') = Len(log) + 1
        /\ log'[Len(log) + 1] = storing[c] /\ \A i \in 1..Len(log) : log'[i] = log[i]
    BY <1>1, <1>2, StoreAppends
  <2>2. DOMAIN log' = 1..(Len(log) + 1) /\ DOMAIN log = 1..Len(log)
    BY <1>1, <2>1 DEF TypeOK
  <2> QED
    BY <2>1, <2>2
<1> QED
  BY <1>1, <1>2, MessageSteps DEF Looks, FailObject

LEMMA DuplicateStep ==
  ASSUME DuplicateInv, [Next]_vars
  PROVE  DuplicateInv'
<1>1. TypeInv /\ TypeInv' /\ TypeOK /\ NoObject.kind \notin Named
  BY HubTypeStep DEF DuplicateInv, TypeInv, Named, NoObject, Object
<1>2. /\ log \in Seq(Objects) /\ log' \in Seq(Objects) /\ Prefix(log, log')
      /\ Len(log) \in Nat /\ DOMAIN log = 1..Len(log)
      /\ \A c \in Clients : storing[c].looked \in Nat /\ storing[c].looked <= Len(log)
      /\ \A j \in DOMAIN log : log[j].looked \in Nat /\ log[j].looked < j
  BY <1>1, LogGrows
<1>3. ASSUME NEW c \in Clients, storing'[c].kind \in Named
      PROVE  Unseen(log', storing'[c], storing'[c].looked)
  <2>1. CASE storing'[c] = storing[c]
    BY <1>2, <1>3, <2>1, UnseenKept DEF DuplicateInv, Looked
  <2>2. CASE storing'[c] = NoObject
    BY <1>1, <1>3, <2>2
  <2>3. CASE /\ log' = log /\ storing'[c] \in Objects /\ storing'[c].looked = Len(log)
             /\ ~Has(storing'[c].kind, storing'[c].of, storing'[c].name)
    BY <1>1, <2>3, UnseenIfNotHas
  <2> QED
    BY <1>1, <1>3, <2>1, <2>2, <2>3, HoldSteps
<1>4. ASSUME NEW j \in DOMAIN log', log'[j].kind \in Named
      PROVE  Unseen(log', log'[j], log'[j].looked)
  <2>1. CASE j \in DOMAIN log /\ log'[j] = log[j]
    <3>1. Unseen(log, log[j], log[j].looked)
      BY <1>4, <2>1 DEF DuplicateInv, Logged
    <3> QED
      BY <1>2, <2>1, <3>1, UnseenKept
  <2>2. ASSUME NEW c \in Clients, log'[j] = storing[c]
        PROVE  Unseen(log', log'[j], log'[j].looked)
    BY <1>2, <1>4, <2>2, UnseenKept DEF DuplicateInv, Looked
  <2> QED
    BY <1>1, <2>1, <2>2, LogSteps
<1> QED
  BY <1>1, <1>3, <1>4 DEF DuplicateInv, Looked, Logged

-----------------------------------------------------------------------------
\* Events

\* The events of a trace among so many messages of a log.
EventsIn(l, trace, j) == {k \in 1..j : l[k].kind = "event" /\ l[k].of = trace}

\* An event's number is at most one more than the events its handler could count, and
\* above that of each event before if the query returned all there were.
Numbered(l, o) ==
  /\ o.name \in Nat /\ o.name <= Cardinality(EventsIn(l, o.of, o.looked)) + 1
  /\ \A i \in 1..o.looked :
       /\ l[i].kind = "event" /\ l[i].of = o.of
       /\ Cardinality(Within(l, "event", 0, o.looked)) <= Limit
       => l[i].name < o.name

HeldNumbers == \A c \in Clients : storing[c].kind = "event" => Numbered(log, storing[c])
LogNumbers == \A j \in DOMAIN log : log[j].kind = "event" => Numbered(log, log[j])
EventInv == TypeInv /\ HeldNumbers /\ LogNumbers

LEMMA EventsInCount ==
  ASSUME NEW l, NEW trace, NEW i \in Nat, NEW j \in Nat, i <= j
  PROVE  /\ Cardinality(EventsIn(l, trace, i)) \in Nat
         /\ Cardinality(EventsIn(l, trace, j)) \in Nat
         /\ Cardinality(EventsIn(l, trace, i)) <= Cardinality(EventsIn(l, trace, j))
<1>1. EventsIn(l, trace, i) \subseteq EventsIn(l, trace, j) /\ EventsIn(l, trace, j) \subseteq 0..j
  BY DEF EventsIn
<1>2. IsFiniteSet(EventsIn(l, trace, j)) /\ Cardinality(EventsIn(l, trace, j)) \in Nat
  BY <1>1, CountType
<1>3. EventsIn(l, trace, i) \subseteq 0..j
  BY <1>1
<1>4. Cardinality(EventsIn(l, trace, i)) \in Nat
  BY <1>3, CountType
<1> QED
  BY <1>1, <1>2, <1>4, FS_Subset

LEMMA NumberedKept ==
  ASSUME NEW l \in Seq(Objects), NEW m \in Seq(Objects), Prefix(l, m),
         NEW o, o.looked \in Nat, o.looked <= Len(l), Numbered(l, o)
  PROVE  Numbered(m, o)
<1>1. Len(l) \in Nat /\ \A i \in 1..o.looked : m[i] = l[i]
  BY DEF Prefix
<1>2. EventsIn(m, o.of, o.looked) = EventsIn(l, o.of, o.looked)
  BY <1>1 DEF EventsIn
<1>3. Within(m, "event", 0, o.looked) = Within(l, "event", 0, o.looked)
  BY <1>1, WithinKept
<1> QED
  BY <1>1, <1>2, <1>3 DEF Numbered

\* If a query returns every event, the handler counts every event of its trace.
LEMMA AllCounted ==
  ASSUME TypeOK, NEW trace, Cardinality(Within(log, "event", 0, Len(log))) <= Limit
  PROVE  Counted(trace) = EventsIn(log, trace, Len(log))
<1> DEFINE all == Within(log, "event", 0, Len(log))
<1>1. Len(log) \in Nat /\ DOMAIN log = 1..Len(log) /\ Limit \in Nat
  BY HubAssumption DEF TypeOK
<1>2. all \subseteq 0..Len(log)
  BY <1>1 DEF Within
<1>3. IsFiniteSet(all) /\ Cardinality(all) \in Nat
  BY <1>1, <1>2, CountType
<1>4. ASSUME NEW k \in 1..Len(log), log[k].kind = "event"
      PROVE  k \in Latest("event")
  <2> DEFINE later == {j \in (k + 1)..Len(log) : log[j].kind = "event"}
  <2>1. later \subseteq all /\ k \in all /\ k \notin later
    BY <1>1, <1>4 DEF Within
  <2>2. later \subseteq 0..Len(log)
    BY <1>1
  <2> HIDE DEF later, all
  <2>3. Cardinality(later) \in Nat
    BY <1>1, <2>2, CountType
  <2>4. Cardinality(later) <= Cardinality(all) /\ Cardinality(later) # Cardinality(all)
    BY <1>3, <2>1, FS_Subset
  <2>5. Cardinality(later) < Limit
    BY <1>1, <1>3, <2>3, <2>4 DEF all
  <2> QED
    BY <1>1, <1>4, <2>5 DEF later, Latest
<1> QED
  BY <1>1, <1>4 DEF Counted, EventsIn, Latest

LEMMA NumberedIfCounted ==
  ASSUME EventInv, NEW o \in Objects, o.kind = "event", o.looked = Len(log),
         o.name = Cardinality(Counted(o.of)) + 1
  PROVE  Numbered(log, o)
<1>1. TypeOK /\ log \in Seq(Objects) /\ Len(log) \in Nat /\ DOMAIN log = 1..Len(log)
  BY DEF EventInv, TypeInv, TypeOK
<1>2. Counted(o.of) \subseteq EventsIn(log, o.of, Len(log))
  BY <1>1 DEF Counted, EventsIn, Latest
<1>3. Cardinality(EventsIn(log, o.of, Len(log))) \in Nat
  BY <1>1, EventsInCount
<1>4. EventsIn(log, o.of, Len(log)) \subseteq 0..Len(log)
  BY <1>1 DEF EventsIn
<1>5. IsFiniteSet(EventsIn(log, o.of, Len(log)))
  BY <1>1, <1>4, CountType
<1>6. /\ Cardinality(Counted(o.of)) \in Nat
      /\ Cardinality(Counted(o.of)) <= Cardinality(EventsIn(log, o.of, Len(log)))
  <2>1. Counted(o.of) \subseteq 0..Len(log)
    BY <1>2, <1>4
  <2> QED
    BY <1>1, <1>2, <1>5, <2>1, CountType, FS_Subset
<1>7. ASSUME NEW i \in 1..Len(log), log[i].kind = "event", log[i].of = o.of,
             Cardinality(Within(log, "event", 0, Len(log))) <= Limit
      PROVE  log[i].name < o.name
  <2>1. Counted(o.of) = EventsIn(log, o.of, Len(log))
    BY <1>1, <1>7, AllCounted
  <2>2. log[i].looked \in Nat /\ log[i].looked < i
    BY <1>1, MessageIsObject
  <2>3. /\ log[i].name \in Nat
        /\ log[i].name <= Cardinality(EventsIn(log, o.of, log[i].looked)) + 1
    BY <1>1, <1>7 DEF EventInv, LogNumbers, Numbered
  <2>4. EventsIn(log, o.of, log[i].looked) \subseteq EventsIn(log, o.of, i)
        /\ i \in EventsIn(log, o.of, i) /\ i \notin EventsIn(log, o.of, log[i].looked)
    BY <1>1, <1>7, <2>2 DEF EventsIn
  <2>5. EventsIn(log, o.of, i) \subseteq 0..i
    BY <1>1 DEF EventsIn
  <2>6. IsFiniteSet(EventsIn(log, o.of, i)) /\ Cardinality(EventsIn(log, o.of, i)) \in Nat
    BY <1>1, <2>5, CountType
  <2>7. /\ Cardinality(EventsIn(log, o.of, log[i].looked)) \in Nat
        /\ Cardinality(EventsIn(log, o.of, i)) <= Cardinality(EventsIn(log, o.of, Len(log)))
    BY <1>1, <2>2, EventsInCount
  <2>8. Cardinality(EventsIn(log, o.of, log[i].looked)) < Cardinality(EventsIn(log, o.of, i))
    BY <2>4, <2>6, <2>7, FS_Subset
  <2> QED
    BY <1>3, <2>1, <2>3, <2>6, <2>7, <2>8
<1> QED
  BY <1>1, <1>3, <1>6, <1>7 DEF Numbered

LEMMA EventStep ==
  ASSUME EventInv, [Next]_vars
  PROVE  EventInv'
<1>1. TypeInv /\ TypeInv' /\ NoObject.kind # "event"
  BY HubTypeStep DEF EventInv, NoObject, Object
<1>2. /\ log \in Seq(Objects) /\ log' \in Seq(Objects) /\ Prefix(log, log')
      /\ Len(log) \in Nat /\ DOMAIN log = 1..Len(log)
      /\ \A c \in Clients : storing[c].looked \in Nat /\ storing[c].looked <= Len(log)
      /\ \A j \in DOMAIN log : log[j].looked \in Nat /\ log[j].looked < j
  BY <1>1, LogGrows
<1>3. ASSUME NEW c \in Clients, storing'[c].kind = "event"
      PROVE  Numbered(log', storing'[c])
  <2>1. CASE storing'[c] = storing[c]
    BY <1>2, <1>3, <2>1, NumberedKept DEF EventInv, HeldNumbers
  <2>2. CASE storing'[c] = NoObject
    BY <1>1, <1>3, <2>2
  <2>3. CASE /\ log' = log /\ storing'[c] \in Objects /\ storing'[c].looked = Len(log)
             /\ storing'[c].name = Cardinality(Counted(storing'[c].of)) + 1
    BY <1>3, <2>3, NumberedIfCounted
  <2> QED
    BY <1>1, <1>3, <2>1, <2>2, <2>3, HoldSteps
<1>4. ASSUME NEW j \in DOMAIN log', log'[j].kind = "event"
      PROVE  Numbered(log', log'[j])
  <2>1. CASE j \in DOMAIN log /\ log'[j] = log[j]
    <3>1. Numbered(log, log[j])
      BY <1>4, <2>1 DEF EventInv, LogNumbers
    <3> QED
      BY <1>2, <2>1, <3>1, NumberedKept
  <2>2. ASSUME NEW c \in Clients, log'[j] = storing[c]
        PROVE  Numbered(log', log'[j])
    BY <1>2, <1>4, <2>2, NumberedKept DEF EventInv, HeldNumbers
  <2> QED
    BY <1>1, <2>1, <2>2, LogSteps
<1> QED
  BY <1>1, <1>3, <1>4 DEF EventInv, HeldNumbers, LogNumbers

-----------------------------------------------------------------------------
\* Runs

IsRun(o) == o.kind = "run"

\* One message or one client that will store it for each run made through the API.
RunInv ==
  /\ TypeInv
  /\ \A i \in DOMAIN log : IsRun(log[i]) =>
       /\ log[i].of \in runs
       /\ \A j \in DOMAIN log : IsRun(log[j]) /\ log[j].of = log[i].of => i = j
  /\ \A c \in Clients : IsRun(storing[c]) =>
       /\ \A i \in DOMAIN log : IsRun(log[i]) => log[i].of # storing[c].of
       /\ \A d \in Clients : IsRun(storing[d]) /\ storing[d].of = storing[c].of => c = d
  /\ \A a \in told : \E i \in DOMAIN log : IsRun(log[i]) /\ a = <<log[i].of, log[i].name>>

LEMMA RunStep ==
  ASSUME RunInv, [Next]_vars
  PROVE  RunInv'
<1>1. TypeInv /\ TypeInv' /\ TypeOK /\ TypeOK' /\ runs \subseteq runs' /\ ~IsRun(NoObject)
  BY HubTypeStep DEF RunInv, TypeInv, IsRun, NoObject, Object
<1>2. /\ Len(log) \in Nat /\ DOMAIN log = 1..Len(log) /\ DOMAIN log' = 1..Len(log')
      /\ Prefix(log, log')
  BY <1>1, LogGrows
<1>3. CASE log' = log /\ storing' = storing /\ told' = told
  BY <1>1, <1>3 DEF RunInv
<1>4. ASSUME NEW c \in Clients, FailObject(c)
      PROVE  RunInv'
  <2>1. log' = log /\ told' = told /\ runs' = runs
    BY <1>4 DEF FailObject, taskVars
  <2>2. \A d \in Clients : IsRun(storing'[d]) => d # c /\ storing'[d] = storing[d]
    BY <1>1, <1>4 DEF FailObject, TypeOK
  <2> QED
    BY <1>1, <2>1, <2>2 DEF RunInv
<1>5. ASSUME NEW c \in Clients, Looks(c)
      PROVE  RunInv'
  <2>1. log' = log /\ told' = told
    BY <1>5 DEF Looks
  <2>2. PICK kind \in Kinds, of \in Owners, name \in Nat \cup Names :
          Look(c, kind, of, name) /\ (kind = "run" => of \notin runs)
    BY <1>5 DEF Looks
  <2>3. /\ storing'[c].kind = kind /\ storing'[c].of = of
        /\ \A d \in Clients \ {c} : storing'[d] = storing[d]
    BY <1>1, <2>2, LookStores
  <2>4. IsRun(storing'[c]) =>
          /\ \A i \in DOMAIN log : IsRun(log[i]) => log[i].of # storing'[c].of
          /\ \A d \in Clients \ {c} : IsRun(storing[d]) => storing[d].of # storing'[c].of
    BY <1>1, <2>2, <2>3 DEF RunInv, TypeInv, Holds, IsRun
  <2> QED
    BY <1>1, <2>1, <2>3, <2>4 DEF RunInv
<1>6. ASSUME NEW c \in Clients, StoreObject(c)
      PROVE  RunInv'
  <2>1. /\ Len(log') = Len(log) + 1 /\ log'[Len(log) + 1] = storing[c]
        /\ \A i \in 1..Len(log) : log'[i] = log[i]
    BY <1>1, <1>6, StoreAppends
  <2>2. \A d \in Clients : IsRun(storing'[d]) => d # c /\ storing'[d] = storing[d]
    BY <1>1, <1>6 DEF StoreObject, TypeOK
  <2>3. \A i \in DOMAIN log' : i = Len(log) + 1 \/ (i \in DOMAIN log /\ log'[i] = log[i])
    BY <1>2, <2>1
  <2>4. \A i \in DOMAIN log' : IsRun(log'[i]) =>
          /\ log'[i].of \in runs'
          /\ \A j \in DOMAIN log' : IsRun(log'[j]) /\ log'[j].of = log'[i].of => i = j
    BY <1>1, <2>1, <2>3 DEF RunInv, TypeInv, Holds, IsRun
  <2>5. \A d \in Clients : IsRun(storing'[d]) =>
          /\ \A i \in DOMAIN log' : IsRun(log'[i]) => log'[i].of # storing'[d].of
          /\ \A e \in Clients : IsRun(storing'[e]) /\ storing'[e].of = storing'[d].of => d = e
    BY <2>1, <2>2, <2>3 DEF RunInv
  <2>6. \A a \in told' : a \in told \/ (IsRun(storing[c]) /\ a = <<storing[c].of, storing[c].name>>)
    BY <1>6 DEF StoreObject, IsRun
  <2>7. \A a \in told' : \E i \in DOMAIN log' : IsRun(log'[i]) /\ a = <<log'[i].of, log'[i].name>>
    BY <1>2, <2>1, <2>6 DEF RunInv
  <2> QED
    BY <1>1, <2>4, <2>5, <2>7 DEF RunInv
<1> QED
  BY <1>1, <1>3, <1>4, <1>5, <1>6, MessageSteps

LEMMA RunsImplied == RunInv => RunsKeepTheirScene
<1> SUFFICES ASSUME RunInv PROVE RunsKeepTheirScene
  OBVIOUS
<1>1. DOMAIN log = 1..Len(log) /\ Len(log) \in Nat
  BY DEF RunInv, TypeInv, TypeOK
<1>2. \A a, b \in told : a[1] = b[1] => a = b
  BY DEF RunInv
<1>3. ASSUME NEW a \in told, NEW i \in DOMAIN log, log[i].kind = "run", log[i].of = a[1],
             Cardinality(Between("run", i, Len(log))) < Limit
      PROVE  Shown(a[1]) = {a[2]}
  <2>1. i \in Latest("run")
    BY <1>1, <1>3 DEF Latest, Between
  <2>2. log[i].name = a[2]
    BY <1>3 DEF RunInv, IsRun
  <2>3. \A j \in Latest("run") : log[j].of = a[1] => j = i
    BY <1>3 DEF RunInv, IsRun, Latest
  <2> QED
    BY <1>3, <2>1, <2>2, <2>3 DEF Shown
<1> QED
  BY <1>2, <1>3 DEF RunsKeepTheirScene

-----------------------------------------------------------------------------
\* Batches and chains

\* The tasks of a batch or chain are of its run and name it and their places in it.
ItemsRight(c) ==
  \A i \in 1..Len(c.items) : tasks[c.items[i]] = [run |-> c.run, group |-> c.id, index |-> i]
Lists(c, t) ==
  /\ c.id = tasks[t].group /\ tasks[t].index \in 1..Len(c.items)
  /\ c.items[tasks[t].index] = t
\* A task that names a batch or chain is listed there, or the request has failed.
Listed(t) ==
  tasks[t].group # 0 =>
    \/ \E c \in groups : Lists(c, t)
    \/ \E m \in Makers : Lists(making[m], t)
    \/ tasks[t].group \in failed

GroupInv ==
  /\ TasksTypeOK
  /\ \A c \in groups : Len(c.items) = c.size /\ ItemsRight(c)
  /\ \A m \in Makers : Busy(m) => ItemsRight(making[m])
  /\ \A t \in TaskIds : Listed(t)

LEMMA GroupsImplied == GroupInv => GroupsWhole
<1> SUFFICES ASSUME GroupInv PROVE GroupsWhole
  OBVIOUS
<1>1. ASSUME NEW c \in groups
      PROVE  /\ Len(c.items) = c.size /\ Ready(c) \subseteq DOMAIN c.items
             /\ \A i \in 1..c.size :
                  tasks[c.items[i]] = [run |-> c.run, group |-> c.id, index |-> i]
  <2>1. c.items \in Seq(TaskIds) /\ c.size \in Nat \ {0}
    BY TasksAssumption DEF GroupInv, TasksTypeOK, Groups
  <2>2. Len(c.items) = c.size /\ DOMAIN c.items = 1..c.size
    BY <2>1 DEF GroupInv
  <2> QED
    BY <2>1, <2>2 DEF GroupInv, ItemsRight, Ready
<1>2. ASSUME NEW t \in TaskIds, tasks[t].group # 0
      PROVE  \/ \E c \in groups : c.id = tasks[t].group /\ c.items[tasks[t].index] = t
             \/ \E m \in Makers : making[m].id = tasks[t].group
             \/ tasks[t].group \in failed
  BY <1>2 DEF GroupInv, Listed, Lists
<1> QED
  BY <1>1, <1>2 DEF GroupsWhole

\* A new task leaves the tasks that are listed as they are.
LEMMA ItemsKept ==
  ASSUME NEW c, c.items \in Seq(TaskIds), ItemsRight(c), \A t \in TaskIds : tasks'[t] = tasks[t]
  PROVE  \A i \in 1..Len(c.items) :
           tasks'[c.items[i]] = [run |-> c.run, group |-> c.id, index |-> i]
BY ElementOfSeq DEF ItemsRight

LEMMA GroupStep ==
  ASSUME GroupInv, [Next]_vars
  PROVE  GroupInv'
<1>1. TasksTypeOK /\ TasksTypeOK' /\ begun \in Nat /\ NoGroup.items = <<>> /\ NoGroup.id = 0
  BY TasksTypeStep DEF GroupInv, TasksTypeOK, NoGroup
<1>2. /\ \A c \in groups : c \in Groups /\ c.items \in Seq(TaskIds)
      /\ \A m \in Makers : Busy(m) => making[m] \in Groups /\ making[m].items \in Seq(TaskIds)
      /\ \A m \in Makers : making[m].items \in Seq(TaskIds) /\ Len(making[m].items) \in Nat
  <2>1. \A c \in Groups : c.items \in Seq(TaskIds) /\ Len(c.items) \in Nat
    BY DEF Groups
  <2>2. NoGroup.items \in Seq(TaskIds) /\ Len(NoGroup.items) \in Nat
    BY <1>1
  <2> QED
    BY <1>1, <2>1, <2>2, MakingShape DEF TasksTypeOK
<1>3. CASE UNCHANGED <<tasks, groups, making, failed>>
  BY <1>1, <1>3 DEF GroupInv, ItemsRight, Listed, Lists, Busy, TaskIds
<1>4. ASSUME NEW run \in Runs, CreateTask(run)
      PROVE  GroupInv'
  <2>1. Store(run, 0, 0) /\ UNCHANGED <<runs, groups, making, failed, begun>>
    BY <1>4 DEF CreateTask
  <2>2. /\ \A t \in TaskIds : tasks'[t] = tasks[t]
        /\ TaskIds' = TaskIds \cup {Len(tasks) + 1}
        /\ tasks'[Len(tasks) + 1] = [run |-> run, group |-> 0, index |-> 0]
    <3>1. 0 \in 0..begun /\ 0 \in Nat
      BY <1>1
    <3> QED
      BY <1>1, <2>1, <3>1, StoreType
  <2>3. \A c \in groups : ItemsRight(c)'
    BY <1>2, <2>2, ItemsKept DEF GroupInv, ItemsRight
  <2>4. \A m \in Makers : Busy(m)' => ItemsRight(making[m])'
    BY <1>2, <2>1, <2>2, ItemsKept DEF GroupInv, ItemsRight, Busy
  <2>5. \A t \in TaskIds' : Listed(t)'
    BY <2>1, <2>2 DEF GroupInv, Listed, Lists
  <2> QED
    BY <1>1, <2>1, <2>3, <2>4, <2>5 DEF GroupInv
<1>5. ASSUME NEW m \in Makers, NEW run \in Runs, NEW chain \in BOOLEAN, NEW parallel \in BOOLEAN,
             NEW size \in Sizes, BeginGroup(m, run, chain, parallel, size)
      PROVE  GroupInv'
  <2>1. tasks' = tasks /\ groups' = groups /\ failed' = failed /\ ~Busy(m)
    BY <1>5 DEF BeginGroup
  <2>2. /\ making'[m].items = <<>>
        /\ \A n \in Makers \ {m} : making'[n] = making[n]
    BY <1>1, <1>5 DEF BeginGroup, TasksTypeOK
  <2>3. \A n \in Makers : Busy(n)' => ItemsRight(making[n])'
    BY <2>1, <2>2 DEF GroupInv, ItemsRight, Busy
  <2>4. \A t \in TaskIds' : Listed(t)'
    BY <1>1, <2>1, <2>2 DEF GroupInv, Listed, Lists, Busy, TaskIds
  <2> QED
    BY <1>1, <2>1, <2>3, <2>4 DEF GroupInv, ItemsRight
<1>6. ASSUME NEW m \in Makers, MakeTask(m)
      PROVE  GroupInv'
  <2>0. PICK t, n : t = Len(tasks) + 1 /\ n = Len(making[m].items) + 1
    OBVIOUS
  <2>1. /\ Busy(m) /\ Store(making[m].run, making[m].id, n)
        /\ groups' = groups /\ failed' = failed /\ runs' = runs /\ begun' = begun
        /\ making' = [making EXCEPT ![m].items = Append(@, t)]
    BY <1>6, <2>0 DEF MakeTask
  <2>2. making[m] \in Groups /\ making[m].id \in 0..begun /\ n \in Nat /\ making[m].id # 0
    BY <1>1, <1>2, <2>0, <2>1 DEF Groups
  <2>3. /\ \A u \in TaskIds : tasks'[u] = tasks[u]
        /\ TaskIds' = TaskIds \cup {t}
        /\ tasks'[t] = [run |-> making[m].run, group |-> making[m].id, index |-> n]
    BY <1>1, <2>0, <2>1, <2>2, StoreType
  <2>4. /\ making'[m].items = Append(making[m].items, t)
        /\ making'[m].run = making[m].run /\ making'[m].id = making[m].id
        /\ \A k \in Makers \ {m} : making'[k] = making[k]
    BY <1>1, <2>1, <2>2 DEF TasksTypeOK, Groups
  <2>5. making[m].items \in Seq(Nat) /\ t \in Nat
    BY <1>1, <1>2, <2>0 DEF TasksTypeOK, TaskIds
  <2>6. /\ Len(making'[m].items) = n /\ making'[m].items[n] = t
        /\ \A i \in 1..Len(making[m].items) : making'[m].items[i] = making[m].items[i]
    BY <2>0, <2>4, <2>5, AppendProperties
  <2>7. \A c \in groups : ItemsRight(c)'
    BY <1>2, <2>3, ItemsKept DEF GroupInv, ItemsRight
  <2>8. ItemsRight(making[m])'
    <3>1. \A i \in 1..Len(making[m].items) :
            tasks'[making[m].items[i]] = [run |-> making[m].run, group |-> making[m].id, index |-> i]
      BY <1>2, <2>1, <2>3, ItemsKept DEF GroupInv
    <3>2. \A i \in 1..n : i = n \/ i \in 1..Len(making[m].items)
      BY <1>2, <2>0
    <3> QED
      BY <2>3, <2>4, <2>6, <3>1, <3>2 DEF ItemsRight
  <2>9. \A k \in Makers \ {m} : Busy(k)' => ItemsRight(making[k])'
    BY <1>2, <2>3, <2>4, ItemsKept DEF GroupInv, ItemsRight, Busy
  <2>10. Listed(t)'
    BY <2>2, <2>3, <2>4, <2>6 DEF Listed, Lists
  <2>11. \A u \in TaskIds : Listed(u)'
    <3>1. \A i \in 1..Len(making[m].items) : i \in 1..n
      BY <1>2, <2>0
    <3> QED
      BY <2>1, <2>3, <2>4, <2>6, <3>1 DEF GroupInv, Listed, Lists
  <2> QED
    BY <1>1, <2>1, <2>3, <2>7, <2>8, <2>9, <2>10, <2>11 DEF GroupInv
<1>7. ASSUME NEW m \in Makers, EndGroup(m)
      PROVE  GroupInv'
  <2>1. /\ tasks' = tasks /\ failed' = failed /\ groups' = groups \cup {making[m]} /\ Busy(m)
        /\ Len(making[m].items) = making[m].size
    BY <1>7 DEF EndGroup
  <2>2. making'[m] = NoGroup /\ \A k \in Makers \ {m} : making'[k] = making[k]
    BY <1>1, <1>7 DEF EndGroup, TasksTypeOK
  <2>3. \A c \in groups' : Len(c.items) = c.size /\ ItemsRight(c)'
    BY <2>1 DEF GroupInv, ItemsRight
  <2>4. \A k \in Makers : Busy(k)' => ItemsRight(making[k])'
    BY <2>1, <2>2 DEF GroupInv, ItemsRight, Busy
  <2>5. \A t \in TaskIds' : Listed(t)'
    BY <2>1, <2>2 DEF GroupInv, Listed, Lists, TaskIds
  <2> QED
    BY <1>1, <2>3, <2>4, <2>5 DEF GroupInv
<1>8. ASSUME NEW m \in Makers, FailGroup(m)
      PROVE  GroupInv'
  <2>1. /\ tasks' = tasks /\ groups' = groups /\ failed' = failed \cup {making[m].id}
    BY <1>8 DEF FailGroup
  <2>2. making'[m] = NoGroup /\ \A k \in Makers \ {m} : making'[k] = making[k]
    BY <1>1, <1>8 DEF FailGroup, TasksTypeOK
  <2>3. \A k \in Makers : Busy(k)' => ItemsRight(making[k])'
    BY <2>1, <2>2 DEF GroupInv, ItemsRight, Busy
  <2>4. \A t \in TaskIds' : Listed(t)'
    BY <2>1, <2>2 DEF GroupInv, Listed, Lists, TaskIds
  <2> QED
    BY <1>1, <2>1, <2>3, <2>4 DEF GroupInv, ItemsRight
<1> QED
  BY <1>3, <1>4, <1>5, <1>6, <1>7, <1>8, TaskStepKinds DEF AddRun, CreatePlan, taskVars

-----------------------------------------------------------------------------
\* TypeOK: tables, groups, messages and what requests hold keep their types.
THEOREM TypeCorrect == Spec => []TypeOK
<1>1. TypeInv => TypeOK
  BY DEF TypeInv
<1>2. TypeInv /\ [Next]_vars => TypeInv'
  BY HubTypeStep
<1> QED
  BY <1>1, <1>2, HubTypeStart, PTL DEF Spec

\* A stored chain or answered batch has all its tasks in order, and no task names one that
\* neither has it nor is being made nor has failed, for any makers and sizes.
THEOREM GroupsCorrect == Spec => []GroupsWhole
<1>1. Init => GroupInv
  BY TasksTypeStart
     DEF Init, TasksInit, GroupInv, TaskIds, Busy, Listed
<1>2. GroupInv /\ [Next]_vars => GroupInv'
  BY GroupStep
<1> QED
  BY <1>1, <1>2, GroupsImplied, PTL DEF Spec

\* Two objects of a name have one of the two causes, for any clients and any limit.
THEOREM DuplicatesCorrect == Spec => []DuplicatesHaveCause
<1>1. Init => DuplicateInv
  BY HubTypeStart DEF Init, DuplicateInv, Looked, Logged, NoObject, Object, Named
<1>2. DuplicateInv /\ [Next]_vars => DuplicateInv'
  BY DuplicateStep
<1>3. DuplicateInv => DuplicatesHaveCause
  <2> SUFFICES ASSUME DuplicateInv, NEW j \in DOMAIN log, log[j].kind \in Named,
                      NEW i \in 1..(j - 1), Same(log[i], log[j])
               PROVE  \/ log[j].looked < i
                      \/ Cardinality(Between(log[i].kind, i, log[j].looked)) >= Limit
    BY DEF DuplicatesHaveCause, Named
  <2>1. log[j].looked \in Nat /\ j \in Nat
    BY MessageIsObject DEF DuplicateInv, TypeInv, TypeOK
  <2>2. Unseen(log, log[j], log[j].looked)
    BY DEF DuplicateInv, Logged
  <2> QED
    BY <2>1, <2>2 DEF Unseen, Within, Between, Same
<1> QED
  BY <1>1, <1>2, <1>3, PTL DEF Spec

\* Later events have higher numbers as long as the query returns them all.
THEOREM EventsCorrect == Spec => []EventsInOrder
<1>1. Init => EventInv
  BY HubTypeStart DEF Init, EventInv, HeldNumbers, LogNumbers, NoObject, Object
<1>2. EventInv /\ [Next]_vars => EventInv'
  BY EventStep
<1>3. EventInv => EventsInOrder
  <2> SUFFICES ASSUME EventInv, NEW i \in DOMAIN log, NEW j \in DOMAIN log,
                      log[i].kind = "event", log[j].kind = "event", log[i].of = log[j].of,
                      i <= log[j].looked,
                      Cardinality(Between("event", 0, log[j].looked)) <= Limit
               PROVE  log[i].name < log[j].name
    BY DEF EventsInOrder
  <2>1. i \in 1..log[j].looked
    BY MessageIsObject DEF EventInv, TypeInv, TypeOK
  <2>2. Numbered(log, log[j])
    BY DEF EventInv, LogNumbers
  <2> QED
    BY <2>1, <2>2 DEF Numbered, Within, Between
<1> QED
  BY <1>1, <1>2, <1>3, PTL DEF Spec

\* An answered run has one message, which shows it in the scene asked for.
THEOREM RunsCorrect == Spec => []RunsKeepTheirScene
<1>1. Init => RunInv
  BY HubTypeStart DEF Init, RunInv, IsRun, NoObject, Object
<1>2. RunInv /\ [Next]_vars => RunInv'
  BY RunStep
<1> QED
  BY <1>1, <1>2, RunsImplied, PTL DEF Spec
=============================================================================
