--------------------------- MODULE RobotRegistry ---------------------------
(***************************************************************************)
(* Robots, their configurations and the executors that run them            *)
(* (src/backend/app/database_store.py, robot-configs and executors of      *)
(* main.py), beside the cache of the robots' states (RuntimeCache).        *)
(* create_executor looks for an active executor and inserts a row in one   *)
(* transaction, which at READ COMMITTED does not keep another one from     *)
(* doing the same; create_robot_config creates the executor first and in a *)
(* transaction of its own.  Robots and configurations have unique codes.   *)
(* Abstracted: the fields of a configuration but its executor, audits.     *)
(***************************************************************************)
EXTENDS RuntimeCache

CONSTANTS
  Admins,       \* threads of requests about configurations and executors
  Offered,      \* sets of what is asked for, or goes wrong, in one behaviour, and of the
                \* robots whose states are written in it
  MaxExecutors  \* bound: executors

ASSUME RegistryAssumption ==
  MaxExecutors \in Nat /\ IsFiniteSet(Default) /\ Cardinality(Default) <= MaxExecutors

Statuses == {"active", "binding", "stopped", "replaced"}

VARIABLES
  offered,   \* what is asked for, or goes wrong, in this behaviour
  executors, \* executor_instances, in order of creation
  configs,   \* robot_configs: the executor of a robot's configuration, see below
  admin,     \* admin[a]: the request a serves
  reported   \* history: robots whose row came from a report of theirs

vars == <<cacheVars, offered, executors, configs, admin, reported>>

\* A robot without a configuration, and a configuration without an executor.
NoConfig == -1
NoExecutor == 0
\* looked: how many executors there were when its creator looked; restarted: ever.
Executors ==
  [robot : Robots, status : Statuses, looked : 0..MaxExecutors, restarted : BOOLEAN]
NoRequest == [step |-> "none"]
Requests ==
  [step : {"insert", "config"}, robot : Robots, virtual : BOOLEAN, withConfig : BOOLEAN,
   hadConfig : BOOLEAN, looked : 0..MaxExecutors, executor : 0..MaxExecutors]

TypeOK ==
  /\ CacheTypeOK
  /\ offered \in Offered
  /\ executors \in Seq(Executors) /\ Len(executors) <= MaxExecutors
  /\ configs \in [Robots -> NoConfig..MaxExecutors]
  /\ admin \in [Admins -> {NoRequest} \cup Requests]
  /\ reported \subseteq Robots

DefaultRobots == SetToSeq(Default)

Init ==
  /\ CacheInit
  /\ offered \in Offered
  /\ executors = [i \in DOMAIN DefaultRobots |->
                    [robot |-> DefaultRobots[i], status |-> "active", looked |-> 0,
                     restarted |-> FALSE]]
  /\ configs = [r \in Robots |-> IF r \in Default THEN NoExecutor ELSE NoConfig]
  /\ admin = [a \in Admins |-> NoRequest]
  /\ reported = {}

-----------------------------------------------------------------------------
Active(r) == \E i \in DOMAIN executors : executors[i].robot = r /\ executors[i].status = "active"

\* Mutant: an executor of any status will do.
LookForAnother(a, r, virtual, withConfig) ==
  /\ admin[a] = NoRequest /\ Len(executors) < MaxExecutors
  /\ Active(r) => virtual
  /\ admin' = [admin EXCEPT ![a] =
       [step |-> "insert", robot |-> r, virtual |-> virtual, withConfig |-> withConfig,
        hadConfig |-> configs[r] # NoConfig, looked |-> Len(executors), executor |-> NoExecutor]]
  /\ UNCHANGED <<cacheVars, offered, executors, configs, reported>>

\* create_executor, 409: for a robot without an active executor; asked for by itself or by
\* a configuration that is to start or bind one.
LookForExecutor(a, r, virtual, withConfig) ==
  /\ admin[a] = NoRequest /\ Len(executors) < MaxExecutors
  /\ ~Active(r)
  /\ admin' = [admin EXCEPT ![a] =
       [step |-> "insert", robot |-> r, virtual |-> virtual, withConfig |-> withConfig,
        hadConfig |-> configs[r] # NoConfig, looked |-> Len(executors), executor |-> NoExecutor]]
  /\ UNCHANGED <<cacheVars, offered, executors, configs, reported>>

\* The transaction commits: a gateway is bound first; the configuration, if one was found
\* since the creator looked, names the new executor.
InsertExecutor(a) ==
  /\ admin[a].step = "insert" /\ Len(executors) < MaxExecutors
  /\ LET q == admin[a]
         id == Len(executors) + 1
     IN /\ executors' = Append(executors,
             [robot |-> q.robot, status |-> IF q.virtual THEN "active" ELSE "binding",
              looked |-> q.looked, restarted |-> FALSE])
        /\ \E found \in {q.hadConfig, configs[q.robot] # NoConfig} :
             configs' = IF found THEN [configs EXCEPT ![q.robot] = id] ELSE configs
        /\ admin' = [admin EXCEPT ![a] =
             IF q.withConfig THEN [q EXCEPT !.step = "config", !.executor = id] ELSE NoRequest]
  /\ UNCHANGED <<cacheVars, offered, reported>>

\* Mutant: a configuration does not make a robot.
ConfigureOnly(r, executor) ==
  /\ configs' = [configs EXCEPT ![r] = executor]
  /\ UNCHANGED <<cacheVars, offered, executors, reported>>

\* A configuration and, unless there is one, the row of the robot, which the cache is not
\* told of.
Configure(r, executor) ==
  /\ configs' = [configs EXCEPT ![r] = executor]
  /\ IF rows[r] = NoRow
     THEN /\ \E state \in RobotStates : rows' = [rows EXCEPT ![r] = state]
          /\ stale' = stale \cup {r}
     ELSE UNCHANGED <<rows, stale>>
  /\ UNCHANGED <<stored, cached, list, pending, offered, executors, reported>>

\* create_robot_config of mode config_only, 409 if there is a configuration.
CreateConfig(a, r) ==
  /\ admin[a] = NoRequest /\ configs[r] = NoConfig
  /\ Configure(r, NoExecutor)
  /\ UNCHANGED admin

\* Or after its executor was created.
CreateConfigFor(a) ==
  /\ admin[a].step = "config" /\ configs[admin[a].robot] = NoConfig
  /\ Configure(admin[a].robot, admin[a].executor)
  /\ admin' = [admin EXCEPT ![a] = NoRequest]

\* There is a configuration (409), or a transaction fails: an executor created before
\* remains, and is not named by any configuration.
FailRequest(a) ==
  /\ admin[a] # NoRequest
  /\ admin' = [admin EXCEPT ![a] = NoRequest]
  /\ UNCHANGED <<cacheVars, offered, executors, configs, reported>>

\* transition_executor: stop, restart and replace, whatever the status.
Transition(i, status) ==
  /\ i \in DOMAIN executors
  /\ executors' = [executors EXCEPT ![i].status = status,
                                    ![i].restarted = @ \/ status = "active"]
  /\ UNCHANGED <<cacheVars, offered, configs, admin, reported>>

\* create_robot, 409 if there is the robot: its row and a configuration, then the cache.
CreateRobot(w, r, state) ==
  /\ rows[r] = NoRow /\ rows' = [rows EXCEPT ![r] = state]
  /\ Begins(w, r, "cache", state, NoRow)
  /\ configs' = [configs EXCEPT ![r] = IF @ = NoConfig THEN NoExecutor ELSE @]
  /\ UNCHANGED <<stored, cached, list, offered, executors, admin, reported>>

\* A report is stored; it may be the first that is known of its robot.
StoreReport(w) ==
  /\ CommitRobot(w)
  /\ reported' = IF pending[w].read = NoRow THEN reported \cup {pending[w].robot} ELSE reported
  /\ UNCHANGED <<offered, executors, configs, admin>>

\* The default robots, configurations and executors are there already.
RestartAll ==
  /\ Restart
  /\ admin' = [a \in Admins |-> NoRequest]
  /\ UNCHANGED <<offered, executors, configs, reported>>

Asks(what) == what \in offered

AdminNext ==
  \/ \E a \in Admins :
       \/ \E r \in Robots :
            \/ \E virtual, withConfig \in BOOLEAN :
                 Asks(IF withConfig THEN "config" ELSE "executor")
                   /\ LookForExecutor(a, r, virtual, withConfig)
            \/ Asks("config_only") /\ CreateConfig(a, r)
       \/ InsertExecutor(a) \/ CreateConfigFor(a) \/ FailRequest(a)
  \/ Asks("transition") /\ \E i \in DOMAIN executors :
       \E status \in {"active", "stopped", "replaced"} : Transition(i, status)

WriterNext ==
  \E w \in Writers :
    \/ Asks("robot") /\ \E r \in Robots : Asks(r) /\ \E state \in RobotStates : CreateRobot(w, r, state)
    \/ StoreReport(w)
    \/ /\ \/ Asks("state") /\ \E r \in Robots : Asks(r) /\ \E state \in RobotStates : ReadRobot(w, r, state)
          \/ CommitFails(w) \/ SetRobot(w) \/ SetRobotFails(w) \/ Push(w)
          \/ Asks("message") /\ \E id \in Messages : StoreMessage(w, id)
       /\ UNCHANGED <<offered, executors, configs, admin, reported>>

Next ==
  \/ AdminNext \/ WriterNext
  \/ Asks("restart") /\ RestartAll
  \/ Asks("expiry") /\ Expire /\ UNCHANGED <<offered, executors, configs, admin, reported>>

Spec == Init /\ [][Next]_vars

-----------------------------------------------------------------------------
\* Two executors of a robot are active only if the second's creator looked before the first
\* was there, or if one of them was made active by a restart (create_executor,
\* transition_executor).
TwoActiveHaveCause ==
  \A i, j \in DOMAIN executors :
    /\ i < j /\ executors[i].robot = executors[j].robot
    /\ executors[i].status = "active" /\ executors[j].status = "active"
    => executors[j].looked < i \/ executors[i].restarted \/ executors[j].restarted

\* A robot that is configured exists, and one that exists is configured unless it was a
\* report that made it known, in whatever order requests for the two meet; and a
\* configuration names an executor of its own robot (create_robot, create_robot_config,
\* create_executor, upsert_robot_state).
ConfigsHaveRobots ==
  \A r \in Robots :
    /\ configs[r] # NoConfig => rows[r] # NoRow
    /\ rows[r] # NoRow /\ configs[r] = NoConfig => r \in reported
    /\ configs[r] > NoExecutor =>
         configs[r] \in DOMAIN executors /\ executors[configs[r]].robot = r
=============================================================================
