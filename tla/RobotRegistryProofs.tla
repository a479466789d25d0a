------------------------ MODULE RobotRegistryProofs ------------------------
(***************************************************************************)
(* What holds of RobotRegistry and RuntimeCache for any robots, writers,   *)
(* administrators, messages and limits.                                    *)
(***************************************************************************)
EXTENDS RobotRegistry, FiniteSetTheorems, TLAPS

-----------------------------------------------------------------------------
\* Types

\* The seeded executors, one of each default robot.
LEMMA DefaultOrder ==
  /\ DefaultRobots \in Seq(Default) /\ Len(DefaultRobots) <= MaxExecutors
  /\ \A i, j \in DOMAIN DefaultRobots : DefaultRobots[i] = DefaultRobots[j] => i = j
<1> DEFINE n == Cardinality(Default)
<1>1. IsFiniteSet(Default) /\ n \in Nat /\ n <= MaxExecutors
  BY RegistryAssumption, FS_CardinalityType
<1>2. PICK f : f \in Bijection(1..n, Default)
  BY <1>1, FS_CardinalityType DEF ExistsBijection
<1>3. f \in [1..n -> Default] /\ IsInjective(f)
  BY <1>2 DEF Bijection, Injection, IsInjective
<1>4. DefaultRobots \in [1..n -> Default] /\ IsInjective(DefaultRobots)
  BY <1>3 DEF DefaultRobots, SetToSeq
<1>5. DefaultRobots \in Seq(Default) /\ Len(DefaultRobots) = n /\ DOMAIN DefaultRobots = 1..n
  BY <1>1, <1>4
<1> QED
  BY <1>1, <1>4, <1>5 DEF IsInjective

LEMMA TypeStart == Init => TypeOK
<1> SUFFICES ASSUME Init
             PROVE  TypeOK
  OBVIOUS
<1> USE CacheAssumption, RegistryAssumption
<1>1. rows \in [Robots -> RobotRows] /\ cached \in [Robots -> RobotRows]
  BY DEF Init, CacheInit, RobotRows
<1>2. CacheTypeOK
  BY <1>1 DEF Init, CacheInit, CacheTypeOK
<1>3. executors \in Seq(Executors) /\ Len(executors) <= MaxExecutors
  <2>1. \A i \in DOMAIN DefaultRobots : DefaultRobots[i] \in Robots
    BY DefaultOrder
  <2>2. \A i \in DOMAIN DefaultRobots : executors[i] \in Executors
    BY <2>1 DEF Init, Executors, Statuses
  <2> QED
    BY <2>2, DefaultOrder DEF Init
<1>4. configs \in [Robots -> NoConfig..MaxExecutors]
  BY DEF Init, NoConfig, NoExecutor
<1> QED
  BY <1>2, <1>3, <1>4 DEF Init, TypeOK

LEMMA PendingShape ==
  ASSUME CacheTypeOK, NEW w \in Writers
  PROVE  /\ pending[w].what \in {"commit", "cache"} => pending[w] \in RobotWrites
         /\ pending[w].what = "message" => pending[w] \in MessageWrites
BY DEF CacheTypeOK, NoWrite, RobotWrites, MessageWrites

LEMMA PushKeepsType ==
  ASSUME CacheTypeOK, NEW id \in Messages
  PROVE  /\ Newest(<<id>> \o list) \in Seq(Messages)
         /\ Len(Newest(<<id>> \o list)) <= Keep
         /\ Newest(<<id>> \o list)[1] = id
         /\ \A i \in 2..Len(Newest(<<id>> \o list)) :
              i - 1 \in DOMAIN list /\ Newest(<<id>> \o list)[i] = list[i - 1]
<1> DEFINE s == <<id>> \o list
           n == IF Len(s) < Keep THEN Len(s) ELSE Keep
<1>1. s \in Seq(Messages) /\ Len(s) = Len(list) + 1 /\ s[1] = id
      /\ \A i \in 2..Len(s) : i - 1 \in DOMAIN list /\ s[i] = list[i - 1]
  BY DEF CacheTypeOK
<1>2. n \in 1..Len(s) /\ n <= Keep
  BY <1>1, CacheAssumption DEF CacheTypeOK
<1>3. SubSeq(s, 1, n) \in Seq(Messages) /\ Len(SubSeq(s, 1, n)) = n
      /\ \A i \in 1..n : SubSeq(s, 1, n)[i] = s[i]
  BY <1>1, <1>2
<1>4. Newest(s) = SubSeq(s, 1, n)
  BY DEF Newest
<1>5. n <= Len(s) /\ n >= 1 /\ n \in Int
  BY <1>1, <1>2
<1> HIDE DEF n, s
<1>6. /\ Newest(s) \in Seq(Messages) /\ Len(Newest(s)) <= Keep /\ Newest(s)[1] = id
      /\ \A i \in 2..Len(Newest(s)) : i - 1 \in DOMAIN list /\ Newest(s)[i] = list[i - 1]
  BY <1>1, <1>2, <1>3, <1>4, <1>5
<1> QED
  BY <1>6 DEF s

\* What a restart puts into the cache are messages of the table, none of them twice.
LEMMA NewestOfType ==
  ASSUME NEW ids \in SUBSET Messages, NEW s \in NewestOf(ids)
  PROVE  /\ s \in Seq(Messages) /\ Len(s) <= Keep /\ Range(s) \subseteq ids
         /\ \A i, j \in DOMAIN s : s[i] = s[j] => i = j
<1>1. PICK n \in 0..Keep : s \in [1..n -> ids]
  BY DEF NewestOf
<1>a. n \in Nat /\ n <= Keep
  BY CacheAssumption
<1>b. s \in Seq(ids)
  BY <1>1, <1>a
<1>2. s \in Seq(Messages) /\ Len(s) = n /\ DOMAIN s = 1..n /\ n \in Nat /\ n <= Keep
  BY <1>1, <1>a, <1>b
<1>3. \A i, j \in 1..n : i < j => s[i] > s[j]
  BY <1>2 DEF NewestOf
<1>4. \A i \in 1..n : s[i] \in Nat
  BY <1>1, CacheAssumption
<1>5. \A i, j \in 1..n : s[i] = s[j] => i = j
  BY <1>3, <1>4
<1>6. Range(s) \subseteq ids
  BY <1>1 DEF Range
<1> QED
  BY <1>2, <1>5, <1>6

\* A row that is written without the cache.
Seeded(r) ==
  /\ rows[r] = NoRow
  /\ \E state \in RobotStates : rows' = [rows EXCEPT ![r] = state]
  /\ stale' = stale \cup {r}
  /\ UNCHANGED <<stored, cached, list, pending>>

\* A row that is written by its creator.
Created(w, r, state) ==
  /\ rows[r] = NoRow /\ rows' = [rows EXCEPT ![r] = state]
  /\ Begins(w, r, "cache", state, NoRow)
  /\ UNCHANGED <<stored, cached, list>>

LEMMA ConfigureSeeds ==
  ASSUME NEW r, NEW e, Configure(r, e)
  PROVE  UNCHANGED cacheVars \/ Seeded(r)
BY DEF Configure, Seeded, cacheVars

\* What the steps do to the cache, the tables beside it and its writers.
LEMMA CacheStepKinds ==
  ASSUME TypeOK, [Next]_vars
  PROVE  \/ UNCHANGED cacheVars
         \/ \E w \in Writers, r \in Robots, state \in RobotStates :
              ReadRobot(w, r, state) \/ Created(w, r, state)
         \/ \E w \in Writers : CommitRobot(w) \/ CommitFails(w)
         \/ \E w \in Writers : SetRobot(w) \/ SetRobotFails(w) \/ Push(w)
         \/ \E w \in Writers, id \in Messages : StoreMessage(w, id)
         \/ Expire \/ Restart
         \/ \E r \in Robots : Seeded(r)
<1>1. ASSUME NEW a \in Admins, CreateConfigFor(a)
      PROVE  admin[a].robot \in Robots
  BY <1>1 DEF TypeOK, CreateConfigFor, NoRequest, Requests
<1>2. CASE AdminNext
  <2>1. ASSUME NEW a \in Admins, CreateConfigFor(a)
        PROVE  UNCHANGED cacheVars \/ \E r \in Robots : Seeded(r)
    BY <1>1, <2>1, ConfigureSeeds DEF CreateConfigFor
  <2>2. ASSUME NEW a \in Admins, NEW r \in Robots, CreateConfig(a, r)
        PROVE  UNCHANGED cacheVars \/ Seeded(r)
    BY <2>2, ConfigureSeeds DEF CreateConfig
  <2>3. ASSUME NEW a \in Admins, InsertExecutor(a)
        PROVE  UNCHANGED cacheVars
    BY <2>3 DEF InsertExecutor
  <2> QED
    BY <1>2, <2>1, <2>2, <2>3 DEF AdminNext, LookForExecutor, FailRequest, Transition
<1>3. CASE WriterNext
  BY <1>3 DEF WriterNext, CreateRobot, Created, StoreReport
<1>4. CASE UNCHANGED vars
  BY <1>4 DEF vars
<1> QED
  BY <1>2, <1>3, <1>4 DEF Next, RestartAll

\* Who is at work when another one begins.
LEMMA BeginsWrites ==
  ASSUME CacheTypeOK, NEW w \in Writers, NEW r \in Robots, NEW what \in {"commit", "cache"},
         NEW state \in RobotStates, NEW read \in RobotRows, Begins(w, r, what, state, read)
  PROVE  /\ pending'[w] = [what |-> what, robot |-> r, state |-> state, read |-> read,
                           alone |-> ~Pends(r)]
         /\ pending' \in [Writers -> {NoWrite} \cup RobotWrites \cup MessageWrites]
         /\ \A v \in Writers \ {w} :
              /\ Pending(v, r) => pending'[v] = [pending[v] EXCEPT !.alone = FALSE]
                                 /\ pending[v] \in RobotWrites
              /\ ~Pending(v, r) => pending'[v] = pending[v]
         /\ pending[w] = NoWrite
<1>1. /\ pending'[w] = [what |-> what, robot |-> r, state |-> state, read |-> read,
                        alone |-> ~Pends(r)]
      /\ pending[w] = NoWrite
  BY DEF Begins
<1>2. pending'[w] \in RobotWrites
  BY <1>1 DEF RobotWrites
<1>3. ASSUME NEW v \in Writers \ {w}
      PROVE  /\ Pending(v, r) => pending'[v] = [pending[v] EXCEPT !.alone = FALSE]
                                /\ pending[v] \in RobotWrites
             /\ ~Pending(v, r) => pending'[v] = pending[v]
  BY PendingShape DEF Begins, Pending
<1>4. ASSUME NEW v \in Writers \ {w}
      PROVE  pending'[v] \in {NoWrite} \cup RobotWrites \cup MessageWrites
  BY <1>3 DEF CacheTypeOK, RobotWrites
<1>5. pending' = [v \in Writers |-> pending'[v]]
  BY DEF Begins
<1> QED
  BY <1>1, <1>2, <1>3, <1>4, <1>5

\* A row that is overwritten in some columns is a row.
LEMMA OverwrittenType ==
  ASSUME CacheTypeOK, NEW w \in Writers, CommitRobot(w)
  PROVE  /\ pending[w] \in RobotWrites
         /\ Overwritten(rows[pending[w].robot], pending[w].read, pending[w].state) \in RobotStates
         /\ rows' = [rows EXCEPT ![pending[w].robot] =
                       Overwritten(rows[pending[w].robot], pending[w].read, pending[w].state)]
         /\ [pending[w] EXCEPT !.what = "cache"] \in RobotWrites
         /\ pending' = [pending EXCEPT ![w] = [pending[w] EXCEPT !.what = "cache"]]
<1>1. pending[w] \in RobotWrites
  BY PendingShape DEF CommitRobot
<1>2. (pending[w].read = NoRow) <=> (rows[pending[w].robot] = NoRow)
  BY DEF CommitRobot
<1>3. pending[w].read # NoRow => rows[pending[w].robot] \in RobotStates
  BY <1>1, <1>2 DEF RobotWrites, CacheTypeOK, RobotRows
<1>4. Overwritten(rows[pending[w].robot], pending[w].read, pending[w].state) \in RobotStates
  BY <1>1, <1>3 DEF Overwritten, RobotWrites, RobotStates
<1>5. /\ rows' = [rows EXCEPT ![pending[w].robot] =
                    Overwritten(rows[pending[w].robot], pending[w].read, pending[w].state)]
      /\ pending' = [pending EXCEPT ![w] = [pending[w] EXCEPT !.what = "cache"]]
  BY <1>1 DEF CommitRobot, RobotWrites, CacheTypeOK
<1>6. [pending[w] EXCEPT !.what = "cache"] \in RobotWrites
  BY <1>1 DEF RobotWrites
<1> QED
  BY <1>1, <1>4, <1>5, <1>6

LEMMA CacheTypeStep ==
  ASSUME TypeOK, [Next]_vars
  PROVE  CacheTypeOK'
<1> USE CacheAssumption
<1>1. CASE UNCHANGED cacheVars
  BY <1>1 DEF TypeOK, CacheTypeOK, cacheVars
<1>2. ASSUME NEW w \in Writers, NEW r \in Robots, NEW state \in RobotStates,
             ReadRobot(w, r, state) \/ Created(w, r, state)
      PROVE  CacheTypeOK'
  <2>1. pending' \in [Writers -> {NoWrite} \cup RobotWrites \cup MessageWrites]
    BY <1>2, BeginsWrites DEF TypeOK, CacheTypeOK, ReadRobot, Created, RobotRows
  <2>2. rows' \in [Robots -> RobotRows]
    BY <1>2 DEF TypeOK, CacheTypeOK, ReadRobot, Created, RobotRows
  <2> QED
    BY <1>2, <2>1, <2>2 DEF TypeOK, CacheTypeOK, ReadRobot, Created, Begins
<1>3. ASSUME NEW w \in Writers, SetRobot(w) \/ SetRobotFails(w)
      PROVE  CacheTypeOK'
  <2>1. pending[w] \in RobotWrites
    BY <1>3, PendingShape DEF TypeOK, SetRobot, SetRobotFails
  <2> QED
    BY <1>3, <2>1 DEF TypeOK, CacheTypeOK, SetRobot, SetRobotFails, RobotWrites, RobotRows
<1>4. ASSUME NEW w \in Writers, NEW id \in Messages, StoreMessage(w, id)
      PROVE  CacheTypeOK'
  BY <1>4 DEF TypeOK, CacheTypeOK, StoreMessage, MessageWrites
<1>5. ASSUME NEW w \in Writers, Push(w)
      PROVE  CacheTypeOK'
  <2>1. pending[w].id \in Messages
    BY <1>5, PendingShape DEF TypeOK, Push, MessageWrites
  <2>2. list' \in Seq(Messages) /\ Len(list') <= Keep
    BY <1>5, <2>1, PushKeepsType DEF TypeOK, CacheTypeOK, Push
  <2> QED
    BY <1>5, <2>2 DEF TypeOK, CacheTypeOK, Push
<1>6. CASE Expire
  BY <1>6 DEF TypeOK, CacheTypeOK, Expire, RobotRows
<1>7. CASE Restart
  <2>1. list' \in Seq(Messages) /\ Len(list') <= Keep
    BY <1>7, NewestOfType DEF TypeOK, CacheTypeOK, Restart
  <2> QED
    BY <1>7, <2>1 DEF TypeOK, CacheTypeOK, Restart
<1>8. ASSUME NEW r \in Robots, Seeded(r)
      PROVE  CacheTypeOK'
  BY <1>8 DEF TypeOK, CacheTypeOK, Seeded, RobotRows
<1>9. ASSUME NEW w \in Writers, CommitRobot(w)
      PROVE  CacheTypeOK'
  <2> DEFINE q == [pending[w] EXCEPT !.what = "cache"]
             row == Overwritten(rows[pending[w].robot], pending[w].read, pending[w].state)
  <2>1. q \in RobotWrites /\ pending' = [pending EXCEPT ![w] = q]
        /\ row \in RobotRows /\ rows' = [rows EXCEPT ![pending[w].robot] = row]
    BY <1>9, OverwrittenType DEF TypeOK, RobotRows
  <2> HIDE DEF q, row
  <2> QED
    BY <1>9, <2>1 DEF TypeOK, CacheTypeOK, CommitRobot
<1>10. ASSUME NEW w \in Writers, CommitFails(w)
       PROVE  CacheTypeOK'
  BY <1>10 DEF TypeOK, CacheTypeOK, CommitFails
<1> QED
  BY <1>1, <1>2, <1>3, <1>4, <1>5, <1>6, <1>7, <1>8, <1>9, <1>10, CacheStepKinds

LEMMA ExecutorTypeStep ==
  ASSUME TypeOK, [Next]_vars
  PROVE  /\ offered' \in Offered /\ reported' \subseteq Robots
         /\ executors' \in Seq(Executors) /\ Len(executors') <= MaxExecutors
         /\ Len(executors) <= Len(executors')
         /\ \A i \in DOMAIN executors :
              executors'[i].robot = executors[i].robot /\ executors'[i].looked = executors[i].looked
<1> DEFINE Goal ==
      /\ offered' \in Offered /\ reported' \subseteq Robots
      /\ executors' \in Seq(Executors) /\ Len(executors') <= MaxExecutors
      /\ Len(executors) <= Len(executors')
      /\ \A i \in DOMAIN executors :
           executors'[i].robot = executors[i].robot /\ executors'[i].looked = executors[i].looked
<1> USE RegistryAssumption DEF TypeOK
<1>1. CASE UNCHANGED <<offered, executors>> /\ reported' \subseteq Robots
  BY <1>1
<1>2. ASSUME NEW a \in Admins, InsertExecutor(a)
      PROVE  Goal
  <2> DEFINE new == [robot |-> admin[a].robot,
                     status |-> IF admin[a].virtual THEN "active" ELSE "binding",
                     looked |-> admin[a].looked, restarted |-> FALSE]
  <2>1. admin[a] \in Requests
    BY <1>2 DEF InsertExecutor, NoRequest
  <2>2. new \in Executors
    BY <2>1 DEF Requests, Executors, Statuses
  <2>3. executors' = Append(executors, new) /\ Len(executors) < MaxExecutors
    BY <1>2 DEF InsertExecutor
  <2> HIDE DEF new
  <2> QED
    BY <1>2, <2>2, <2>3 DEF InsertExecutor
<1>3. ASSUME NEW i, NEW status \in Statuses, Transition(i, status)
      PROVE  Goal
  <2> DEFINE new == [executors[i] EXCEPT !.status = status, !.restarted = @ \/ status = "active"]
  <2>1. i \in DOMAIN executors /\ executors[i] \in Executors
    BY <1>3 DEF Transition
  <2>2. new \in Executors /\ new.robot = executors[i].robot /\ new.looked = executors[i].looked
    BY <2>1 DEF Executors
  <2>3. executors' = [executors EXCEPT ![i] = new]
    BY <1>3, <2>1 DEF Transition
  <2> HIDE DEF new
  <2>4. executors' \in Seq(Executors) /\ Len(executors') = Len(executors)
    BY <2>1, <2>2, <2>3
  <2>5. \A j \in DOMAIN executors :
          executors'[j].robot = executors[j].robot /\ executors'[j].looked = executors[j].looked
    BY <2>1, <2>2, <2>3
  <2> QED
    BY <1>3, <2>4, <2>5 DEF Transition
<1>4. CASE AdminNext
  <2>1. ASSUME NEW a \in Admins,
               CreateConfigFor(a) \/ FailRequest(a) \/ \E r \in Robots : CreateConfig(a, r)
        PROVE  Goal
    BY <1>1, <2>1 DEF CreateConfigFor, FailRequest, CreateConfig, Configure
  <2>2. ASSUME NEW a \in Admins, NEW r \in Robots, NEW v \in BOOLEAN, NEW c \in BOOLEAN,
               LookForExecutor(a, r, v, c)
        PROVE  Goal
    BY <1>1, <2>2 DEF LookForExecutor
  <2> QED
    BY <1>2, <1>3, <1>4, <2>1, <2>2 DEF AdminNext, Statuses
<1>5. CASE WriterNext
  <2>1. ASSUME NEW w \in Writers, StoreReport(w)
        PROVE  reported' \subseteq Robots
    BY <2>1, PendingShape DEF StoreReport, CommitRobot, RobotWrites
  <2> QED
    BY <1>1, <1>5, <2>1 DEF WriterNext, CreateRobot, StoreReport
<1> QED
  BY <1>1, <1>4, <1>5 DEF Next, RestartAll, vars

LEMMA RequestGoesOn ==
  ASSUME NEW q \in Requests, NEW e \in 0..MaxExecutors
  PROVE  [q EXCEPT !.step = "config", !.executor = e] \in Requests
BY DEF Requests

LEMMA AdminTypeStep ==
  ASSUME TypeOK, [Next]_vars
  PROVE  /\ configs' \in [Robots -> NoConfig..MaxExecutors]
         /\ admin' \in [Admins -> {NoRequest} \cup Requests]
<1> DEFINE Goal == /\ configs' \in [Robots -> NoConfig..MaxExecutors]
                  /\ admin' \in [Admins -> {NoRequest} \cup Requests]
<1>1. Len(executors) \in Nat /\ Len(executors') \in Nat /\ Len(executors) <= Len(executors')
      /\ Len(executors') <= MaxExecutors /\ MaxExecutors \in Nat
  BY ExecutorTypeStep, RegistryAssumption DEF TypeOK
<1>3. CASE UNCHANGED <<configs, admin>>
  BY <1>3 DEF TypeOK
<1>4. ASSUME NEW a \in Admins, admin[a] # NoRequest
      PROVE  admin[a] \in Requests
  BY <1>4 DEF TypeOK
<1>5. ASSUME NEW a \in Admins, NEW r \in Robots, NEW v \in BOOLEAN, NEW c \in BOOLEAN,
             LookForExecutor(a, r, v, c)
      PROVE  Goal
  <2> DEFINE q == [step |-> "insert", robot |-> r, virtual |-> v, withConfig |-> c,
                   hadConfig |-> configs[r] # NoConfig, looked |-> Len(executors),
                   executor |-> NoExecutor]
  <2>1. q \in Requests
    BY <1>1 DEF Requests, NoExecutor
  <2> HIDE DEF q
  <2>2. admin' = [admin EXCEPT ![a] = q]
    BY <1>5 DEF LookForExecutor, q
  <2> QED
    BY <1>5, <2>1, <2>2 DEF TypeOK, LookForExecutor
<1>6. ASSUME NEW a \in Admins, InsertExecutor(a)
      PROVE  Goal
  <2> DEFINE id == Len(executors) + 1
             q == [admin[a] EXCEPT !.step = "config", !.executor = id]
  <2>1. admin[a] \in Requests /\ id \in 0..MaxExecutors
    BY <1>1, <1>4, <1>6 DEF InsertExecutor, NoRequest
  <2>2. q \in Requests
    BY <2>1, RequestGoesOn, Zenon
  <2>4. id \in NoConfig..MaxExecutors
    BY <1>1, <2>1 DEF NoConfig
  <2>3. /\ admin' = [admin EXCEPT ![a] = IF admin[a].withConfig THEN q ELSE NoRequest]
        /\ configs' = configs \/ configs' = [configs EXCEPT ![admin[a].robot] = id]
    BY <1>6 DEF InsertExecutor
  <2> HIDE DEF id, q
  <2> QED
    BY <2>2, <2>3, <2>4 DEF TypeOK
<1>7. ASSUME NEW r, NEW e \in 0..MaxExecutors, Configure(r, e)
      PROVE  configs' \in [Robots -> NoConfig..MaxExecutors]
  <2>1. e \in NoConfig..MaxExecutors
    BY <1>1 DEF NoConfig
  <2> QED
    BY <1>7, <2>1 DEF Configure, TypeOK
<1>8. ASSUME NEW a \in Admins, CreateConfigFor(a) \/ FailRequest(a)
             \/ \E r \in Robots : CreateConfig(a, r)
      PROVE  Goal
  <2>1. CASE FailRequest(a)
    BY <2>1 DEF FailRequest, TypeOK
  <2>2. CASE CreateConfigFor(a)
    <3>1. admin[a].executor \in 0..MaxExecutors
      BY <1>4, <2>2 DEF CreateConfigFor, NoRequest, Requests
    <3> QED
      BY <1>7, <2>2, <3>1 DEF CreateConfigFor, TypeOK
  <2>3. ASSUME NEW r \in Robots, CreateConfig(a, r)
        PROVE  Goal
    BY <1>1, <1>7, <2>3 DEF CreateConfig, NoExecutor, TypeOK
  <2> QED
    BY <1>8, <2>1, <2>2, <2>3
<1>9. CASE AdminNext
  BY <1>3, <1>5, <1>6, <1>8, <1>9 DEF AdminNext, Transition
<1>10. CASE WriterNext
  BY <1>1, <1>3, <1>10 DEF WriterNext, CreateRobot, StoreReport, TypeOK, NoConfig, NoExecutor
<1>11. CASE RestartAll
  BY <1>11 DEF RestartAll, TypeOK
<1> QED
  BY <1>3, <1>9, <1>10, <1>11 DEF Next, vars

LEMMA TypeStep == TypeOK /\ [Next]_vars => TypeOK'
BY CacheTypeStep, ExecutorTypeStep, AdminTypeStep DEF TypeOK

\* The variables have their types.
THEOREM TypeCorrect == Spec => []TypeOK
BY TypeStart, TypeStep, PTL DEF Spec

-----------------------------------------------------------------------------
\* The cache of the robots

InCall(w, r) == Pending(w, r) /\ pending[w].what = "cache"

\* A writer that is alone has read the row that is there still, or has stored all of its
\* state; one that is not has left word.
WriterInv ==
  \A w \in Writers, r \in Robots : Pending(w, r) =>
    /\ pending[w].alone => \A v \in Writers : Pending(v, r) => v = w
    /\ r \notin stale => pending[w].alone
    /\ pending[w].alone /\ pending[w].what = "commit" /\ pending[w].read # NoRow
         => rows[r] = pending[w].read
    /\ pending[w].alone /\ pending[w].what = "cache" => rows[r] = pending[w].state

CacheInv == WriterInv /\ CacheAgrees

LEMMA CacheStart == Init => CacheInv
BY DEF Init, CacheInit, CacheInv, WriterInv, CacheAgrees, Pending, NoWrite

\* Writers that go on as before keep the invariant where the tables are left alone.
LEMMA SameKeepsCache ==
  ASSUME CacheInv, rows' = rows, cached' = cached, stale' = stale,
         \A w \in Writers, r \in Robots :
           /\ Pending(w, r)' => Pending(w, r) /\ pending'[w] = pending[w]
           /\ InCall(w, r) => InCall(w, r)'
  PROVE  CacheInv'
<1>1. WriterInv'
  BY DEF CacheInv, WriterInv
<1>2. CacheAgrees'
  BY DEF CacheInv, CacheAgrees, InCall
<1> QED
  BY <1>1, <1>2 DEF CacheInv

LEMMA BeginsKeepsCache ==
  ASSUME TypeOK, CacheInv, NEW w \in Writers, NEW q \in Robots, NEW state \in RobotStates,
         ReadRobot(w, q, state) \/ Created(w, q, state)
  PROVE  CacheInv'
<1>1. PICK what \in {"commit", "cache"}, read \in RobotRows :
        /\ Begins(w, q, what, state, read) /\ cached' = cached
        /\ what = "commit" => rows' = rows /\ read = rows[q]
        /\ what = "cache" => rows' = [rows EXCEPT ![q] = state]
  BY DEF ReadRobot, Created, TypeOK, CacheTypeOK, RobotRows
<1>2. /\ pending'[w] = [what |-> what, robot |-> q, state |-> state, read |-> read,
                        alone |-> ~Pends(q)]
      /\ \A v \in Writers \ {w} :
           /\ Pending(v, q) => pending'[v] = [pending[v] EXCEPT !.alone = FALSE]
                              /\ pending[v] \in RobotWrites
           /\ ~Pending(v, q) => pending'[v] = pending[v]
      /\ pending[w] = NoWrite
  BY <1>1, BeginsWrites DEF TypeOK
<1>3. /\ Pending(w, q)' /\ \A r \in Robots \ {q} : ~Pending(w, r)'
      /\ \A r \in Robots : ~Pending(w, r)
  BY <1>2 DEF Pending, NoWrite
<1>4. \A v \in Writers \ {w} :
        /\ Pending(v, q) => /\ pending'[v].alone = FALSE /\ pending'[v].what = pending[v].what
                           /\ pending'[v].robot = pending[v].robot
        /\ ~Pending(v, q) => pending'[v] = pending[v]
  BY <1>2 DEF RobotWrites
<1>5. \A v \in Writers \ {w}, r \in Robots :
        (Pending(v, r)' <=> Pending(v, r)) /\ (InCall(v, r)' <=> InCall(v, r))
  BY <1>4 DEF Pending, InCall
<1>6. stale' = IF Pends(q) THEN stale \cup {q} ELSE stale
  BY <1>1 DEF Begins
<1>7. \A r \in Robots \ {q} : rows'[r] = rows[r]
  BY <1>1 DEF TypeOK, CacheTypeOK
<1>8. WriterInv'
  <2> SUFFICES ASSUME NEW v \in Writers, NEW r \in Robots, Pending(v, r)'
               PROVE  /\ pending'[v].alone => \A u \in Writers : Pending(u, r)' => u = v
                      /\ r \notin stale' => pending'[v].alone
                      /\ pending'[v].alone /\ pending'[v].what = "commit"
                           /\ pending'[v].read # NoRow => rows'[r] = pending'[v].read
                      /\ pending'[v].alone /\ pending'[v].what = "cache"
                           => rows'[r] = pending'[v].state
    BY DEF WriterInv
  <2>1. CASE v = w
    <3>1. r = q
      BY <1>3, <2>1
    <3>a. pending'[w].alone = ~Pends(q)
      BY <1>2
    <3>2. pending'[w].alone => \A u \in Writers \ {w} : ~Pending(u, q)'
      BY <1>5, <3>a DEF Pends
    <3>3. q \notin stale' => pending'[w].alone
      BY <1>6, <3>a
    <3>4. /\ what = "commit" => rows'[q] = read
          /\ what = "cache" => rows'[q] = state
      BY <1>1 DEF TypeOK, CacheTypeOK
    <3> QED
      BY <1>2, <2>1, <3>1, <3>2, <3>3, <3>4
  <2>2. CASE v # w /\ r = q
    <3>1. Pending(v, q) /\ pending'[v].alone = FALSE
      BY <1>4, <1>5, <2>2
    <3>2. q \in stale'
      BY <1>6, <3>1 DEF Pends
    <3> QED
      BY <2>2, <3>1, <3>2
  <2>3. CASE r # q
    <3>1. v # w /\ Pending(v, r) /\ ~Pending(v, q)
      BY <1>3, <1>5, <2>3 DEF Pending
    <3>2. pending'[v] = pending[v] /\ rows'[r] = rows[r] /\ (r \in stale' <=> r \in stale)
      BY <1>4, <1>6, <1>7, <2>3, <3>1
    <3>3. \A u \in Writers : Pending(u, r)' => Pending(u, r)
      BY <1>3, <1>5, <2>3
    <3> QED
      BY <3>1, <3>2, <3>3 DEF CacheInv, WriterInv
  <2> QED
    BY <2>1, <2>2, <2>3
<1>9. CacheAgrees'
  <2> SUFFICES ASSUME NEW r \in Robots, r \notin stale', \A v \in Writers : ~InCall(v, r)'
               PROVE  cached'[r] = rows'[r]
    BY DEF CacheAgrees, InCall
  <2>1. r \notin stale /\ \A v \in Writers : ~InCall(v, r)
    BY <1>3, <1>5, <1>6 DEF InCall
  <2>2. rows'[r] = rows[r]
    <3>1. CASE r # q
      BY <1>7, <3>1
    <3>2. CASE r = q
      <4>1. what # "cache"
        BY <1>2, <1>3, <3>2 DEF InCall
      <4> QED
        BY <1>1, <4>1
    <3> QED
      BY <3>1, <3>2
  <2> QED
    BY <1>1, <2>1, <2>2 DEF CacheInv, CacheAgrees, InCall
<1> QED
  BY <1>8, <1>9 DEF CacheInv

\* The commit of a writer that is alone makes the row what the writer wants.
LEMMA CommitKeepsCache ==
  ASSUME TypeOK, CacheInv, NEW w \in Writers, CommitRobot(w)
  PROVE  CacheInv'
<1>1. PICK q \in Robots, p \in RobotWrites, state \in RobotStates :
        /\ p = pending[w] /\ q = p.robot /\ state = p.state
        /\ rows' = [rows EXCEPT ![q] = Overwritten(rows[q], p.read, state)]
        /\ pending' = [pending EXCEPT ![w] = [p EXCEPT !.what = "cache"]]
  <2>1. /\ pending[w] \in RobotWrites
        /\ rows' = [rows EXCEPT ![pending[w].robot] =
                      Overwritten(rows[pending[w].robot], pending[w].read, pending[w].state)]
        /\ pending' = [pending EXCEPT ![w] = [pending[w] EXCEPT !.what = "cache"]]
    BY OverwrittenType DEF TypeOK
  <2>2. pending[w].robot \in Robots /\ pending[w].state \in RobotStates
    BY <2>1 DEF RobotWrites
  <2> QED
    BY <2>1, <2>2, Zenon
<1>2. p.what = "commit" /\ Pending(w, q) /\ cached' = cached /\ stale' = stale
  BY <1>1 DEF CommitRobot, Pending
<1>3. /\ pending'[w] = [p EXCEPT !.what = "cache"]
      /\ \A v \in Writers \ {w} : pending'[v] = pending[v]
  BY <1>1 DEF TypeOK, CacheTypeOK
<1>4. /\ pending'[w].what = "cache" /\ pending'[w].robot = q /\ pending'[w].state = state
      /\ pending'[w].alone = p.alone
  BY <1>1, <1>3 DEF RobotWrites
<1>5. /\ \A v \in Writers, r \in Robots : Pending(v, r)' <=> Pending(v, r)
      /\ \A v \in Writers \ {w}, r \in Robots : InCall(v, r)' <=> InCall(v, r)
      /\ InCall(w, q)' /\ \A r \in Robots \ {q} : ~Pending(w, r)
  BY <1>1, <1>2, <1>3, <1>4 DEF Pending, InCall
<1>6. p.alone => rows'[q] = state
  <2> SUFFICES ASSUME p.alone
               PROVE  Overwritten(rows[q], p.read, state) = state
    BY <1>1 DEF TypeOK, CacheTypeOK
  <2>1. p.read # NoRow => rows[q] = p.read
    BY <1>1, <1>2 DEF CacheInv, WriterInv
  <2>2. state = [c \in Columns |-> state[c]]
    BY DEF RobotStates
  <2> QED
    BY <2>1, <2>2 DEF Overwritten
<1>7. \A r \in Robots \ {q} : rows'[r] = rows[r]
  BY <1>1 DEF TypeOK, CacheTypeOK
<1>8. \A v \in Writers \ {w} : Pending(v, q) => ~pending[v].alone
  BY <1>2 DEF CacheInv, WriterInv
<1>9. WriterInv'
  <2> SUFFICES ASSUME NEW v \in Writers, NEW r \in Robots, Pending(v, r)'
               PROVE  /\ pending'[v].alone => \A u \in Writers : Pending(u, r)' => u = v
                      /\ r \notin stale' => pending'[v].alone
                      /\ pending'[v].alone /\ pending'[v].what = "commit"
                           /\ pending'[v].read # NoRow => rows'[r] = pending'[v].read
                      /\ pending'[v].alone /\ pending'[v].what = "cache"
                           => rows'[r] = pending'[v].state
    BY DEF WriterInv
  <2>1. /\ pending[v].alone => \A u \in Writers : Pending(u, r) => u = v
        /\ r \notin stale => pending[v].alone
    BY <1>5 DEF CacheInv, WriterInv
  <2>2. CASE v = w
    <3>1. r = q
      BY <1>5, <2>2
    <3> QED
      BY <1>1, <1>2, <1>4, <1>5, <1>6, <2>1, <2>2, <3>1
  <2>3. CASE v # w
    <3>1. pending'[v] = pending[v] /\ Pending(v, r)
      BY <1>3, <1>5, <2>3
    <3>2. CASE r = q
      BY <1>2, <1>5, <1>8, <2>1, <2>3, <3>1, <3>2
    <3>3. CASE r # q
      BY <1>2, <1>5, <1>7, <2>1, <3>1, <3>3 DEF CacheInv, WriterInv
    <3> QED
      BY <3>2, <3>3
  <2> QED
    BY <2>2, <2>3
<1>10. CacheAgrees'
  <2> SUFFICES ASSUME NEW r \in Robots, r \notin stale', \A v \in Writers : ~InCall(v, r)'
               PROVE  cached'[r] = rows'[r]
    BY DEF CacheAgrees, InCall
  <2>1. r # q
    BY <1>5
  <2>2. \A v \in Writers : ~InCall(v, r)
    BY <1>5, <2>1 DEF InCall
  <2> QED
    BY <1>2, <1>7, <2>1, <2>2 DEF CacheInv, CacheAgrees, InCall
<1> QED
  BY <1>9, <1>10 DEF CacheInv

LEMMA SetKeepsCache ==
  ASSUME TypeOK, CacheInv, NEW w \in Writers, SetRobot(w) \/ SetRobotFails(w)
  PROVE  CacheInv'
<1>1. \A v \in Writers, r \in Robots :
        Pending(v, r)' => v # w /\ Pending(v, r) /\ pending'[v] = pending[v]
  BY DEF SetRobot, SetRobotFails, Pending, NoWrite, TypeOK, CacheTypeOK
<1>2. PICK q \in Robots :
        q = pending[w].robot /\ pending[w] \in RobotWrites /\ InCall(w, q)
  BY PendingShape DEF SetRobot, SetRobotFails, RobotWrites, InCall, Pending, TypeOK
<1>3. \A v \in Writers, r \in Robots : InCall(v, r) /\ v # w => InCall(v, r)'
  BY DEF SetRobot, SetRobotFails, InCall, Pending, TypeOK, CacheTypeOK
<1>4. /\ rows' = rows
      /\ \A r \in Robots \ {q} : cached'[r] = cached[r] /\ (r \in stale' <=> r \in stale)
  BY <1>2 DEF SetRobot, SetRobotFails, TypeOK, CacheTypeOK
<1>5. pending[w].alone => pending[w].state = rows[q] /\ \A v \in Writers : Pending(v, q) => v = w
  BY <1>2 DEF CacheInv, WriterInv, InCall
<1>6. q \notin stale' => pending[w].alone
  BY <1>2 DEF SetRobot, SetRobotFails, CacheInv, WriterInv, InCall
<1>7. q \notin stale' => cached'[q] = rows'[q]
  BY <1>2, <1>5, <1>6 DEF SetRobot, SetRobotFails, TypeOK, CacheTypeOK
<1>8. WriterInv'
  <2> SUFFICES ASSUME NEW v \in Writers, NEW r \in Robots, Pending(v, r)'
               PROVE  /\ pending'[v].alone => \A u \in Writers : Pending(u, r)' => u = v
                      /\ r \notin stale' => pending'[v].alone
                      /\ pending'[v].alone /\ pending'[v].what = "commit"
                           /\ pending'[v].read # NoRow => rows'[r] = pending'[v].read
                      /\ pending'[v].alone /\ pending'[v].what = "cache"
                           => rows'[r] = pending'[v].state
    BY DEF WriterInv
  <2>1. v # w /\ Pending(v, r) /\ pending'[v] = pending[v]
    BY <1>1
  <2>2. r \notin stale' => r \notin stale
    <3>1. CASE r = q
      BY <1>5, <1>6, <2>1, <3>1
    <3>2. CASE r # q
      BY <1>4, <3>2
    <3> QED
      BY <3>1, <3>2
  <2> QED
    BY <1>1, <1>4, <2>1, <2>2 DEF CacheInv, WriterInv
<1>9. CacheAgrees'
  <2> SUFFICES ASSUME NEW r \in Robots, r # q, r \notin stale', \A v \in Writers : ~InCall(v, r)'
               PROVE  cached'[r] = rows'[r]
    BY <1>7 DEF CacheAgrees, InCall
  <2>1. \A v \in Writers : ~InCall(v, r)
    BY <1>2, <1>3 DEF InCall, Pending
  <2> QED
    BY <1>4, <2>1 DEF CacheInv, CacheAgrees, InCall
<1> QED
  BY <1>8, <1>9 DEF CacheInv

LEMMA CacheStep ==
  ASSUME TypeOK, CacheInv, [Next]_vars
  PROVE  CacheInv'
<1>1. CASE UNCHANGED cacheVars
  BY <1>1, SameKeepsCache DEF Pending, InCall, cacheVars
<1>2. ASSUME NEW w \in Writers, NEW id \in Messages, StoreMessage(w, id)
      PROVE  CacheInv'
  BY <1>2, SameKeepsCache DEF StoreMessage, Pending, InCall, NoWrite, TypeOK, CacheTypeOK
<1>3. ASSUME NEW w \in Writers, CommitFails(w) \/ Push(w)
      PROVE  CacheInv'
  BY <1>3, SameKeepsCache DEF CommitFails, Push, Pending, InCall, NoWrite, TypeOK, CacheTypeOK
<1>4. CASE Expire
  <2>1. /\ rows' = rows /\ pending' = pending /\ cached' = [r \in Robots |-> NoRow]
        /\ stale' = {r \in Robots : rows[r] # NoRow \/ Pends(r)}
    BY <1>4 DEF Expire
  <2>2. \A w \in Writers, r \in Robots :
          (Pending(w, r)' <=> Pending(w, r)) /\ (Pending(w, r) => r \in stale')
    BY <2>1 DEF Pending, Pends
  <2>3. WriterInv'
    BY <2>1, <2>2 DEF CacheInv, WriterInv
  <2>4. CacheAgrees'
    BY <2>1 DEF CacheAgrees
  <2> QED
    BY <2>3, <2>4 DEF CacheInv
<1>5. CASE Restart
  BY <1>5 DEF Restart, CacheInv, WriterInv, CacheAgrees, Pending, NoWrite
<1>6. ASSUME NEW q \in Robots, Seeded(q)
      PROVE  CacheInv'
  <2>1. /\ pending' = pending /\ cached' = cached /\ stale' = stale \cup {q} /\ rows[q] = NoRow
        /\ \A r \in Robots \ {q} : rows'[r] = rows[r]
    BY <1>6 DEF Seeded, TypeOK, CacheTypeOK
  <2>2. \A w \in Writers, r \in Robots :
          (Pending(w, r)' <=> Pending(w, r)) /\ (InCall(w, r)' <=> InCall(w, r))
    BY <2>1 DEF Pending, InCall
  <2>3. \A w \in Writers : Pending(w, q) /\ pending[w].alone =>
          pending[w].what = "commit" /\ pending[w].read = NoRow
    <3> SUFFICES ASSUME NEW w \in Writers, Pending(w, q), pending[w].alone
                 PROVE  pending[w].what = "commit" /\ pending[w].read = NoRow
      OBVIOUS
    <3>1. pending[w] \in RobotWrites
      BY PendingShape DEF Pending, TypeOK
    <3>2. pending[w].state # NoRow
      BY <3>1, CacheAssumption DEF RobotWrites
    <3> QED
      BY <2>1, <3>1, <3>2 DEF CacheInv, WriterInv, RobotWrites
  <2>4. WriterInv'
    BY <2>1, <2>2, <2>3 DEF CacheInv, WriterInv
  <2>5. CacheAgrees'
    BY <2>1, <2>2 DEF CacheInv, CacheAgrees, InCall
  <2> QED
    BY <2>4, <2>5 DEF CacheInv
<1> QED
  BY <1>1, <1>2, <1>3, <1>4, <1>5, <1>6, BeginsKeepsCache, CommitKeepsCache, SetKeepsCache,
     CacheStepKinds

\* The cache shows each robot as the table does when no writer is between its commit and the
\* cache, but for what the code leaves stale: for any number of writers, each with a SELECT,
\* an UPDATE of some columns and a call (upsert_robot_state, set_robot, warm).
THEOREM CacheCorrect == Spec => []CacheAgrees
<1>1. CacheInv => CacheAgrees
  BY DEF CacheInv
<1> QED
  BY <1>1, TypeStart, TypeStep, CacheStart, CacheStep, PTL DEF Spec

-----------------------------------------------------------------------------
\* The cache of the messages

Holds(w, id) == pending[w].what = "message" /\ pending[w].id = id

\* What a writer is about to put into the cache is in the table and not in the cache, and
\* no other writer has it.
HandOverInv ==
  \A w \in Writers, id \in Messages : Holds(w, id) =>
    /\ id \in stored /\ id \notin Range(list)
    /\ \A v \in Writers : Holds(v, id) => v = w

MessageInv == HandOverInv /\ MessagesOnce

LEMMA MessageStart == Init => MessageInv
BY DEF Init, CacheInit, MessageInv, HandOverInv, MessagesOnce, Holds, NoWrite, Range

LEMMA OthersKeepMessages ==
  ASSUME TypeOK, MessageInv, stored' = stored, list' = list,
         \A w \in Writers, id \in Messages : Holds(w, id)' => Holds(w, id)
  PROVE  MessageInv'
BY DEF MessageInv, HandOverInv, MessagesOnce, Holds

LEMMA PushKeepsMessages ==
  ASSUME TypeOK, MessageInv, NEW w \in Writers, Push(w)
  PROVE  MessageInv'
<1>1. PICK id \in Messages : id = pending[w].id /\ Holds(w, id)
  BY PendingShape DEF Push, MessageWrites, Holds, TypeOK
<1>2. /\ stored' = stored
      /\ \A v \in Writers, m \in Messages : Holds(v, m)' => Holds(v, m) /\ v # w
  BY DEF Push, Holds, NoWrite, TypeOK, CacheTypeOK
<1>3. id \in stored /\ id \notin Range(list) /\ \A v \in Writers : Holds(v, id) => v = w
  BY <1>1 DEF MessageInv, HandOverInv
<1>4. CASE list' = list
  BY <1>2, <1>4, OthersKeepMessages DEF Push
<1>5. CASE list' = Newest(<<id>> \o list)
  <2>1. /\ list' \in Seq(Messages) /\ list'[1] = id
        /\ \A i \in 2..Len(list') : i - 1 \in DOMAIN list /\ list'[i] = list[i - 1]
    BY <1>5, PushKeepsType DEF TypeOK
  <2>2. Len(list') \in Nat /\ DOMAIN list' = 1..Len(list')
    BY <2>1
  <2>3. \A i \in DOMAIN list' : i = 1 \/ (i \in 2..Len(list') /\ i - 1 \in DOMAIN list)
    BY <2>1, <2>2
  <2>4. \A i \in DOMAIN list' : list'[i] = IF i = 1 THEN id ELSE list[i - 1]
    BY <2>1, <2>3
  <2>5. \A i \in DOMAIN list : list[i] # id
    BY <1>3 DEF Range
  <2>6. \A i, j \in DOMAIN list' : list'[i] = list'[j] => i = j
    BY <2>2, <2>3, <2>4, <2>5 DEF MessageInv, MessagesOnce
  <2>7. Range(list') \subseteq {id} \cup Range(list)
    BY <2>3, <2>4 DEF Range
  <2>8. MessagesOnce'
    BY <1>2, <1>3, <2>6, <2>7 DEF MessageInv, MessagesOnce
  <2>9. HandOverInv'
    BY <1>2, <1>3, <2>7 DEF MessageInv, HandOverInv
  <2> QED
    BY <2>8, <2>9 DEF MessageInv
<1> QED
  BY <1>1, <1>4, <1>5 DEF Push

LEMMA BeginsHandsNothing ==
  ASSUME CacheTypeOK, NEW w \in Writers, NEW r \in Robots, NEW what \in {"commit", "cache"},
         NEW state \in RobotStates, NEW read \in RobotRows, Begins(w, r, what, state, read)
  PROVE  \A v \in Writers, id \in Messages : Holds(v, id)' => Holds(v, id)
<1>1. /\ pending'[w] = [what |-> what, robot |-> r, state |-> state, read |-> read,
                        alone |-> ~Pends(r)]
      /\ \A v \in Writers \ {w} :
           /\ Pending(v, r) => pending'[v] = [pending[v] EXCEPT !.alone = FALSE]
                              /\ pending[v] \in RobotWrites
           /\ ~Pending(v, r) => pending'[v] = pending[v]
  BY BeginsWrites
<1>2. pending'[w].what = what
  BY <1>1
<1> QED
  BY <1>1, <1>2 DEF Holds, RobotWrites

LEMMA MessageStep ==
  ASSUME TypeOK, MessageInv, [Next]_vars
  PROVE  MessageInv'
<1>1. CASE UNCHANGED cacheVars
  BY <1>1, OthersKeepMessages DEF cacheVars, Holds
<1>2. ASSUME NEW w \in Writers, NEW r \in Robots, NEW state \in RobotStates,
             ReadRobot(w, r, state) \/ Created(w, r, state)
      PROVE  MessageInv'
  <2>1. PICK what \in {"commit", "cache"}, read \in RobotRows : Begins(w, r, what, state, read)
    BY <1>2 DEF ReadRobot, Created, TypeOK, CacheTypeOK, RobotRows
  <2>2. CacheTypeOK
    BY DEF TypeOK
  <2>3. \A v \in Writers, id \in Messages : Holds(v, id)' => Holds(v, id)
    BY <2>1, <2>2, BeginsHandsNothing
  <2> QED
    BY <1>2, <2>3, OthersKeepMessages DEF ReadRobot, Created
<1>3. ASSUME NEW w \in Writers, SetRobot(w) \/ SetRobotFails(w)
      PROVE  MessageInv'
  <2>1. /\ stored' = stored /\ list' = list /\ pending' = [pending EXCEPT ![w] = NoWrite]
    BY <1>3 DEF SetRobot, SetRobotFails
  <2>2. \A v \in Writers, id \in Messages : Holds(v, id)' => Holds(v, id)
    BY <2>1 DEF Holds, NoWrite, TypeOK, CacheTypeOK
  <2> QED
    BY <2>1, <2>2, OthersKeepMessages
<1>4. ASSUME NEW w \in Writers, NEW id \in Messages, StoreMessage(w, id)
      PROVE  MessageInv'
  <2>1. /\ id \notin stored /\ stored' = stored \cup {id} /\ list' = list
        /\ \A v \in Writers, m \in Messages :
             Holds(v, m)' => (v = w /\ m = id) \/ (v # w /\ Holds(v, m))
    BY <1>4 DEF StoreMessage, Holds, TypeOK, CacheTypeOK
  <2>2. \A v \in Writers : ~Holds(v, id)
    BY <2>1 DEF MessageInv, HandOverInv
  <2> QED
    BY <2>1, <2>2 DEF MessageInv, HandOverInv, MessagesOnce
<1>5. CASE Expire
  BY <1>5 DEF Expire, MessageInv, HandOverInv, MessagesOnce, Holds, Range
<1>6. CASE Restart
  <2>1. \A w \in Writers, id \in Messages : ~Holds(w, id)'
    BY <1>6 DEF Restart, Holds, NoWrite
  <2>2. MessagesOnce'
    BY <1>6, NewestOfType DEF Restart, MessageInv, MessagesOnce, TypeOK, CacheTypeOK
  <2> QED
    BY <2>1, <2>2 DEF MessageInv, HandOverInv
<1>7. ASSUME NEW r \in Robots, Seeded(r)
      PROVE  MessageInv'
  BY <1>7, OthersKeepMessages DEF Seeded, Holds
<1>8. ASSUME NEW w \in Writers, CommitRobot(w) \/ CommitFails(w)
      PROVE  MessageInv'
  <2>1. /\ stored' = stored /\ list' = list
        /\ \A v \in Writers \ {w} : pending'[v] = pending[v]
        /\ pending'[w] = NoWrite \/ pending'[w].what = "cache"
    <3>1. CASE CommitRobot(w)
      <4>1. pending[w] \in RobotWrites
            /\ pending' = [pending EXCEPT ![w] = [pending[w] EXCEPT !.what = "cache"]]
        BY <3>1, OverwrittenType DEF TypeOK
      <4>2. [pending[w] EXCEPT !.what = "cache"].what = "cache"
        BY <4>1 DEF RobotWrites
      <4> QED
        BY <3>1, <4>1, <4>2 DEF CommitRobot, TypeOK, CacheTypeOK
    <3>2. CASE CommitFails(w)
      BY <3>2 DEF CommitFails, TypeOK, CacheTypeOK
    <3> QED
      BY <1>8, <3>1, <3>2
  <2>2. \A v \in Writers, id \in Messages : Holds(v, id)' => Holds(v, id)
    BY <2>1 DEF Holds, NoWrite
  <2> QED
    BY <2>1, <2>2, OthersKeepMessages
<1> QED
  BY <1>1, <1>2, <1>3, <1>4, <1>5, <1>6, <1>7, <1>8, PushKeepsMessages, CacheStepKinds

\* No message is in the cache twice or before it is in the table, for any writers, repeated
\* deliveries and restarts (append_message, warm).
THEOREM MessagesCorrect == Spec => []MessagesOnce
<1>1. MessageInv => MessagesOnce
  BY DEF MessageInv
<1> QED
  BY <1>1, TypeStart, TypeStep, MessageStart, MessageStep, PTL DEF Spec

-----------------------------------------------------------------------------
\* Executors and configurations

\* No active executor of the robot among the first n, but for restarted ones.
NoneActive(robot, n) ==
  \A i \in DOMAIN executors : i <= n /\ executors[i].robot = robot =>
    executors[i].status # "active" \/ executors[i].restarted

\* What the creator of an executor has seen stays true while its transaction is open, and
\* then of the executor.
LookInv ==
  /\ \A j \in DOMAIN executors :
       executors[j].looked < j /\ NoneActive(executors[j].robot, executors[j].looked)
  /\ \A a \in Admins : admin[a].step = "insert" =>
       admin[a].looked <= Len(executors) /\ NoneActive(admin[a].robot, admin[a].looked)

LEMMA LookStart == Init => LookInv
<1> SUFFICES ASSUME Init
             PROVE  LookInv
  OBVIOUS
<1>1. \A j \in DOMAIN executors : executors[j].looked = 0 /\ j \in Nat \ {0}
  <2>1. DOMAIN DefaultRobots = 1..Len(DefaultRobots) /\ Len(DefaultRobots) \in Nat
    BY DefaultOrder
  <2> QED
    BY <2>1 DEF Init
<1> QED
  BY <1>1 DEF Init, LookInv, NoneActive, NoRequest

LEMMA RequestShape ==
  ASSUME TypeOK, NEW a \in Admins, admin[a].step \in {"insert", "config"}
  PROVE  admin[a] \in Requests
BY DEF TypeOK, NoRequest

LEMMA LookStep ==
  ASSUME TypeOK, LookInv, [Next]_vars
  PROVE  LookInv'
<1> USE DEF TypeOK
<1>1. ASSUME UNCHANGED executors,
             \A a \in Admins : admin'[a].step = "insert" => admin'[a] = admin[a]
      PROVE  LookInv'
  BY <1>1 DEF LookInv, NoneActive
<1>2. ASSUME NEW a \in Admins, NEW r \in Robots, NEW v \in BOOLEAN, NEW c \in BOOLEAN,
             LookForExecutor(a, r, v, c)
      PROVE  LookInv'
  <2>1. executors' = executors /\ NoneActive(r, Len(executors))
    BY <1>2 DEF LookForExecutor, Active, NoneActive
  <2>2. /\ admin'[a].looked = Len(executors) /\ admin'[a].robot = r
        /\ \A b \in Admins \ {a} : admin'[b] = admin[b]
    BY <1>2 DEF LookForExecutor
  <2> QED
    BY <2>1, <2>2 DEF LookInv, NoneActive
<1>3. ASSUME NEW a \in Admins, InsertExecutor(a)
      PROVE  LookInv'
  <2> DEFINE n == Len(executors)
  <2>1. admin[a] \in Requests /\ n \in Nat /\ admin[a].looked \in Nat
    BY <1>3, RequestShape DEF InsertExecutor, Requests
  <2>2. /\ Len(executors') = n + 1 /\ DOMAIN executors' = 1..(n + 1)
        /\ \A i \in 1..n : executors'[i] = executors[i]
        /\ executors'[n + 1].robot = admin[a].robot /\ executors'[n + 1].looked = admin[a].looked
    BY <1>3, <2>1 DEF InsertExecutor
  <2>3. \A robot, k : k \in Nat /\ k <= n /\ NoneActive(robot, k) => NoneActive(robot, k)'
    BY <2>1, <2>2 DEF NoneActive
  <2>4. admin[a].looked <= n /\ NoneActive(admin[a].robot, admin[a].looked)
    BY <1>3 DEF InsertExecutor, LookInv
  <2>5. \A j \in 1..n : executors[j].looked \in Nat /\ executors[j].looked < j
                       /\ NoneActive(executors[j].robot, executors[j].looked)
    <3>1. \A j \in 1..n : executors[j] \in Executors
      OBVIOUS
    <3> QED
      BY <3>1, RegistryAssumption DEF LookInv, Executors
  <2>6. \A b \in Admins : admin'[b].step = "insert" =>
          b # a /\ admin'[b] = admin[b] /\ admin[b].looked \in Nat
    <3> SUFFICES ASSUME NEW b \in Admins, admin'[b].step = "insert"
                 PROVE  b # a /\ admin'[b] = admin[b] /\ admin[b].looked \in Nat
      OBVIOUS
    <3>1. b # a
      <4>1. [admin[a] EXCEPT !.step = "config", !.executor = n + 1].step = "config"
        BY <2>1, Zenon DEF Requests
      <4> QED
        BY <1>3, <4>1 DEF InsertExecutor, NoRequest
    <3>2. admin'[b] = admin[b]
      BY <1>3, <3>1 DEF InsertExecutor
    <3> QED
      BY <3>1, <3>2, RequestShape DEF Requests
  <2>7. \A j \in 1..(n + 1) :
          (executors[j].looked < j /\ NoneActive(executors[j].robot, executors[j].looked))'
    <3>1. \A j \in 1..n :
            (executors[j].looked < j /\ NoneActive(executors[j].robot, executors[j].looked))'
      BY <2>1, <2>2, <2>3, <2>5
    <3>2. \A robot, k : robot = admin[a].robot /\ k = admin[a].looked => NoneActive(robot, k)'
      BY <2>1, <2>3, <2>4
    <3>3. ASSUME NEW j \in 1..(n + 1), j = n + 1
          PROVE  (executors[j].looked < j /\ NoneActive(executors[j].robot, executors[j].looked))'
      BY <2>1, <2>2, <2>4, <3>2, <3>3
    <3> QED
      BY <2>1, <3>1, <3>3
  <2>8. \A b \in Admins : admin'[b].step = "insert" =>
          (admin[b].looked <= Len(executors) /\ NoneActive(admin[b].robot, admin[b].looked))'
    BY <2>1, <2>2, <2>3, <2>6 DEF LookInv
  <2> QED
    BY <2>2, <2>7, <2>8 DEF LookInv
<1>4. ASSUME NEW i, NEW status \in Statuses, Transition(i, status)
      PROVE  LookInv'
  <2> DEFINE new == [executors[i] EXCEPT !.status = status, !.restarted = @ \/ status = "active"]
  <2>1. i \in DOMAIN executors /\ executors[i] \in Executors
    BY <1>4 DEF Transition
  <2>2. /\ Len(executors') = Len(executors) /\ DOMAIN executors' = DOMAIN executors
        /\ \A j \in DOMAIN executors :
             /\ executors'[j].robot = executors[j].robot
             /\ executors'[j].looked = executors[j].looked
             /\ executors'[j].status = "active" =>
                  executors'[j].restarted \/ executors'[j].status = executors[j].status
             /\ executors[j].restarted => executors'[j].restarted
    <3>1. /\ new.robot = executors[i].robot /\ new.looked = executors[i].looked
          /\ new.status = "active" => new.restarted
          /\ executors[i].restarted => new.restarted
      BY <2>1 DEF Executors
    <3>2. executors' = [executors EXCEPT ![i] = new]
      BY <1>4, <2>1 DEF Transition
    <3> HIDE DEF new
    <3> QED
      BY <2>1, <3>1, <3>2
  <2>3. \A robot, k : NoneActive(robot, k) => NoneActive(robot, k)'
    BY <2>2 DEF NoneActive
  <2> QED
    BY <1>4, <2>2, <2>3 DEF LookInv, Transition
<1>5. ASSUME NEW a \in Admins, CreateConfigFor(a) \/ FailRequest(a)
             \/ \E r \in Robots : CreateConfig(a, r)
      PROVE  LookInv'
  BY <1>1, <1>5 DEF CreateConfigFor, FailRequest, CreateConfig, Configure, NoRequest
<1>6. CASE AdminNext
  BY <1>2, <1>3, <1>4, <1>5, <1>6 DEF AdminNext, Statuses
<1>7. CASE WriterNext
  BY <1>1, <1>7 DEF WriterNext, CreateRobot, StoreReport
<1> QED
  BY <1>1, <1>6, <1>7 DEF Next, RestartAll, NoRequest, vars

\* Two active executors of a robot come from overlapping requests or from a restart, for any
\* number of administrators and robots (create_executor, transition_executor).
THEOREM TwoActiveCorrect == Spec => []TwoActiveHaveCause
<1>1. TypeOK /\ LookInv => TwoActiveHaveCause
  <2> SUFFICES ASSUME TypeOK, LookInv, NEW i \in DOMAIN executors, NEW j \in DOMAIN executors,
                      i < j, executors[i].robot = executors[j].robot,
                      executors[i].status = "active", ~(executors[j].looked < i)
               PROVE  executors[i].restarted
    BY DEF TwoActiveHaveCause
  <2>1. executors[j] \in Executors /\ i \in Int
    BY DEF TypeOK
  <2>2. i <= executors[j].looked
    BY <2>1, RegistryAssumption DEF Executors
  <2> QED
    BY <2>2 DEF LookInv, NoneActive
<1> QED
  BY <1>1, TypeStart, TypeStep, LookStart, LookStep, PTL DEF Spec

\* What requests remember of configurations and executors stays true.
AskedInv ==
  \A a \in Admins :
    /\ admin[a].step = "insert" /\ admin[a].hadConfig => configs[admin[a].robot] # NoConfig
    /\ admin[a].step = "config" =>
         /\ admin[a].executor \in DOMAIN executors
         /\ executors[admin[a].executor].robot = admin[a].robot

ConfigInv == AskedInv /\ ConfigsHaveRobots

LEMMA ConfigStart == Init => ConfigInv
BY CacheAssumption
   DEF Init, CacheInit, ConfigInv, AskedInv, ConfigsHaveRobots, NoConfig, NoExecutor, NoRequest

LEMMA OthersKeepConfigs ==
  ASSUME TypeOK, ConfigInv, UNCHANGED <<rows, executors, configs>>,
         \A a \in Admins : admin'[a].step \in {"insert", "config"} => admin'[a] = admin[a],
         reported \subseteq reported'
  PROVE  ConfigInv'
<1>1. AskedInv'
  BY DEF ConfigInv, AskedInv
<1>2. ConfigsHaveRobots'
  BY DEF ConfigInv, ConfigsHaveRobots
<1> QED
  BY <1>1, <1>2 DEF ConfigInv

LEMMA InsertKeepsConfigs ==
  ASSUME TypeOK, ConfigInv, NEW a \in Admins, InsertExecutor(a)
  PROVE  ConfigInv'
<1>1. PICK n \in Nat, r \in Robots :
        n = Len(executors) /\ r = admin[a].robot /\ admin[a] \in Requests
  BY RequestShape DEF InsertExecutor, Requests, TypeOK
<1>2. /\ DOMAIN executors' = 1..(n + 1) /\ DOMAIN executors = 1..n
      /\ \A i \in 1..n : executors'[i] = executors[i]
      /\ executors'[n + 1].robot = r
  BY <1>1 DEF InsertExecutor, TypeOK
<1>3. /\ configs' = configs \/ configs' = [configs EXCEPT ![r] = n + 1]
      /\ configs' # configs => configs[r] # NoConfig
      /\ rows' = rows /\ reported' = reported
  <2>1. admin[a].hadConfig => configs[r] # NoConfig
    BY <1>1 DEF ConfigInv, AskedInv, InsertExecutor
  <2> QED
    BY <1>1, <2>1 DEF InsertExecutor, cacheVars
<1>4. \A b \in Admins \ {a} : admin'[b] = admin[b]
  BY DEF InsertExecutor
<1>5. admin'[a].step # "insert"
      /\ (admin'[a].step = "config" => admin'[a].executor = n + 1 /\ admin'[a].robot = r)
  <2> DEFINE q == [admin[a] EXCEPT !.step = "config", !.executor = n + 1]
  <2>1. q.step = "config" /\ q.executor = n + 1 /\ q.robot = r
    BY <1>1, Zenon DEF Requests
  <2>2. admin'[a] = q \/ admin'[a] = NoRequest
    BY <1>1 DEF InsertExecutor, TypeOK
  <2> HIDE DEF q
  <2> QED
    BY <2>1, <2>2 DEF NoRequest
<1>6. \A s \in Robots : configs[s] # NoConfig => configs'[s] # NoConfig
  BY <1>1, <1>3 DEF NoConfig, TypeOK
<1>7. AskedInv'
  <2> SUFFICES ASSUME NEW b \in Admins
               PROVE  /\ admin'[b].step = "insert" /\ admin'[b].hadConfig
                           => configs'[admin'[b].robot] # NoConfig
                      /\ admin'[b].step = "config" =>
                           /\ admin'[b].executor \in DOMAIN executors'
                           /\ executors'[admin'[b].executor].robot = admin'[b].robot
    BY DEF AskedInv
  <2>1. CASE b = a
    BY <1>1, <1>2, <1>5, <2>1
  <2>2. CASE b # a
    BY <1>2, <1>4, <1>6, <2>2, RequestShape DEF ConfigInv, AskedInv, Requests
  <2> QED
    BY <2>1, <2>2
<1>8. ConfigsHaveRobots'
  <2> SUFFICES ASSUME NEW s \in Robots
               PROVE  /\ configs'[s] # NoConfig => rows'[s] # NoRow
                      /\ rows'[s] # NoRow /\ configs'[s] = NoConfig => s \in reported'
                      /\ configs'[s] > NoExecutor =>
                           configs'[s] \in DOMAIN executors' /\ executors'[configs'[s]].robot = s
    BY DEF ConfigsHaveRobots
  <2>1. CASE configs'[s] = configs[s]
    BY <1>2, <1>3, <2>1 DEF ConfigInv, ConfigsHaveRobots
  <2>2. CASE configs'[s] # configs[s]
    <3>1. s = r /\ configs'[s] = n + 1 /\ configs[r] # NoConfig
      BY <1>1, <1>3, <2>2 DEF TypeOK
    <3> QED
      BY <1>1, <1>2, <1>3, <3>1 DEF ConfigInv, ConfigsHaveRobots, NoConfig
  <2> QED
    BY <2>1, <2>2
<1> QED
  BY <1>7, <1>8 DEF ConfigInv

LEMMA ConfigureKeepsConfigs ==
  ASSUME TypeOK, ConfigInv, NEW r \in Robots, NEW e \in Int, Configure(r, e), configs[r] = NoConfig,
         e = NoExecutor \/ (e \in DOMAIN executors /\ executors[e].robot = r),
         \A a \in Admins : admin'[a].step \in {"insert", "config"} => admin'[a] = admin[a]
  PROVE  ConfigInv'
<1>1. /\ executors' = executors /\ reported' = reported /\ configs' = [configs EXCEPT ![r] = e]
      /\ rows'[r] # NoRow /\ \A s \in Robots \ {r} : rows'[s] = rows[s]
  BY CacheAssumption DEF Configure, TypeOK, CacheTypeOK
<1>2. e # NoConfig
  BY DEF NoConfig, NoExecutor, TypeOK
<1>3. AskedInv'
  BY <1>1, <1>2 DEF ConfigInv, AskedInv, TypeOK
<1>4. ConfigsHaveRobots'
  BY <1>1, <1>2 DEF ConfigInv, ConfigsHaveRobots, TypeOK
<1> QED
  BY <1>3, <1>4 DEF ConfigInv

LEMMA WriterKeepsConfigs ==
  ASSUME TypeOK, ConfigInv, NEW w \in Writers, NEW r \in Robots,
         \/ \E state \in RobotStates : CreateRobot(w, r, state)
         \/ StoreReport(w) /\ r = pending[w].robot
  PROVE  ConfigInv'
<1>1. /\ executors' = executors /\ admin' = admin
      /\ rows'[r] # NoRow /\ \A s \in Robots \ {r} : rows'[s] = rows[s]
  <2>1. CASE \E state \in RobotStates : CreateRobot(w, r, state)
    BY <2>1, CacheAssumption DEF CreateRobot, TypeOK, CacheTypeOK
  <2>2. CASE StoreReport(w) /\ r = pending[w].robot
    <3>1. PICK row \in RobotStates : rows' = [rows EXCEPT ![r] = row]
      BY <2>2, OverwrittenType DEF StoreReport, TypeOK
    <3> QED
      BY <2>2, <3>1, CacheAssumption DEF StoreReport, TypeOK, CacheTypeOK
  <2> QED
    BY <2>1, <2>2
<1>2. /\ \A s \in Robots \ {r} : configs'[s] = configs[s]
      /\ reported \subseteq reported'
      /\ configs'[r] = configs[r] \/ (configs[r] = NoConfig /\ configs'[r] = NoExecutor)
      /\ configs'[r] # NoConfig \/ r \in reported'
  BY DEF CreateRobot, StoreReport, CommitRobot, ConfigInv, ConfigsHaveRobots, TypeOK, NoConfig,
         NoExecutor
<1>3. AskedInv'
  <2>1. \A s \in Robots : configs[s] # NoConfig => configs'[s] # NoConfig
    BY <1>2 DEF NoConfig, NoExecutor
  <2>2. \A a \in Admins : admin[a].step = "insert" => admin[a].robot \in Robots
    BY RequestShape DEF Requests
  <2> QED
    BY <1>1, <2>1, <2>2 DEF ConfigInv, AskedInv
<1>4. ConfigsHaveRobots'
  BY <1>1, <1>2 DEF ConfigInv, ConfigsHaveRobots, NoConfig, NoExecutor
<1> QED
  BY <1>3, <1>4 DEF ConfigInv

LEMMA ConfigStep ==
  ASSUME TypeOK, ConfigInv, [Next]_vars
  PROVE  ConfigInv'
<1>1. ASSUME NEW a \in Admins, NEW r \in Robots, CreateConfig(a, r)
      PROVE  ConfigInv'
  BY <1>1, ConfigureKeepsConfigs DEF CreateConfig, NoExecutor
<1>2. ASSUME NEW a \in Admins, CreateConfigFor(a)
      PROVE  ConfigInv'
  <2>1. admin[a] \in Requests
    BY <1>2, RequestShape DEF CreateConfigFor
  <2>2. /\ admin[a].robot \in Robots /\ admin[a].executor \in Int
        /\ admin[a].executor \in DOMAIN executors
        /\ executors[admin[a].executor].robot = admin[a].robot
    BY <1>2, <2>1, RegistryAssumption DEF CreateConfigFor, Requests, ConfigInv, AskedInv
  <2>3. \A b \in Admins : admin'[b].step \in {"insert", "config"} => admin'[b] = admin[b]
    BY <1>2 DEF CreateConfigFor, NoRequest, TypeOK
  <2> QED
    BY <1>2, <2>2, <2>3, ConfigureKeepsConfigs DEF CreateConfigFor
<1>3. ASSUME NEW a \in Admins, NEW r \in Robots, NEW v \in BOOLEAN, NEW c \in BOOLEAN,
             LookForExecutor(a, r, v, c)
      PROVE  ConfigInv'
  <2>1. /\ admin'[a].step = "insert" /\ admin'[a].robot = r
        /\ admin'[a].hadConfig = (configs[r] # NoConfig)
        /\ \A b \in Admins \ {a} : admin'[b] = admin[b]
    BY <1>3 DEF LookForExecutor, TypeOK
  <2>2. UNCHANGED <<rows, executors, configs, reported>>
    BY <1>3 DEF LookForExecutor, cacheVars
  <2>3. AskedInv'
    BY <2>1, <2>2 DEF ConfigInv, AskedInv
  <2>4. ConfigsHaveRobots'
    BY <2>2 DEF ConfigInv, ConfigsHaveRobots
  <2> QED
    BY <2>3, <2>4 DEF ConfigInv
<1>4. ASSUME NEW a \in Admins, FailRequest(a)
      PROVE  ConfigInv'
  BY <1>4, OthersKeepConfigs DEF FailRequest, NoRequest, TypeOK, cacheVars
<1>5. ASSUME NEW i, NEW status \in Statuses, Transition(i, status)
      PROVE  ConfigInv'
  <2>1. /\ DOMAIN executors' = DOMAIN executors
        /\ \A j \in DOMAIN executors : executors'[j].robot = executors[j].robot
    <3>1. executors' = [executors EXCEPT ![i].status = status,
                                         ![i].restarted = @ \/ status = "active"]
          /\ i \in DOMAIN executors /\ executors[i] \in Executors
      BY <1>5 DEF Transition, TypeOK
    <3>2. [Next]_vars /\ DOMAIN executors' = DOMAIN executors
      BY <3>1
    <3>3. Len(executors') >= Len(executors)
          /\ \A j \in DOMAIN executors : executors'[j].robot = executors[j].robot
      BY ExecutorTypeStep DEF TypeOK
    <3> QED
      BY <3>2, <3>3
  <2>2. UNCHANGED <<rows, configs, admin, reported>>
    BY <1>5 DEF Transition, cacheVars
  <2>3. AskedInv'
    BY <2>1, <2>2 DEF ConfigInv, AskedInv
  <2>4. ConfigsHaveRobots'
    BY <2>1, <2>2 DEF ConfigInv, ConfigsHaveRobots
  <2> QED
    BY <2>3, <2>4 DEF ConfigInv
<1>6. CASE AdminNext
  BY <1>1, <1>2, <1>3, <1>4, <1>5, <1>6, InsertKeepsConfigs DEF AdminNext, Statuses
<1>7. CASE WriterNext
  <2>1. ASSUME NEW w \in Writers,
               \/ SetRobot(w) \/ SetRobotFails(w) \/ Push(w) \/ CommitFails(w)
               \/ \E id \in Messages : StoreMessage(w, id)
               \/ \E r \in Robots, state \in RobotStates : ReadRobot(w, r, state)
        PROVE  rows' = rows
    BY <2>1 DEF SetRobot, SetRobotFails, Push, CommitFails, StoreMessage, ReadRobot
  <2>2. ASSUME NEW w \in Writers, StoreReport(w)
        PROVE  pending[w].robot \in Robots
    BY <2>2, PendingShape DEF StoreReport, CommitRobot, RobotWrites, TypeOK
  <2> QED
    BY <1>7, <2>1, <2>2, WriterKeepsConfigs, OthersKeepConfigs DEF WriterNext
<1>8. CASE RestartAll \/ (Expire /\ UNCHANGED <<offered, executors, configs, admin, reported>>)
  BY <1>8, OthersKeepConfigs DEF RestartAll, Restart, Expire, NoRequest
<1>9. CASE UNCHANGED vars
  BY <1>9, OthersKeepConfigs DEF vars, cacheVars
<1> QED
  BY <1>6, <1>7, <1>8, <1>9 DEF Next

\* Configured robots exist, known ones are configured unless a report made them known, and a
\* configuration names an executor of its robot, in any order of requests (create_robot,
\* create_robot_config, create_executor).
THEOREM ConfigsCorrect == Spec => []ConfigsHaveRobots
<1>1. ConfigInv => ConfigsHaveRobots
  BY DEF ConfigInv
<1> QED
  BY <1>1, TypeStart, TypeStep, ConfigStart, ConfigStep, PTL DEF Spec
=============================================================================
