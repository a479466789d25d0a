---------------------------- MODULE RuntimeCache ----------------------------
(***************************************************************************)
(* The robots and the newest messages that the dashboard reads from Redis  *)
(* (src/backend/app/runtime_cache.py), beside the tables they are copied   *)
(* from (database_store.py).  A writer reads the robot's row, commits an   *)
(* UPDATE of the columns in which it differs from the new state, so that   *)
(* the row may become a mixture of the states of two writers, and then     *)
(* puts its whole state into the cache, which swallows the errors of       *)
(* Redis; when an answer is lost Redis may have obeyed.  Keys expire, and  *)
(* Redis may forget everything.  When the process starts anew its writers  *)
(* are gone and the cache is filled from the tables.                       *)
(* Abstracted: a robot's state is a value in each of a few columns;        *)
(* updated_at is left out.  A message is a number, in order of creation.   *)
(***************************************************************************)
EXTENDS Integers, Sequences, SequencesExt, FiniteSets

CONSTANTS
  Robots,
  Default,     \* robots that the data base is seeded with
  Writers,     \* threads of requests and of the MQTT client
  Messages,    \* ids of messages, numbers
  Keep,        \* message_limit: how many the cache keeps
  Columns,     \* of robot_instances: robot_state, x, y, progress, ...
  Values,      \* what a column holds
  NoRow        \* of a robot that the table, or the cache, does not know

RobotStates == [Columns -> Values]
RobotRows == RobotStates \cup {NoRow}

ASSUME CacheAssumption ==
  /\ Default \subseteq Robots /\ Messages \subseteq Nat
  /\ Keep \in Nat \ {0} /\ NoRow \notin RobotStates

VARIABLES
  rows,    \* robot_instances: the row of a robot
  stored,  \* ids in the message table
  cached,  \* Redis: the state of a robot
  list,    \* Redis: messages, newest first
  pending, \* pending[w]: what w is about to commit, or to put into the cache
  stale    \* history: robots whose state in the cache may differ, see CacheAgrees

cacheVars == <<rows, stored, cached, list, pending, stale>>

\* A writer of a robot is about to commit, having read the row, or to call the cache; alone
\* says that no other one came between.  A writer of a message is about to call the cache.
NoWrite == [what |-> "none"]
RobotWrites ==
  [what : {"commit", "cache"}, robot : Robots, state : RobotStates, read : RobotRows,
   alone : BOOLEAN]
MessageWrites == [what : {"message"}, id : Messages]
Pending(w, r) == pending[w].what \in {"commit", "cache"} /\ pending[w].robot = r
Pends(r) == \E w \in Writers : Pending(w, r)

CacheTypeOK ==
  /\ rows \in [Robots -> RobotRows] /\ cached \in [Robots -> RobotRows]
  /\ stored \subseteq Messages /\ list \in Seq(Messages) /\ Len(list) <= Keep
  /\ pending \in [Writers -> {NoWrite} \cup RobotWrites \cup MessageWrites]
  /\ stale \subseteq Robots

CacheInit ==
  /\ \E first \in RobotStates :
       rows = [r \in Robots |-> IF r \in Default THEN first ELSE NoRow]
  /\ cached = rows /\ stored = {} /\ list = <<>>
  /\ pending = [w \in Writers |-> NoWrite] /\ stale = {}

-----------------------------------------------------------------------------
\* w is at work on r from now on; it is not alone if others are, and they are not either.
Begins(w, r, what, state, read) ==
  /\ pending[w] = NoWrite
  /\ pending' =
       [v \in Writers |->
          IF v = w THEN [what |-> what, robot |-> r, state |-> state, read |-> read,
                         alone |-> ~Pends(r)]
          ELSE IF Pending(v, r) THEN [pending[v] EXCEPT !.alone = FALSE]
          ELSE pending[v]]
  /\ stale' = IF Pends(r) THEN stale \cup {r} ELSE stale

\* upsert_robot_state: a report of a robot, known or not; the SELECT.
ReadRobot(w, r, state) ==
  /\ Begins(w, r, "commit", state, rows[r])
  /\ UNCHANGED <<rows, stored, cached, list>>

\* An UPDATE names the columns whose new value differs from the one that was read.
Overwritten(row, read, state) ==
  IF read = NoRow THEN state
  ELSE [c \in Columns |-> IF state[c] = read[c] THEN row[c] ELSE state[c]]

\* The commit.  Of two rows for one robot the second breaks uk_robot_instances_code, and an
\* UPDATE needs its row.
CommitRobot(w) ==
  /\ pending[w].what = "commit"
  /\ LET p == pending[w] IN
     /\ (p.read = NoRow) <=> (rows[p.robot] = NoRow)
     /\ rows' = [rows EXCEPT ![p.robot] = Overwritten(@, p.read, p.state)]
  /\ pending' = [pending EXCEPT ![w].what = "cache"]
  /\ UNCHANGED <<stored, cached, list, stale>>

\* For that reason, or another: nothing is stored, and the cache is not called.
CommitFails(w) ==
  /\ pending[w].what = "commit"
  /\ pending' = [pending EXCEPT ![w] = NoWrite]
  /\ UNCHANGED <<rows, stored, cached, list, stale>>

\* Mutant: the cache keeps what it has of a robot.
SetRobotIfAbsent(w) ==
  /\ pending[w].what = "cache"
  /\ LET p == pending[w] IN
     /\ cached' = [cached EXCEPT ![p.robot] = IF @ = NoRow THEN p.state ELSE @]
     /\ stale' = IF p.alone THEN stale \ {p.robot} ELSE stale
  /\ pending' = [pending EXCEPT ![w] = NoWrite]
  /\ UNCHANGED <<rows, stored, list>>

\* set_robot; a writer that was alone mends what others have left.
SetRobot(w) ==
  /\ pending[w].what = "cache"
  /\ LET p == pending[w] IN
     /\ cached' = [cached EXCEPT ![p.robot] = p.state]
     /\ stale' = IF p.alone THEN stale \ {p.robot} ELSE stale
  /\ pending' = [pending EXCEPT ![w] = NoWrite]
  /\ UNCHANGED <<rows, stored, list>>

\* A RedisError, before or after Redis has obeyed.
SetRobotFails(w) ==
  /\ pending[w].what = "cache"
  /\ LET p == pending[w] IN
     /\ cached' \in {cached, [cached EXCEPT ![p.robot] = p.state]}
     /\ stale' = stale \cup {p.robot}
  /\ pending' = [pending EXCEPT ![w] = NoWrite]
  /\ UNCHANGED <<rows, stored, list>>

\* Mutant: a message is put into the cache also when it was stored before.
StoreMessageAgain(w, id) ==
  /\ pending[w] = NoWrite
  /\ stored' = stored \cup {id}
  /\ pending' = [pending EXCEPT ![w] = [what |-> "message", id |-> id]]
  /\ UNCHANGED <<rows, cached, list, stale>>

\* append_message of database_store.py: a message stored already is dropped.
StoreMessage(w, id) ==
  /\ pending[w] = NoWrite /\ id \notin stored
  /\ stored' = stored \cup {id}
  /\ pending' = [pending EXCEPT ![w] = [what |-> "message", id |-> id]]
  /\ UNCHANGED <<rows, cached, list, stale>>

Newest(s) == SubSeq(s, 1, IF Len(s) < Keep THEN Len(s) ELSE Keep)

\* append_message of runtime_cache.py: push and trim, in one transaction of Redis; or not.
Push(w) ==
  /\ pending[w].what = "message"
  /\ list' \in {list, Newest(<<pending[w].id>> \o list)}
  /\ pending' = [pending EXCEPT ![w] = NoWrite]
  /\ UNCHANGED <<rows, stored, cached, stale>>

\* The keys' time is over, or Redis starts empty.
Expire ==
  /\ cached' = [r \in Robots |-> NoRow] /\ list' = <<>>
  /\ stale' = {r \in Robots : rows[r] # NoRow \/ Pends(r)}
  /\ UNCHANGED <<rows, stored, pending>>

\* What messages(limit) of the tables gives: the newest, newest first.
NewestOf(ids) ==
  {s \in UNION {[1..n -> ids] : n \in 0..Keep} :
     /\ \A i, j \in DOMAIN s : i < j => s[i] > s[j]
     /\ Range(s) = ids \/ Len(s) = Keep
     /\ \A id \in ids \ Range(s) : \A i \in DOMAIN s : id < s[i]}

\* The process ends and starts anew: warm deletes both keys and fills them, or fails.
Restart ==
  /\ pending' = [w \in Writers |-> NoWrite]
  /\ \/ /\ cached' = rows /\ list' \in NewestOf(stored)
        /\ stale' = {}
     \/ /\ stale' = Robots
        /\ UNCHANGED <<cached, list>>
  /\ UNCHANGED <<rows, stored>>

\* The cache shows a robot as the table does unless a writer has committed and is still to
\* call the cache, or two writers of the robot overlapped, from the SELECT of each on, or
\* Redis failed, forgot or was late, or a row was written without the cache; and a writer
\* that is alone, or a restart, mends all of that (upsert_robot_state and create_robot of
\* database_store.py; set_robot, warm).
CacheAgrees ==
  \A r \in Robots :
    r \notin stale /\ (\A w \in Writers : ~(Pending(w, r) /\ pending[w].what = "cache"))
    => cached[r] = rows[r]

\* A message that is delivered twice, or whose process ended before the cache was called,
\* is in the cache once at most, and only after it is in the table (append_message, warm).
MessagesOnce ==
  /\ Range(list) \subseteq stored
  /\ \A i, j \in DOMAIN list : list[i] = list[j] => i = j
=============================================================================
