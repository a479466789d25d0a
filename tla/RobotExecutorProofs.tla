------------------------ MODULE RobotExecutorProofs ------------------------
(***************************************************************************)
(* Proofs about RobotExecutor for any number of threads, commands, tasks,  *)
(* broadcasts and loop steps.                                              *)
(***************************************************************************)
EXTENDS RobotExecutor, TLAPS, SequenceTheorems, FiniteSetTheorems

USE ExecutorAssumption

-----------------------------------------------------------------------------
\* Type correctness

\* A thread that started has a command, and its loop counter is in range.
Launched ==
  \A t \in Threads :
    /\ pc[t] # "new" => cmd[t] \in Commands
    /\ pc[t] \in {"new", "received", "acquire", "plan", "start"} \cup Claiming
         => step[t] = 0
    /\ pc[t] \in Checking \cup {"move"} => step[t] < Steps

Typed == TypeOK /\ Launched

\* Publishing events keeps the record of published events well typed.
LEMMA SayType ==
  ASSUME TypeOK, NEW t \in Threads, NEW es \in Seq(Events), Say(t, es)
  PROVE  told' \in [Threads -> Seq(Events)]
BY ConcatProperties DEF TypeOK, Say

\* The sequences of events the code publishes in one go.
LEMMA EventSequences ==
  /\ <<"command.rejected">> \in Seq(Events)
  /\ <<"command.accepted">> \in Seq(Events)
  /\ <<"task.stopped">> \in Seq(Events)
  /\ <<"action.progress">> \in Seq(Events)
  /\ <<"command.accepted", "where.result">> \in Seq(Events)
  /\ <<"command.rejected", "device.offline">> \in Seq(Events)
  /\ <<"action.started", "task.started">> \in Seq(Events)
  /\ <<"action.succeeded", "task.succeeded">> \in Seq(Events)
  /\ <<"action.failed", "task.failed">> \in Seq(Events)
BY DEF Events

\* The steps of a command thread only append to the record.
LEMMA ToldType ==
  ASSUME TypeOK, NEW t \in Threads, Step(t)
  PROVE  told' \in [Threads -> Seq(Events)]
<1> USE SayType, EventSequences
<1>1. CASE UNCHANGED told
  BY <1>1 DEF TypeOK
<1>2. CASE Receive(t) \/ RefuseOffline(t) \/ StopProbe(t) \/ Acquire(t)
  BY <1>2, <1>1 DEF Receive, RefuseOffline, StopProbe, Acquire, Reject
<1>3. CASE Plan(t) \/ Start(t) \/ Move(t)
  BY <1>3, <1>1 DEF Plan, Start, Move
<1>4. CASE Arrive(t) \/ Fail(t) \/ Halt(t) \/ Abort(t)
  BY <1>4 DEF Arrive, Fail, Halt, Abort, Leave
<1>5. QED
  BY <1>1, <1>2, <1>3, <1>4
     DEF Step, StopCancel, ClaimCancel, ClaimCommand, ClaimTask, CheckOffline,
         CheckPath, CheckFail, ConsumeFailure, FailWith, CheckStop, ResetCommand, ResetTask, ResetCancel,
         Release

\* A cancel request is remembered against the holder of the lock.
LEMMA AskedType ==
  ASSUME TypeOK, RequestCancel
  PROVE  asked' \subseteq Threads \X {"claim", "later"} /\ cancel_current_task' = TRUE
<1>1. CASE asked' = asked
  BY <1>1 DEF TypeOK, RequestCancel
<1>2. CASE asked' # asked
  <2>1. busy_lock \in Threads
    BY <1>2 DEF TypeOK, RequestCancel
  <2>2. PICK when \in {"claim", "later"} : asked' = asked \cup {<<busy_lock, when>>}
    BY <1>2 DEF RequestCancel
  <2>3. QED
    BY <2>1, <2>2 DEF TypeOK, RequestCancel
<1>3. QED
  BY <1>1, <1>2

\* Each step of a command thread goes to a program point.
LEMMA PcType ==
  ASSUME TypeOK, NEW t \in Threads, Step(t)
  PROVE  pc' \in [Threads -> PCs]
<1>1. ASSUME NEW p \in PCs, GoTo(t, p)
      PROVE  pc' \in [Threads -> PCs]
  BY <1>1 DEF TypeOK, GoTo
<1>2. PICK p \in PCs : GoTo(t, p)
  <2> USE DEF PCs, Holding, Claiming, Running, Checking, Finishing
  <2>1. CASE Receive(t) \/ RefuseOffline(t) \/ StopCancel(t) \/ StopProbe(t) \/ Acquire(t)
    BY <2>1 DEF Receive, RefuseOffline, StopCancel, StopProbe, Acquire, Reject
  <2>2. CASE ClaimCancel(t) \/ ClaimCommand(t) \/ ClaimTask(t) \/ Plan(t) \/ Start(t)
    BY <2>2 DEF ClaimCancel, ClaimCommand, ClaimTask, Plan, Start
  <2>3. CASE CheckOffline(t) \/ CheckPath(t) \/ CheckFail(t) \/ ConsumeFailure(t)
             \/ CheckStop(t) \/ Move(t)
    BY <2>3 DEF CheckOffline, CheckPath, CheckFail, ConsumeFailure, CheckStop, Move,
                FailWith
  <2>4. CASE Arrive(t) \/ Fail(t) \/ Halt(t) \/ Abort(t)
    BY <2>4 DEF Arrive, Fail, Halt, Abort, Leave
  <2>5. CASE ResetCommand(t) \/ ResetTask(t) \/ ResetCancel(t) \/ Release(t)
    BY <2>5 DEF ResetCommand, ResetTask, ResetCancel, Release
  <2>6. QED
    BY <2>1, <2>2, <2>3, <2>4, <2>5 DEF Step
<1>3. QED
  BY <1>1, <1>2

\* Each step of a command thread keeps every variable in its type.
LEMMA StepTypeOK ==
  ASSUME Typed, NEW t \in Threads, Step(t)
  PROVE  TypeOK'
<1> USE DEF Typed, TypeOK, faults, ids, watch, life, ghosts
<1>0. /\ told' \in [Threads -> Seq(Events)]
      /\ pc' \in [Threads -> PCs]
  BY ToldType, PcType DEF Typed
<1>1. CASE Receive(t)
  BY <1>0, <1>1 DEF Receive, Reject
<1>2. CASE RefuseOffline(t)
  BY <1>0, <1>2 DEF RefuseOffline, States
<1>3. CASE StopCancel(t)
  BY <1>0, <1>3 DEF StopCancel, RequestCancel
<1>4. CASE StopProbe(t)
  BY <1>0, <1>4 DEF StopProbe
<1>5. CASE Acquire(t)
  BY <1>0, <1>5 DEF Acquire, Reject
<1>6. CASE ClaimCancel(t)
  BY <1>0, <1>6 DEF ClaimCancel
<1>7. CASE ClaimCommand(t)
  BY <1>0, <1>7 DEF ClaimCommand, Launched, Claiming
<1>8. CASE ClaimTask(t)
  BY <1>0, <1>8 DEF ClaimTask, States, Active, Launched, Claiming, Ask, PayloadType
<1>9. CASE Plan(t)
  BY <1>0, <1>9 DEF Plan
<1>10. CASE Start(t)
  BY <1>0, <1>10 DEF Start
<1>11. CASE CheckOffline(t)
  BY <1>0, <1>11 DEF CheckOffline, FailWith, Codes
<1>12. CASE CheckPath(t)
  BY <1>0, <1>12 DEF CheckPath, FailWith, Codes
<1>13. CASE CheckFail(t)
  BY <1>0, <1>13 DEF CheckFail
<1>14. CASE ConsumeFailure(t)
  BY <1>0, <1>14 DEF ConsumeFailure, FailWith, Codes
<1>15. CASE CheckStop(t)
  BY <1>0, <1>15 DEF CheckStop
<1>16. CASE Move(t)
  <2>1. step[t] \in 0..Steps /\ step[t] < Steps
    BY <1>16 DEF Move, Launched
  <2>2. step[t] + 1 \in 0..Steps
    BY <2>1
  <2>3. step' \in [Threads -> 0..Steps]
    BY <1>16, <2>2 DEF Move
  <2>4. QED
    BY <1>0, <1>16, <2>3 DEF Move
<1>17. CASE Arrive(t)
  BY <1>0, <1>17 DEF Arrive, Leave, States
<1>18. CASE Fail(t)
  BY <1>0, <1>18 DEF Fail, Leave, States
<1>19. CASE Halt(t)
  BY <1>0, <1>19 DEF Halt, Leave, States
<1>20. CASE Abort(t)
  BY <1>0, <1>20 DEF Abort, Leave, States, Codes
<1>21. CASE ResetCommand(t)
  BY <1>0, <1>21 DEF ResetCommand
<1>22. CASE ResetTask(t)
  BY <1>0, <1>22 DEF ResetTask
<1>23. CASE ResetCancel(t)
  BY <1>0, <1>23 DEF ResetCancel
<1>24. CASE Release(t)
  BY <1>0, <1>24 DEF Release
<1>25. QED
  BY <1>1, <1>2, <1>3, <1>4, <1>5, <1>6, <1>7, <1>8, <1>9, <1>10, <1>11, <1>12,
     <1>13, <1>14, <1>15, <1>16, <1>17, <1>18, <1>19, <1>20, <1>21, <1>22, <1>23, <1>24 DEF Step

\* Each step of a command thread keeps its command and its loop counter in step
\* with its program point.
LEMMA StepLaunched ==
  ASSUME Typed, NEW t \in Threads, Step(t)
  PROVE  Launched'
<1> USE DEF Typed, TypeOK, Launched, GoTo, Claiming, Checking
<1>1. CASE Receive(t)
  BY <1>1 DEF Receive, Reject
<1>2. CASE RefuseOffline(t)
  BY <1>2 DEF RefuseOffline
<1>3. CASE StopCancel(t)
  BY <1>3 DEF StopCancel, RequestCancel
<1>4. CASE StopProbe(t)
  BY <1>4 DEF StopProbe
<1>5. CASE Acquire(t)
  BY <1>5 DEF Acquire, Reject
<1>6. CASE ClaimCancel(t)
  BY <1>6 DEF ClaimCancel
<1>7. CASE ClaimCommand(t)
  BY <1>7 DEF ClaimCommand
<1>8. CASE ClaimTask(t)
  BY <1>8 DEF ClaimTask
<1>9. CASE Plan(t)
  BY <1>9 DEF Plan
<1>10. CASE Start(t)
  BY <1>10 DEF Start
<1>11. CASE CheckOffline(t)
  BY <1>11 DEF CheckOffline, FailWith
<1>12. CASE CheckPath(t)
  BY <1>12 DEF CheckPath, FailWith
<1>13. CASE CheckFail(t)
  BY <1>13 DEF CheckFail
<1>14. CASE ConsumeFailure(t)
  BY <1>14 DEF ConsumeFailure, FailWith
<1>15. CASE CheckStop(t)
  BY <1>15 DEF CheckStop
<1>16. CASE Move(t)
  BY <1>16 DEF Move
<1>17. CASE Arrive(t)
  BY <1>17 DEF Arrive, Leave
<1>18. CASE Fail(t)
  BY <1>18 DEF Fail, Leave
<1>19. CASE Halt(t)
  BY <1>19 DEF Halt, Leave
<1>20. CASE Abort(t)
  BY <1>20 DEF Abort, Leave
<1>21. CASE ResetCommand(t)
  BY <1>21 DEF ResetCommand
<1>22. CASE ResetTask(t)
  BY <1>22 DEF ResetTask
<1>23. CASE ResetCancel(t)
  BY <1>23 DEF ResetCancel
<1>24. CASE Release(t)
  BY <1>24 DEF Release
<1>25. QED
  BY <1>1, <1>2, <1>3, <1>4, <1>5, <1>6, <1>7, <1>8, <1>9, <1>10, <1>11, <1>12,
     <1>13, <1>14, <1>15, <1>16, <1>17, <1>18, <1>19, <1>20, <1>21, <1>22, <1>23, <1>24 DEF Step

\* A delivery gives a new thread its command.
LEMMA DeliverTyped ==
  ASSUME Typed, NEW t \in Threads, NEW c \in Commands, Deliver(t, c)
  PROVE  Typed'
<1> USE DEF Typed, Deliver, GoTo, faults, ids, watch, life, ghosts
<1>1. pc' \in [Threads -> PCs]
  BY DEF TypeOK, PCs
<1>2. TypeOK'
  BY <1>1 DEF TypeOK
<1>3. Launched'
  BY DEF TypeOK, Launched, Claiming, Checking
<1>4. QED
  BY <1>2, <1>3

\* The handlers of the network thread, the poses of the main thread and the
\* signals leave the command threads where they are.
Surroundings == Broadcast \/ Handle \/ (\E w \in Watchers : Watch(w)) \/ Signal

LEMMA SurroundingsAlone ==
  ASSUME Surroundings
  PROVE  UNCHANGED <<locals, busy_lock, ids, told>>
<1> USE DEF locals, ids
<1>1. CASE Broadcast
  BY <1>1 DEF Broadcast, RobotOffline, PathBlocked, InjectFailure, FaultRecovered,
              OnConnect
<1>2. CASE Handle
  BY <1>2 DEF Handle, RobotOfflineState, FaultCancel, RecoverPath, RecoverFail,
              RecoverProbe, RecoverIdle
<1>3. ASSUME NEW w \in Watchers, Watch(w)
      PROVE  UNCHANGED <<locals, busy_lock, ids, told>>
  BY <1>3 DEF Watch, ReadCommand, ReadTask
<1>4. CASE Signal
  BY <1>4 DEF Signal
<1>5. QED
  BY <1>1, <1>2, <1>3, <1>4 DEF Surroundings

\* A watcher only goes to its own program points.
LEMMA SurroundingsTyped ==
  ASSUME Typed, Surroundings
  PROVE  Typed'
<1> USE DEF Typed, TypeOK, locals, faults, ids, watch, life, ghosts
<1>1. Launched'
  BY SurroundingsAlone DEF Launched
<1>2. ASSUME NEW w \in Watchers, NEW p \in WatchPCs, WatchTo(w, p)
      PROVE  at' \in [Watchers -> WatchPCs]
  BY <1>2 DEF WatchTo
<1>3. ASSUME NEW p \in WatchPCs, OpenHandler(p)
      PROVE  at' \in [Watchers -> WatchPCs] /\ budget' \in 0..MaxBroadcasts
  BY <1>2, <1>3 DEF OpenHandler
<1>4. CASE Broadcast
  <2>1. at' \in [Watchers -> WatchPCs] /\ budget' \in 0..MaxBroadcasts
    BY <1>3, <1>4 DEF Broadcast, RobotOffline, PathBlocked, InjectFailure,
                      FaultRecovered, OnConnect, WatchPCs
  <2>2. CASE RobotOffline
    BY <1>1, <2>1, <2>2 DEF RobotOffline
  <2>3. CASE PathBlocked
    BY <1>1, <2>1, <2>3 DEF PathBlocked
  <2>4. CASE InjectFailure
    BY <1>1, <2>1, <2>4 DEF InjectFailure
  <2>5. CASE FaultRecovered
    BY <1>1, <2>1, <2>5 DEF FaultRecovered
  <2>6. CASE OnConnect
    BY <1>1, <2>1, <2>6 DEF OnConnect
  <2>7. QED
    BY <1>4, <2>2, <2>3, <2>4, <2>5, <2>6 DEF Broadcast
<1>5. CASE Handle
  <2>1. at' \in [Watchers -> WatchPCs]
    BY <1>2, <1>5 DEF Handle, RobotOfflineState, FaultCancel, RecoverPath,
                      RecoverFail, RecoverProbe, RecoverIdle, WatchPCs
  <2>2. CASE RobotOfflineState
    BY <1>1, <2>1, <2>2 DEF RobotOfflineState, States
  <2>3. CASE FaultCancel
    <3>1. asked' \subseteq Threads \X {"claim", "later"} /\ cancel_current_task' = TRUE
      BY <2>3, AskedType DEF FaultCancel
    <3>2. QED
      BY <1>1, <2>1, <2>3, <3>1 DEF FaultCancel
  <2>4. CASE RecoverPath
    BY <1>1, <2>1, <2>4 DEF RecoverPath
  <2>5. CASE RecoverFail
    BY <1>1, <2>1, <2>5 DEF RecoverFail
  <2>6. CASE RecoverProbe
    BY <1>1, <2>1, <2>6 DEF RecoverProbe
  <2>7. CASE RecoverIdle
    BY <1>1, <2>1, <2>7 DEF RecoverIdle, States
  <2>8. QED
    BY <1>5, <2>2, <2>3, <2>4, <2>5, <2>6, <2>7 DEF Handle
<1>6. ASSUME NEW w \in Watchers, Watch(w)
      PROVE  Typed'
  <2>1. at' \in [Watchers -> WatchPCs]
    BY <1>2, <1>6 DEF Watch, ReadCommand, ReadTask, WatchPCs
  <2>2. QED
    BY <1>1, <1>6, <2>1 DEF Watch, ReadCommand, ReadTask
<1>7. CASE Signal
  BY <1>1, <1>7 DEF Signal
<1>8. QED
  BY <1>4, <1>5, <1>6, <1>7 DEF Surroundings

\* The kinds of steps Next is made of.
LEMMA NextCases ==
  ASSUME [Next]_vars
  PROVE  \/ \E t \in Threads, c \in Commands : Deliver(t, c)
         \/ \E t \in Threads : Step(t)
         \/ Surroundings
         \/ UNCHANGED vars
BY DEF Next, Surroundings

LEMMA InitTyped == Init => Typed
<1> SUFFICES ASSUME Init
             PROVE  Typed
  OBVIOUS
<1>1. pc \in [Threads -> PCs] /\ at \in [Watchers -> WatchPCs]
  BY DEF Init, PCs, WatchPCs
<1>2. step \in [Threads -> 0..Steps] /\ budget \in 0..MaxBroadcasts
  BY DEF Init
<1>3. told \in [Threads -> Seq(Events)]
  <2>1. <<>> \in Seq(Events)
    OBVIOUS
  <2>2. QED
    BY <2>1 DEF Init
<1>4. TypeOK
  BY <1>1, <1>2, <1>3 DEF Init, TypeOK, Codes, States
<1>5. Launched
  BY DEF Init, Launched, Claiming, Checking
<1>6. QED
  BY <1>4, <1>5 DEF Typed

LEMMA TypedStep == Typed /\ [Next]_vars => Typed'
<1> SUFFICES ASSUME Typed, [Next]_vars
             PROVE  Typed'
  OBVIOUS
<1>1. CASE UNCHANGED vars
  BY <1>1 DEF vars, locals, faults, ids, watch, life, ghosts, Typed, TypeOK, Launched
<1>2. QED
  BY <1>1, NextCases, DeliverTyped, StepTypeOK, StepLaunched, SurroundingsTyped DEF Typed

\* Whatever the interleaving, every variable stays in its type.
THEOREM TypeCorrect == Spec => []TypeOK
<1>1. Spec => []Typed
  BY InitTyped, TypedStep, PTL DEF Spec
<1>2. Typed => TypeOK
  BY DEF Typed
<1>3. QED
  BY <1>1, <1>2, PTL

-----------------------------------------------------------------------------
\* The lock, the ids and the state it protects

\* What the two ids are worth at every program point of the lock's holder.
IdsByPhase ==
  /\ busy_lock = Free => current_command_id = None /\ current_task_id = None
  /\ \A t \in Threads :
       /\ pc[t] \in {"claim", "name", "reset cancel", "release"} =>
            current_command_id = None /\ current_task_id = None
       /\ pc[t] = "enter" => current_command_id = cmd[t] /\ current_task_id = None
       /\ pc[t] \in Running \cup {"reset command"} =>
            current_command_id = cmd[t] /\ current_task_id = Ask(t).task
       /\ pc[t] = "reset task" => current_command_id = None

\* Only an action that has claimed the device and not ended shows a moving state.
StateByPhase ==
  /\ busy_lock = Free => state \notin Active
  /\ \A t \in Threads : pc[t] \in Claiming \cup Finishing => state \notin Active

LockInv == Typed /\ OneActionAtATime /\ IdsByPhase /\ StateByPhase

\* The dispatch leads to a handler, never into the part that holds the lock.
LEMMA ReceiveGoes ==
  ASSUME NEW t \in Threads, Receive(t)
  PROVE  /\ pc[t] = "received"
         /\ \E p \in {"done", "refuse", "cancel", "acquire"} : GoTo(t, p)
         /\ UNCHANGED <<cmd, busy_lock, cancel_current_task, current_command_id,
                        current_task_id, state, asked, stop_event>>
BY DEF Receive, Reject, ids, life, ghosts

\* The lock changes hands only where the program points enter and leave Holding.
LEMMA StepExclusion ==
  ASSUME Typed, OneActionAtATime, NEW t \in Threads, Step(t)
  PROVE  OneActionAtATime'
<1>0. pc \in [Threads -> PCs] /\ Free \notin Threads
  BY ExecutorAssumption DEF Typed, TypeOK
<1> USE <1>0 DEF OneActionAtATime, GoTo, Holding, Claiming, Running, Checking, Finishing
<1>1. CASE Receive(t)
  BY <1>1, ReceiveGoes
<1>2. CASE RefuseOffline(t)
  BY <1>2 DEF RefuseOffline
<1>3. CASE StopCancel(t)
  BY <1>3 DEF StopCancel
<1>4. CASE StopProbe(t)
  BY <1>4 DEF StopProbe
<1>5. CASE Acquire(t)
  <2>1. pc[t] = "acquire"
    BY <1>5 DEF Acquire
  <2>2. CASE pc' = [pc EXCEPT ![t] = "done"] /\ busy_lock' = busy_lock
    BY <2>1, <2>2
  <2>3. CASE pc' = [pc EXCEPT ![t] = "claim"] /\ busy_lock = Free /\ busy_lock' = t
    BY <2>1, <2>3
  <2>4. QED
    BY <1>5, <2>2, <2>3 DEF Acquire, Reject
<1>6. CASE ClaimCancel(t)
  BY <1>6 DEF ClaimCancel
<1>7. CASE ClaimCommand(t)
  BY <1>7 DEF ClaimCommand
<1>8. CASE ClaimTask(t)
  BY <1>8 DEF ClaimTask
<1>9. CASE Plan(t)
  BY <1>9 DEF Plan
<1>10. CASE Start(t)
  BY <1>10 DEF Start
<1>11. CASE CheckOffline(t)
  BY <1>11 DEF CheckOffline, FailWith
<1>12. CASE CheckPath(t)
  BY <1>12 DEF CheckPath, FailWith
<1>13. CASE CheckFail(t)
  BY <1>13 DEF CheckFail
<1>14. CASE ConsumeFailure(t)
  BY <1>14 DEF ConsumeFailure, FailWith
<1>15. CASE CheckStop(t)
  BY <1>15 DEF CheckStop
<1>16. CASE Move(t)
  BY <1>16 DEF Move
<1>17. CASE Arrive(t)
  BY <1>17 DEF Arrive, Leave
<1>18. CASE Fail(t)
  BY <1>18 DEF Fail, Leave
<1>19. CASE Halt(t)
  BY <1>19 DEF Halt, Leave
<1>20. CASE Abort(t)
  BY <1>20 DEF Abort, Leave
<1>21. CASE ResetCommand(t)
  BY <1>21 DEF ResetCommand
<1>22. CASE ResetTask(t)
  BY <1>22 DEF ResetTask
<1>23. CASE ResetCancel(t)
  BY <1>23 DEF ResetCancel
<1>24. CASE Release(t)
  BY <1>24 DEF Release
<1>25. QED
  BY <1>1, <1>2, <1>3, <1>4, <1>5, <1>6, <1>7, <1>8, <1>9, <1>10, <1>11, <1>12,
     <1>13, <1>14, <1>15, <1>16, <1>17, <1>18, <1>19, <1>20, <1>21, <1>22, <1>23, <1>24 DEF Step

\* The ids follow the program point of the thread that moves; nobody else holds
\* the lock.
LEMMA StepIds ==
  ASSUME LockInv, NEW t \in Threads, Step(t)
  PROVE  IdsByPhase'
<1>0. pc \in [Threads -> PCs] /\ Free \notin Threads
  BY ExecutorAssumption DEF LockInv, Typed, TypeOK
<1> USE <1>0 DEF LockInv, OneActionAtATime, IdsByPhase, GoTo, Holding, Claiming,
                 Running, Checking, Finishing, ids, Ask
<1>1. CASE Receive(t)
  BY <1>1, ReceiveGoes
<1>2. CASE RefuseOffline(t)
  BY <1>2 DEF RefuseOffline
<1>3. CASE StopCancel(t)
  BY <1>3 DEF StopCancel
<1>4. CASE StopProbe(t)
  BY <1>4 DEF StopProbe
<1>5. CASE Acquire(t)
  <2>1. pc[t] = "acquire" /\ UNCHANGED <<cmd, current_command_id, current_task_id>>
    BY <1>5 DEF Acquire
  <2>2. CASE pc' = [pc EXCEPT ![t] = "done"] /\ busy_lock' = busy_lock
    BY <2>1, <2>2
  <2>3. CASE pc' = [pc EXCEPT ![t] = "claim"] /\ busy_lock = Free /\ busy_lock' = t
    BY <2>1, <2>3
  <2>4. QED
    BY <1>5, <2>2, <2>3 DEF Acquire, Reject
<1>6. CASE ClaimCancel(t)
  BY <1>6 DEF ClaimCancel
<1>7. CASE ClaimCommand(t)
  BY <1>7 DEF ClaimCommand
<1>8. CASE ClaimTask(t)
  BY <1>8 DEF ClaimTask
<1>9. CASE Plan(t)
  BY <1>9 DEF Plan
<1>10. CASE Start(t)
  BY <1>10 DEF Start
<1>11. CASE CheckOffline(t)
  BY <1>11 DEF CheckOffline, FailWith
<1>12. CASE CheckPath(t)
  BY <1>12 DEF CheckPath, FailWith
<1>13. CASE CheckFail(t)
  BY <1>13 DEF CheckFail
<1>14. CASE ConsumeFailure(t)
  BY <1>14 DEF ConsumeFailure, FailWith
<1>15. CASE CheckStop(t)
  BY <1>15 DEF CheckStop
<1>16. CASE Move(t)
  BY <1>16 DEF Move
<1>17. CASE Arrive(t)
  BY <1>17 DEF Arrive, Leave
<1>18. CASE Fail(t)
  BY <1>18 DEF Fail, Leave
<1>19. CASE Halt(t)
  BY <1>19 DEF Halt, Leave
<1>20. CASE Abort(t)
  BY <1>20 DEF Abort, Leave
<1>21. CASE ResetCommand(t)
  BY <1>21 DEF ResetCommand
<1>22. CASE ResetTask(t)
  BY <1>22 DEF ResetTask
<1>23. CASE ResetCancel(t)
  BY <1>23 DEF ResetCancel
<1>24. CASE Release(t)
  BY <1>24 DEF Release
<1>25. QED
  BY <1>1, <1>2, <1>3, <1>4, <1>5, <1>6, <1>7, <1>8, <1>9, <1>10, <1>11, <1>12,
     <1>13, <1>14, <1>15, <1>16, <1>17, <1>18, <1>19, <1>20, <1>21, <1>22, <1>23, <1>24 DEF Step

\* A moving state is set after the claim and overwritten before the reset.
LEMMA StepState ==
  ASSUME LockInv, NEW t \in Threads, Step(t)
  PROVE  StateByPhase'
<1>0. pc \in [Threads -> PCs] /\ Free \notin Threads
  BY ExecutorAssumption DEF LockInv, Typed, TypeOK
<1> USE <1>0 DEF LockInv, OneActionAtATime, StateByPhase, GoTo, Holding, Claiming,
                 Running, Checking, Finishing, Active
<1>1. CASE Receive(t)
  BY <1>1, ReceiveGoes
<1>2. CASE RefuseOffline(t)
  BY <1>2 DEF RefuseOffline
<1>3. CASE StopCancel(t)
  BY <1>3 DEF StopCancel
<1>4. CASE StopProbe(t)
  BY <1>4 DEF StopProbe
<1>5. CASE Acquire(t)
  BY <1>5 DEF Acquire, Reject
<1>6. CASE ClaimCancel(t)
  BY <1>6 DEF ClaimCancel
<1>7. CASE ClaimCommand(t)
  BY <1>7 DEF ClaimCommand
<1>8. CASE ClaimTask(t)
  BY <1>8 DEF ClaimTask
<1>9. CASE Plan(t)
  BY <1>9 DEF Plan
<1>10. CASE Start(t)
  BY <1>10 DEF Start
<1>11. CASE CheckOffline(t)
  BY <1>11 DEF CheckOffline, FailWith
<1>12. CASE CheckPath(t)
  BY <1>12 DEF CheckPath, FailWith
<1>13. CASE CheckFail(t)
  BY <1>13 DEF CheckFail
<1>14. CASE ConsumeFailure(t)
  BY <1>14 DEF ConsumeFailure, FailWith
<1>15. CASE CheckStop(t)
  BY <1>15 DEF CheckStop
<1>16. CASE Move(t)
  BY <1>16 DEF Move
<1>17. CASE Arrive(t)
  BY <1>17 DEF Arrive, Leave
<1>18. CASE Fail(t)
  BY <1>18 DEF Fail, Leave
<1>19. CASE Halt(t)
  BY <1>19 DEF Halt, Leave
<1>20. CASE Abort(t)
  BY <1>20 DEF Abort, Leave
<1>21. CASE ResetCommand(t)
  BY <1>21 DEF ResetCommand
<1>22. CASE ResetTask(t)
  BY <1>22 DEF ResetTask
<1>23. CASE ResetCancel(t)
  BY <1>23 DEF ResetCancel
<1>24. CASE Release(t)
  BY <1>24 DEF Release
<1>25. QED
  BY <1>1, <1>2, <1>3, <1>4, <1>5, <1>6, <1>7, <1>8, <1>9, <1>10, <1>11, <1>12,
     <1>13, <1>14, <1>15, <1>16, <1>17, <1>18, <1>19, <1>20, <1>21, <1>22, <1>23, <1>24 DEF Step

\* A delivery enters no part that holds the lock.
LEMMA DeliverLock ==
  ASSUME LockInv, NEW t \in Threads, NEW c \in Commands, Deliver(t, c)
  PROVE  OneActionAtATime' /\ IdsByPhase' /\ StateByPhase'
<1> USE DEF Holding, Claiming, Running, Checking, Finishing
<1>1. /\ pc \in [Threads -> PCs] /\ pc[t] = "new" /\ GoTo(t, "received")
      /\ cmd' = [cmd EXCEPT ![t] = c] /\ cmd \in [Threads -> Commands \cup {None}]
      /\ UNCHANGED <<busy_lock, current_command_id, current_task_id, state>>
  BY DEF LockInv, Typed, TypeOK, Deliver, ids
<1>2. OneActionAtATime'
  BY <1>1 DEF LockInv, OneActionAtATime, GoTo
<1>3. IdsByPhase'
  BY <1>1 DEF LockInv, IdsByPhase, GoTo, Ask
<1>4. StateByPhase'
  BY <1>1 DEF LockInv, StateByPhase, GoTo
<1>5. QED
  BY <1>2, <1>3, <1>4

\* The handlers of faults show a resting state, or leave the state alone.
LEMMA SurroundingsLock ==
  ASSUME LockInv, Surroundings
  PROVE  OneActionAtATime' /\ IdsByPhase' /\ StateByPhase'
<1>1. UNCHANGED <<pc, cmd, busy_lock, current_command_id, current_task_id>>
  BY SurroundingsAlone DEF locals, ids
<1>2. state' = state \/ state' \notin Active
  <2>1. CASE Broadcast
    BY <2>1 DEF Broadcast, RobotOffline, PathBlocked, InjectFailure, FaultRecovered,
                OnConnect
  <2>2. CASE Handle
    BY <2>2 DEF Handle, RobotOfflineState, FaultCancel, RecoverPath, RecoverFail,
                RecoverProbe, RecoverIdle, Active
  <2>3. CASE (\E w \in Watchers : Watch(w)) \/ Signal
    BY <2>3 DEF Watch, ReadCommand, ReadTask, Signal
  <2>4. QED
    BY <2>1, <2>2, <2>3 DEF Surroundings
<1>3. QED
  BY <1>1, <1>2 DEF LockInv, OneActionAtATime, IdsByPhase, StateByPhase, Ask

LEMMA InitLock == Init => LockInv
<1> SUFFICES ASSUME Init
             PROVE  LockInv
  OBVIOUS
<1>1. OneActionAtATime /\ IdsByPhase /\ StateByPhase
  BY DEF Init, OneActionAtATime, IdsByPhase, StateByPhase, Active, Holding, Claiming,
         Running, Checking, Finishing
<1>2. QED
  BY <1>1, InitTyped DEF LockInv

LEMMA NextLock == LockInv /\ [Next]_vars => LockInv'
<1> SUFFICES ASSUME LockInv, [Next]_vars
             PROVE  LockInv'
  OBVIOUS
<1>1. Typed'
  BY TypedStep DEF LockInv
<1>2. CASE UNCHANGED vars
  BY <1>1, <1>2 DEF vars, locals, ids, LockInv, OneActionAtATime, IdsByPhase,
                    StateByPhase, Ask
<1>3. QED
  BY <1>1, <1>2, NextCases, DeliverLock, StepExclusion, StepIds, StepState,
     SurroundingsLock DEF LockInv

THEOREM LockInvariant == Spec => []LockInv
  BY InitLock, NextLock, PTL DEF Spec

\* However many commands arrive, one thread at a time drives the robot.
THEOREM MutualExclusion == Spec => []OneActionAtATime
<1>1. LockInv => OneActionAtATime
  BY DEF LockInv
<1>2. QED
  BY <1>1, LockInvariant, PTL

\* The shared ids name the running action, and nothing when nothing runs.
THEOREM IdsCorrect == Spec => []IdsBelongToHolder
<1>1. LockInv => IdsBelongToHolder
  BY DEF LockInv, Typed, TypeOK, IdsByPhase, IdsBelongToHolder
<1>2. QED
  BY <1>1, LockInvariant, PTL

\* A free robot never shows a moving state, whatever wrote the state last.
THEOREM RestCorrect == Spec => []RestingStateWhenFree
<1>1. LockInv => RestingStateWhenFree
  BY DEF LockInv, StateByPhase, RestingStateWhenFree
<1>2. QED
  BY <1>1, LockInvariant, PTL

-----------------------------------------------------------------------------
\* Cancel requests

\* A request set while the holder will still check for it is on record, and the
\* program points that only a stop, or a request, leads to.
CancelByPhase ==
  /\ \A t \in Threads :
       /\ WillCheckStop(t) /\ pc[t] # "claim" /\ cancel_current_task =>
            <<t, "later">> \in asked
       /\ pc[t] = "halting" => <<t, "later">> \in asked \/ stop_event
       /\ pc[t] \in {"cancel", "probe"} => Ask(t).op = "stop"

\* A request that met an action is still set when the action checks for it, or
\* the action is on a way out that does not succeed.
RequestPending ==
  \A t \in Threads :
    <<t, "later">> \in asked =>
      \/ WillCheckStop(t) /\ pc[t] # "claim" /\ cancel_current_task
      \/ pc[t] \in {"consume", "failing", "halting", "abort", "done"} \cup Finishing

\* Success is the last thing an action reports.
SuccessIsLast ==
  \A t \in Threads : Told(t, "task.succeeded") => pc[t] \in Finishing \cup {"done"}

NothingToldYet == \A t \in Threads : pc[t] = "new" => ~Told(t, "task.stopped")

CancelInv == LockInv /\ CancelByPhase /\ RequestPending /\ SuccessIsLast
             /\ NothingToldYet /\ StopHasCause /\ StopObeyed

\* What a thread has told after publishing the events es.
LEMMA SayTold ==
  ASSUME TypeOK, NEW t \in Threads, NEW es \in Seq(Events), Say(t, es),
         NEW u \in Threads, NEW e
  PROVE  Told(u, e)' <=> Told(u, e) \/ (u = t /\ \E i \in 1..Len(es) : es[i] = e)
<1>1. CASE u # t
  BY <1>1 DEF TypeOK, Say, Told
<1>2. CASE u = t
  <2>1. told[t] \in Seq(Events) /\ told'[t] = told[t] \o es
    BY DEF TypeOK, Say
  <2>2. /\ Len(told'[t]) = Len(told[t]) + Len(es)
        /\ \A i \in 1..Len(told[t]) : told'[t][i] = told[t][i]
        /\ \A i \in 1..Len(es) : told'[t][Len(told[t]) + i] = es[i]
    BY <2>1
  <2>3. Len(told[t]) \in Nat /\ Len(es) \in Nat
    BY <2>1
  <2>4. ASSUME NEW j \in 1..Len(told'[t]), told'[t][j] = e
        PROVE  Told(t, e) \/ \E i \in 1..Len(es) : es[i] = e
    <3>1. CASE j \in 1..Len(told[t])
      BY <3>1, <2>2, <2>4 DEF Told
    <3>2. CASE j \notin 1..Len(told[t])
      <4>1. j - Len(told[t]) \in 1..Len(es) /\ j = Len(told[t]) + (j - Len(told[t]))
        BY <3>2, <2>2, <2>3
      <4>2. es[j - Len(told[t])] = e
        BY <4>1, <2>2, <2>4
      <4>3. QED
        BY <4>1, <4>2
    <3>3. QED
      BY <3>1, <3>2
  <2>5. ASSUME NEW j \in 1..Len(told[t]), told[t][j] = e
        PROVE  Told(t, e)'
    <3>1. j \in 1..Len(told'[t])
      BY <2>2, <2>3
    <3>2. QED
      BY <3>1, <2>2, <2>5 DEF Told
  <2>6. ASSUME NEW j \in 1..Len(es), es[j] = e
        PROVE  Told(t, e)'
    <3>1. Len(told[t]) + j \in 1..Len(told'[t])
      BY <2>2, <2>3
    <3>2. QED
      BY <3>1, <2>2, <2>6 DEF Told
  <2>7. QED
    BY <1>2, <2>4, <2>5, <2>6 DEF Told
<1>3. QED
  BY <1>1, <1>2

\* The events that say neither that a task stopped nor that it succeeded.
Quiet == Events \ {"task.stopped", "task.succeeded"}

\* What each step publishes.
LEMMA StepSays ==
  ASSUME NEW t \in Threads, Step(t)
  PROVE  \/ UNCHANGED told
         \/ \E es \in Seq(Quiet) : Say(t, es)
         \/ Halt(t) \/ StopProbe(t) \/ Arrive(t)
<1>1. /\ <<"command.rejected">> \in Seq(Quiet)
      /\ <<"command.accepted">> \in Seq(Quiet)
      /\ <<"action.progress">> \in Seq(Quiet)
      /\ <<"command.accepted", "where.result">> \in Seq(Quiet)
      /\ <<"command.rejected", "device.offline">> \in Seq(Quiet)
      /\ <<"action.started", "task.started">> \in Seq(Quiet)
      /\ <<"action.failed", "task.failed">> \in Seq(Quiet)
  BY DEF Quiet, Events
<1>2. CASE Receive(t) \/ RefuseOffline(t) \/ Acquire(t)
  BY <1>1, <1>2 DEF Receive, RefuseOffline, Acquire, Reject
<1>3. CASE Plan(t) \/ Start(t) \/ Move(t) \/ Fail(t) \/ Abort(t)
  BY <1>1, <1>3 DEF Plan, Start, Move, Fail, Abort, Leave
<1>4. QED
  BY <1>2, <1>3 DEF Step, StopCancel, ClaimCancel, ClaimCommand, ClaimTask, CheckOffline,
     CheckPath, CheckFail, ConsumeFailure, FailWith, CheckStop, ResetCommand, ResetTask,
     ResetCancel, Release

\* Only Halt and StopProbe report a stop, only Arrive a success.
LEMMA StepTold ==
  ASSUME Typed, NEW t \in Threads, Step(t), NEW u \in Threads
  PROVE  /\ Told(u, "task.stopped")' =>
              Told(u, "task.stopped") \/ (u = t /\ (Halt(t) \/ StopProbe(t)))
         /\ Told(u, "task.succeeded")' =>
              Told(u, "task.succeeded") \/ (u = t /\ Arrive(t))
<1> USE DEF Typed
<1>1. CASE UNCHANGED told
  BY <1>1 DEF Told
<1>2. ASSUME NEW es \in Seq(Quiet), Say(t, es)
      PROVE  /\ Told(u, "task.stopped")' => Told(u, "task.stopped")
             /\ Told(u, "task.succeeded")' => Told(u, "task.succeeded")
  <2>1. es \in Seq(Events) /\ \A i \in 1..Len(es) : es[i] \in Quiet
    BY DEF Quiet
  <2>2. QED
    BY <1>2, <2>1, SayTold DEF Quiet
<1>3. ASSUME NEW es \in {<<"task.stopped">>, <<"action.succeeded", "task.succeeded">>},
             Say(t, es)
      PROVE  /\ es = <<"task.stopped">> /\ Told(u, "task.succeeded")' =>
                   Told(u, "task.succeeded")
             /\ es # <<"task.stopped">> /\ Told(u, "task.stopped")' =>
                   Told(u, "task.stopped")
             /\ u # t => (Told(u, "task.succeeded")' => Told(u, "task.succeeded"))
                          /\ (Told(u, "task.stopped")' => Told(u, "task.stopped"))
  <2>1. es \in Seq(Events) /\ Len(es) \in {1, 2}
    BY <1>3, EventSequences
  <2>2. QED
    BY <1>3, <2>1, SayTold
<1>4. CASE Halt(t)
  BY <1>3, <1>4 DEF Halt, Leave
<1>5. CASE StopProbe(t)
  BY <1>1, <1>3, <1>5 DEF StopProbe
<1>6. CASE Arrive(t)
  BY <1>3, <1>6 DEF Arrive, Leave
<1>7. QED
  BY <1>1, <1>2, <1>4, <1>5, <1>6, StepSays

\* What a cancel request changes.
LEMMA RequestRecorded ==
  ASSUME TypeOK, OneActionAtATime, RequestCancel, NEW u \in Threads
  PROVE  /\ cancel_current_task' = TRUE
         /\ <<u, "later">> \in asked => <<u, "later">> \in asked'
         /\ <<u, "later">> \in asked' =>
              <<u, "later">> \in asked \/ (WillCheckStop(u) /\ pc[u] # "claim")
         /\ WillCheckStop(u) /\ pc[u] # "claim" => <<u, "later">> \in asked'
<1>1. WillCheckStop(u) => busy_lock = u /\ busy_lock # Free
  BY DEF OneActionAtATime, WillCheckStop, Holding, Running
<1>2. QED
  BY <1>1 DEF RequestCancel

\* A check of the stop flags is ahead of thread t, which has cleared the flag.
Ahead(t) == WillCheckStop(t) /\ pc[t] # "claim"

\* The ways out of an action that do not lead to success.
Exits == {"consume", "failing", "halting", "abort", "done"} \cup Finishing

\* A thread that goes on without touching the flag.
LEMMA CancelPasses ==
  ASSUME CancelInv, NEW t \in Threads, NEW p, pc' = [pc EXCEPT ![t] = p],
         UNCHANGED <<cmd, cancel_current_task, asked, stop_event>>,
         \A u \in Threads : u # t => step'[u] = step[u],
         Ahead(t)' => Ahead(t),
         Ahead(t) => Ahead(t)' \/ p \in Exits \/ ~cancel_current_task,
         pc[t] \in Exits => p \in Exits,
         p = "halting" => stop_event \/ (Ahead(t) /\ cancel_current_task),
         p \in {"cancel", "probe"} => Ask(t).op = "stop"
  PROVE  CancelByPhase' /\ RequestPending'
<1>1. pc'[t] = p /\ \A u \in Threads : u # t => pc'[u] = pc[u]
  BY DEF CancelInv, LockInv, Typed, TypeOK
<1>2. ASSUME NEW u \in Threads, u # t
      PROVE  Ahead(u)' <=> Ahead(u)
  BY <1>1, <1>2 DEF Ahead, WillCheckStop
<1>3. CancelByPhase'
  <2>1. \A u \in Threads : Ahead(u)' /\ cancel_current_task' => <<u, "later">> \in asked'
    BY <1>2 DEF CancelInv, CancelByPhase, Ahead
  <2>2. \A u \in Threads : pc'[u] = "halting" => <<u, "later">> \in asked' \/ stop_event'
    BY <1>1 DEF CancelInv, CancelByPhase, Ahead
  <2>3. \A u \in Threads : pc'[u] \in {"cancel", "probe"} => Ask(u)'.op = "stop"
    BY <1>1 DEF CancelInv, CancelByPhase, Ask
  <2>4. QED
    BY <2>1, <2>2, <2>3 DEF CancelByPhase, Ahead
<1>4. RequestPending'
  <2>1. \A u \in Threads : <<u, "later">> \in asked =>
           (Ahead(u) /\ cancel_current_task) \/ pc[u] \in Exits
    BY DEF CancelInv, RequestPending, Ahead, Exits
  <2>2. \A u \in Threads : <<u, "later">> \in asked' =>
           (Ahead(u)' /\ cancel_current_task') \/ pc'[u] \in Exits
    BY <1>1, <1>2, <2>1
  <2>3. QED
    BY <2>2 DEF RequestPending, Ahead, Exits
<1>5. QED
  BY <1>3, <1>4

\* The flag and the record of requests after each step of a command thread.
LEMMA StepCancel ==
  ASSUME CancelInv, NEW t \in Threads, Step(t)
  PROVE  CancelByPhase' /\ RequestPending'
<1>0. pc \in [Threads -> PCs]
  BY DEF CancelInv, LockInv, Typed, TypeOK
<1> USE DEF GoTo, Ahead, Exits, WillCheckStop, Claiming, Checking, Finishing, life, ghosts
<1>1. CASE Receive(t)
  <2>1. /\ pc[t] = "received" /\ UNCHANGED <<cmd, step, cancel_current_task, asked, stop_event>>
        /\ \E p \in {"done", "refuse", "cancel", "acquire"} :
             pc' = [pc EXCEPT ![t] = p] /\ (p = "cancel" => Ask(t).op = "stop")
    BY <1>1 DEF Receive, Reject
  <2>2. QED
    BY <1>0, <2>1, CancelPasses
<1>2. CASE RefuseOffline(t)
  <2>1. /\ pc[t] = "refuse" /\ UNCHANGED <<cmd, step, cancel_current_task, asked, stop_event>>
        /\ pc' = [pc EXCEPT ![t] = "done"]
    BY <1>2 DEF RefuseOffline
  <2>2. QED
    BY <1>0, <2>1, CancelPasses
<1>3. CASE StopCancel(t)
  <2>1. /\ pc[t] = "cancel" /\ pc' = [pc EXCEPT ![t] = "probe"]
        /\ cancel_current_task' = TRUE
        /\ UNCHANGED <<cmd, step, stop_event>>
    BY <1>3 DEF StopCancel, RequestCancel
  <2>2. \A u \in Threads : <<u, "later">> \in asked' <=> <<u, "later">> \in asked \/ Ahead(u)
    <3>1. TypeOK /\ OneActionAtATime /\ RequestCancel
      BY <1>3 DEF StopCancel, CancelInv, LockInv, Typed
    <3> HIDE DEF WillCheckStop
    <3>2. QED
      BY <3>1, RequestRecorded
  <2>3. /\ pc'[t] = "probe" /\ ~Ahead(t) /\ ~Ahead(t)' /\ <<t, "later">> \notin asked'
        /\ Ask(t).op = "stop"
    BY <1>0, <2>1, <2>2 DEF CancelInv, CancelByPhase, RequestPending
  <2>4. ASSUME NEW u \in Threads, u # t
        PROVE  pc'[u] = pc[u] /\ (Ahead(u)' <=> Ahead(u))
    BY <1>0, <2>1, <2>4
  <2>5. \A u \in Threads : <<u, "later">> \in asked => Ahead(u) \/ pc[u] \in Exits
    BY DEF CancelInv, RequestPending
  <2>6. \A u \in Threads : pc[u] = "halting" => <<u, "later">> \in asked \/ stop_event
    BY DEF CancelInv, CancelByPhase
  <2>7. \A u \in Threads : pc[u] \in {"cancel", "probe"} => Ask(u)'.op = "stop"
    BY <2>1 DEF CancelInv, CancelByPhase, Ask
  <2>8. CancelByPhase'
    <3> HIDE DEF Ahead, WillCheckStop, Exits
    <3>1. \A u \in Threads : Ahead(u)' => <<u, "later">> \in asked'
      BY <2>2, <2>3, <2>4
    <3>2. \A u \in Threads : pc'[u] = "halting" => <<u, "later">> \in asked' \/ stop_event'
      BY <2>1, <2>2, <2>3, <2>4, <2>6
    <3>3. \A u \in Threads : pc'[u] \in {"cancel", "probe"} => Ask(u)'.op = "stop"
      BY <2>1, <2>3, <2>4, <2>7
    <3>4. QED
      BY <3>1, <3>2, <3>3 DEF CancelByPhase, Ahead
  <2>9. RequestPending'
    <3> HIDE DEF Ahead, WillCheckStop, Exits
    <3>1. \A u \in Threads : <<u, "later">> \in asked' => Ahead(u)' \/ pc'[u] \in Exits
      BY <2>2, <2>3, <2>4, <2>5
    <3>2. QED
      BY <2>1, <3>1 DEF RequestPending, Ahead, Exits
  <2>10. QED
    BY <2>8, <2>9
<1>4. CASE StopProbe(t)
  <2>1. /\ pc[t] = "probe" /\ UNCHANGED <<cmd, step, cancel_current_task, asked, stop_event>>
        /\ pc' = [pc EXCEPT ![t] = "done"]
    BY <1>4 DEF StopProbe
  <2>2. QED
    BY <1>0, <2>1, CancelPasses
<1>5. CASE Acquire(t)
  <2>1. /\ pc[t] = "acquire" /\ UNCHANGED <<cmd, step, cancel_current_task, asked, stop_event>>
        /\ \E p \in {"done", "claim"} : pc' = [pc EXCEPT ![t] = p]
    BY <1>5 DEF Acquire, Reject
  <2>2. QED
    BY <1>0, <2>1, CancelPasses
<1>6. CASE ClaimCancel(t)
  <2>1. /\ pc[t] = "claim" /\ pc' = [pc EXCEPT ![t] = "name"] /\ cancel_current_task' = FALSE
        /\ UNCHANGED <<cmd, step, asked, stop_event>>
    BY <1>6 DEF ClaimCancel
  <2>2. \A u \in Threads : u # t => ~Ahead(u)
    BY <2>1 DEF CancelInv, LockInv, OneActionAtATime, Holding, Running
  <2>3. QED
    BY <1>0, <2>1, <2>2 DEF CancelInv, CancelByPhase, RequestPending, Ask
<1>7. CASE ClaimCommand(t)
  <2>1. /\ pc[t] = "name" /\ UNCHANGED <<cmd, step, cancel_current_task, asked, stop_event>>
        /\ pc' = [pc EXCEPT ![t] = "enter"]
    BY <1>7 DEF ClaimCommand
  <2>2. QED
    BY <1>0, <2>1, CancelPasses
<1>8. CASE ClaimTask(t)
  <2>1. /\ pc[t] = "enter" /\ UNCHANGED <<cmd, step, cancel_current_task, asked, stop_event>>
        /\ pc' = [pc EXCEPT ![t] = "plan"]
    BY <1>8 DEF ClaimTask
  <2>2. QED
    BY <1>0, <2>1, CancelPasses
<1>9. CASE Plan(t)
  <2>1. /\ pc[t] = "plan" /\ UNCHANGED <<cmd, step, cancel_current_task, asked, stop_event>>
        /\ \E p \in {"abort", "start"} : pc' = [pc EXCEPT ![t] = p]
    BY <1>9 DEF Plan
  <2>2. QED
    BY <1>0, <2>1, CancelPasses
<1>10. CASE Start(t)
  <2>1. /\ pc[t] = "start" /\ UNCHANGED <<cmd, step, cancel_current_task, asked, stop_event>>
        /\ pc' = [pc EXCEPT ![t] = "offline?"]
    BY <1>10 DEF Start
  <2>2. QED
    BY <1>0, <2>1, CancelPasses
<1>11. CASE CheckOffline(t)
  <2>1. /\ pc[t] = "offline?" /\ UNCHANGED <<cmd, step, cancel_current_task, asked, stop_event>>
        /\ \E p \in {"failing", "path?"} : pc' = [pc EXCEPT ![t] = p]
    BY <1>11 DEF CheckOffline, FailWith
  <2>2. QED
    BY <1>0, <2>1, CancelPasses
<1>12. CASE CheckPath(t)
  <2>1. /\ pc[t] = "path?" /\ UNCHANGED <<cmd, step, cancel_current_task, asked, stop_event>>
        /\ \E p \in {"failing", "fail?"} : pc' = [pc EXCEPT ![t] = p]
    BY <1>12 DEF CheckPath, FailWith
  <2>2. QED
    BY <1>0, <2>1, CancelPasses
<1>13. CASE CheckFail(t)
  <2>1. /\ pc[t] = "fail?" /\ UNCHANGED <<cmd, step, cancel_current_task, asked, stop_event>>
        /\ \E p \in {"consume", "stop?"} : pc' = [pc EXCEPT ![t] = p]
    BY <1>13 DEF CheckFail
  <2>2. QED
    BY <1>0, <2>1, CancelPasses
<1>14. CASE ConsumeFailure(t)
  <2>1. /\ pc[t] = "consume" /\ UNCHANGED <<cmd, step, cancel_current_task, asked, stop_event>>
        /\ pc' = [pc EXCEPT ![t] = "failing"]
    BY <1>14 DEF ConsumeFailure, FailWith
  <2>2. QED
    BY <1>0, <2>1, CancelPasses
<1>15. CASE CheckStop(t)
  <2>1. /\ pc[t] = "stop?" /\ UNCHANGED <<cmd, step, cancel_current_task, asked, stop_event>>
        /\ \/ pc' = [pc EXCEPT ![t] = "halting"] /\ (stop_event \/ cancel_current_task)
           \/ pc' = [pc EXCEPT ![t] = "move"] /\ ~cancel_current_task
    BY <1>15 DEF CheckStop
  <2>2. QED
    BY <1>0, <2>1, CancelPasses
<1>16. CASE Move(t)
  <2>1. PICK p \in {"abort", "offline?", "arrive"} :
          /\ pc[t] = "move" /\ pc' = [pc EXCEPT ![t] = p]
          /\ p = "offline?" => step[t] + 1 < Steps
          /\ p = "arrive" => ~(step[t] + 1 < Steps)
    BY <1>16 DEF Move
  <2>2. /\ UNCHANGED <<cmd, cancel_current_task, asked, stop_event>>
        /\ \A u \in Threads : u # t => step'[u] = step[u]
    BY <1>16 DEF Move, CancelInv, LockInv, Typed, TypeOK
  <2>3. pc'[t] = p
    BY <1>0, <2>1
  <2>4. /\ Ahead(t)' => Ahead(t)
        /\ Ahead(t) => Ahead(t)' \/ p \in Exits
        /\ pc[t] \notin Exits /\ p \notin {"halting", "cancel", "probe"}
    BY <2>1, <2>3
  <2> HIDE DEF Ahead, Exits
  <2>5. QED
    BY <2>1, <2>2, <2>4, CancelPasses
<1>17. CASE Arrive(t)
  <2>1. /\ pc[t] = "arrive" /\ UNCHANGED <<cmd, step, cancel_current_task, asked, stop_event>>
        /\ pc' = [pc EXCEPT ![t] = "reset command"]
    BY <1>17 DEF Arrive, Leave
  <2>2. QED
    BY <1>0, <2>1, CancelPasses
<1>18. CASE Fail(t)
  <2>1. /\ pc[t] = "failing" /\ UNCHANGED <<cmd, step, cancel_current_task, asked, stop_event>>
        /\ pc' = [pc EXCEPT ![t] = "reset command"]
    BY <1>18 DEF Fail, Leave
  <2>2. QED
    BY <1>0, <2>1, CancelPasses
<1>19. CASE Halt(t)
  <2>1. /\ pc[t] = "halting" /\ UNCHANGED <<cmd, step, cancel_current_task, asked, stop_event>>
        /\ pc' = [pc EXCEPT ![t] = "reset command"]
    BY <1>19 DEF Halt, Leave
  <2>2. QED
    BY <1>0, <2>1, CancelPasses
<1>20. CASE Abort(t)
  <2>1. /\ pc[t] = "abort" /\ UNCHANGED <<cmd, step, cancel_current_task, asked, stop_event>>
        /\ pc' = [pc EXCEPT ![t] = "reset command"]
    BY <1>20 DEF Abort, Leave
  <2>2. QED
    BY <1>0, <2>1, CancelPasses
<1>21. CASE ResetCommand(t)
  <2>1. /\ pc[t] = "reset command" /\ UNCHANGED <<cmd, step, cancel_current_task, asked, stop_event>>
        /\ pc' = [pc EXCEPT ![t] = "reset task"]
    BY <1>21 DEF ResetCommand
  <2>2. QED
    BY <1>0, <2>1, CancelPasses
<1>22. CASE ResetTask(t)
  <2>1. /\ pc[t] = "reset task" /\ UNCHANGED <<cmd, step, cancel_current_task, asked, stop_event>>
        /\ pc' = [pc EXCEPT ![t] = "reset cancel"]
    BY <1>22 DEF ResetTask
  <2>2. QED
    BY <1>0, <2>1, CancelPasses
<1>23. CASE ResetCancel(t)
  <2>1. /\ pc[t] = "reset cancel" /\ pc' = [pc EXCEPT ![t] = "release"]
        /\ cancel_current_task' = FALSE
        /\ UNCHANGED <<cmd, step, asked, stop_event>>
    BY <1>23 DEF ResetCancel
  <2>2. \A u \in Threads : ~Ahead(u)
    BY <2>1 DEF CancelInv, LockInv, OneActionAtATime, Holding, Running
  <2>3. QED
    BY <1>0, <2>1, <2>2 DEF CancelInv, CancelByPhase, RequestPending, Ask
<1>24. CASE Release(t)
  <2>1. /\ pc[t] = "release" /\ UNCHANGED <<cmd, step, cancel_current_task, asked, stop_event>>
        /\ pc' = [pc EXCEPT ![t] = "done"]
    BY <1>24 DEF Release
  <2>2. QED
    BY <1>0, <2>1, CancelPasses
<1>25. QED
  BY <1>1, <1>2, <1>3, <1>4, <1>5, <1>6, <1>7, <1>8, <1>9, <1>10, <1>11, <1>12,
     <1>13, <1>14, <1>15, <1>16, <1>17, <1>18, <1>19, <1>20, <1>21, <1>22, <1>23, <1>24 DEF Step

\* Reports of stops and successes after each step of a command thread.
LEMMA StepReports ==
  ASSUME CancelInv, NEW t \in Threads, Step(t)
  PROVE  SuccessIsLast' /\ NothingToldYet' /\ StopHasCause' /\ StopObeyed'
<1> USE DEF CancelInv, LockInv
<1>1. /\ pc \in [Threads -> PCs] /\ pc[t] # "new"
      /\ cmd' = cmd
      /\ \A u \in Threads : u # t => pc'[u] = pc[u]
      /\ pc'[t] # "new"
  <2> USE DEF Typed, TypeOK, GoTo, PCs, Holding, Claiming, Running, Checking, Finishing
  <2>1. CASE Receive(t)
    BY <2>1, ReceiveGoes
  <2>2. CASE RefuseOffline(t) \/ StopCancel(t) \/ StopProbe(t) \/ Acquire(t)
    BY <2>2 DEF RefuseOffline, StopCancel, StopProbe, Acquire, Reject
  <2>3. CASE ClaimCancel(t) \/ ClaimCommand(t) \/ ClaimTask(t) \/ Plan(t) \/ Start(t)
    BY <2>3 DEF ClaimCancel, ClaimCommand, ClaimTask, Plan, Start
  <2>4. CASE CheckOffline(t) \/ CheckPath(t) \/ CheckFail(t) \/ ConsumeFailure(t)
             \/ CheckStop(t) \/ Move(t)
    BY <2>4 DEF CheckOffline, CheckPath, CheckFail, ConsumeFailure, CheckStop, Move,
                FailWith
  <2>5. CASE Arrive(t) \/ Fail(t) \/ Halt(t) \/ Abort(t)
    BY <2>5 DEF Arrive, Fail, Halt, Abort, Leave
  <2>6. CASE ResetCommand(t) \/ ResetTask(t) \/ ResetCancel(t) \/ Release(t)
    BY <2>6 DEF ResetCommand, ResetTask, ResetCancel, Release
  <2>7. QED
    BY <2>1, <2>2, <2>3, <2>4, <2>5, <2>6 DEF Step
<1>2. ASSUME NEW u \in Threads
      PROVE  <<u, "later">> \in asked' <=>
               <<u, "later">> \in asked
               \/ ((\E s \in Threads : StopCancel(s)) /\ asked' # asked
                   /\ WillCheckStop(u) /\ pc[u] # "claim")
  <2>1. CASE asked' = asked
    BY <2>1
  <2>2. CASE StopCancel(t) /\ asked' # asked
    BY <2>2, RequestRecorded DEF StopCancel, Typed
  <2>3. asked' = asked \/ StopCancel(t)
    BY DEF Step, Receive, RefuseOffline, StopProbe, Acquire, ClaimCancel, ClaimCommand,
       ClaimTask, Plan, Start, CheckOffline, CheckPath, CheckFail, ConsumeFailure,
       CheckStop, Move, Arrive, Fail, Halt, Abort, Leave, ResetCommand, ResetTask,
       ResetCancel, Release, ghosts
  <2>4. QED
    BY <2>1, <2>2, <2>3
<1>3. stop_event' = stop_event
  BY DEF Step, Receive, RefuseOffline, StopCancel, StopProbe, Acquire, ClaimCancel,
     ClaimCommand, ClaimTask, Plan, Start, CheckOffline, CheckPath, CheckFail,
     ConsumeFailure, CheckStop, Move, Arrive, Fail, Halt, Abort, Leave, ResetCommand,
     ResetTask, ResetCancel, Release, life
<1>4. SuccessIsLast'
  <2>1. pc[t] \in Finishing \cup {"done"} => pc'[t] \in Finishing \cup {"done"}
    BY <1>1 DEF Step, Receive, RefuseOffline, StopCancel, StopProbe, Acquire, ClaimCancel,
       ClaimCommand, ClaimTask, Plan, Start, CheckOffline, CheckPath, CheckFail,
       ConsumeFailure, CheckStop, Move, Arrive, Fail, Halt, Abort, Leave, ResetCommand,
       ResetTask, ResetCancel, Release, Finishing, GoTo
  <2>2. Arrive(t) => pc'[t] \in Finishing
    BY <1>1 DEF Arrive, Leave, GoTo, Finishing
  <2>3. QED
    BY <1>1, <2>1, <2>2, StepTold DEF SuccessIsLast
<1>5. NothingToldYet'
  BY <1>1, StepTold DEF NothingToldYet
<1>6. StopHasCause'
  <2>1. Halt(t) => <<t, "later">> \in asked \/ stop_event
    BY DEF Halt, Leave, CancelByPhase
  <2>2. StopProbe(t) => Ask(t).op = "stop"
    BY DEF StopProbe, CancelByPhase
  <2>3. QED
    BY <1>1, <1>2, <1>3, <2>1, <2>2, StepTold DEF StopHasCause, RanAction, Ask
<1>7. StopObeyed'
  <2>1. Arrive(t) => <<t, "later">> \notin asked /\ asked' = asked
    BY DEF Arrive, Leave, RequestPending, WillCheckStop, Claiming, Checking, Finishing,
           ghosts
  <2>2. ASSUME NEW u \in Threads, WillCheckStop(u)
        PROVE  ~Told(u, "task.succeeded")
    BY <2>2 DEF SuccessIsLast, WillCheckStop, Claiming, Checking, Finishing
  <2>3. QED
    BY <1>2, <2>1, <2>2, StepTold DEF StopObeyed
<1>8. QED
  BY <1>4, <1>5, <1>6, <1>7

\* A delivery meets no request and has told nothing.
LEMMA DeliverCancel ==
  ASSUME CancelInv, NEW t \in Threads, NEW c \in Commands, Deliver(t, c)
  PROVE  /\ CancelByPhase' /\ RequestPending'
         /\ SuccessIsLast' /\ NothingToldYet' /\ StopHasCause' /\ StopObeyed'
<1>1. /\ pc \in [Threads -> PCs] /\ pc[t] = "new" /\ pc' = [pc EXCEPT ![t] = "received"]
      /\ cmd' = [cmd EXCEPT ![t] = c] /\ cmd \in [Threads -> Commands \cup {None}]
      /\ UNCHANGED <<step, told, asked, stop_event, cancel_current_task>>
  BY DEF CancelInv, LockInv, Typed, TypeOK, Deliver, GoTo, ghosts, life
<1>2. CancelByPhase' /\ RequestPending'
  BY <1>1 DEF CancelInv, CancelByPhase, RequestPending, WillCheckStop, Claiming, Checking,
              Finishing, Ask
<1>3. \A u \in Threads, e \in {"task.stopped", "task.succeeded"} : Told(u, e)' <=> Told(u, e)
  BY <1>1 DEF Told
<1>4. SuccessIsLast' /\ NothingToldYet'
  BY <1>1, <1>3 DEF CancelInv, SuccessIsLast, NothingToldYet, Finishing
<1>5. StopHasCause' /\ StopObeyed'
  BY <1>1, <1>3 DEF CancelInv, NothingToldYet, StopHasCause, StopObeyed, RanAction, Ask
<1>6. QED
  BY <1>2, <1>4, <1>5

\* Only a fault sets the flag from outside, and it goes on record.
LEMMA SurroundingsCancel ==
  ASSUME CancelInv, Surroundings
  PROVE  /\ CancelByPhase' /\ RequestPending'
         /\ SuccessIsLast' /\ NothingToldYet' /\ StopHasCause' /\ StopObeyed'
<1>1. UNCHANGED <<pc, cmd, step, told>>
  BY SurroundingsAlone DEF locals
<1>2. stop_event => stop_event'
  BY DEF Surroundings, Broadcast, RobotOffline, PathBlocked, InjectFailure, FaultRecovered,
         OnConnect, Handle, RobotOfflineState, FaultCancel, RecoverPath, RecoverFail,
         RecoverProbe, RecoverIdle, Watch, ReadCommand, ReadTask, Signal, life
<1>3. RequestCancel \/ (cancel_current_task' = cancel_current_task /\ asked' = asked)
  BY DEF Surroundings, Broadcast, RobotOffline, PathBlocked, InjectFailure, FaultRecovered,
         OnConnect, Handle, RobotOfflineState, FaultCancel, RecoverPath, RecoverFail,
         RecoverProbe, RecoverIdle, Watch, ReadCommand, ReadTask, Signal, ghosts
<1>4. \A u \in Threads : WillCheckStop(u)' <=> WillCheckStop(u)
  BY <1>1 DEF WillCheckStop
<1>5. ASSUME NEW u \in Threads
      PROVE  /\ <<u, "later">> \in asked => <<u, "later">> \in asked'
             /\ <<u, "later">> \in asked' =>
                  <<u, "later">> \in asked \/ (WillCheckStop(u) /\ pc[u] # "claim"
                                               /\ cancel_current_task' = TRUE)
             /\ WillCheckStop(u) /\ pc[u] # "claim" /\ cancel_current_task' =>
                  <<u, "later">> \in asked'
             /\ cancel_current_task => cancel_current_task'
  <2>1. CASE RequestCancel
    BY <2>1, RequestRecorded DEF CancelInv, LockInv, Typed
  <2>2. CASE cancel_current_task' = cancel_current_task /\ asked' = asked
    BY <2>2 DEF CancelInv, CancelByPhase
  <2>3. QED
    BY <1>3, <2>1, <2>2
<1>6. CancelByPhase' /\ RequestPending'
  BY <1>1, <1>2, <1>4, <1>5 DEF CancelInv, CancelByPhase, RequestPending, Ask
<1>7. \A u \in Threads, e \in {"task.stopped", "task.succeeded"} : Told(u, e)' <=> Told(u, e)
  BY <1>1 DEF Told
<1>8. SuccessIsLast' /\ NothingToldYet' /\ StopHasCause'
  BY <1>1, <1>2, <1>5, <1>7
     DEF CancelInv, SuccessIsLast, NothingToldYet, StopHasCause, RanAction, Ask
<1>9. StopObeyed'
  <2>1. ASSUME NEW u \in Threads, WillCheckStop(u)
        PROVE  ~Told(u, "task.succeeded")
    BY <2>1 DEF CancelInv, SuccessIsLast, WillCheckStop, Claiming, Checking, Finishing
  <2>2. QED
    BY <1>5, <1>7, <2>1 DEF CancelInv, StopObeyed
<1>10. QED
  BY <1>6, <1>8, <1>9

LEMMA InitCancel == Init => CancelInv
<1> SUFFICES ASSUME Init
             PROVE  CancelInv
  OBVIOUS
<1>1. \A t \in Threads, e \in {"task.stopped", "task.succeeded"} : ~Told(t, e)
  BY DEF Init, Told
<1>2. CancelByPhase /\ RequestPending
  BY DEF Init, CancelByPhase, RequestPending, WillCheckStop, Claiming, Checking
<1>3. SuccessIsLast /\ NothingToldYet /\ StopHasCause /\ StopObeyed
  BY <1>1 DEF SuccessIsLast, NothingToldYet, StopHasCause, StopObeyed
<1>4. QED
  BY <1>2, <1>3, InitLock DEF CancelInv

LEMMA NextCancel == CancelInv /\ [Next]_vars => CancelInv'
<1> SUFFICES ASSUME CancelInv, [Next]_vars
             PROVE  CancelInv'
  OBVIOUS
<1>1. LockInv'
  BY NextLock DEF CancelInv
<1>2. CASE UNCHANGED vars
  <2>1. UNCHANGED <<pc, cmd, step, told, asked, stop_event, cancel_current_task>>
    BY <1>2 DEF vars, locals, ghosts, life
  <2>2. QED
    BY <1>1, <2>1 DEF CancelInv, CancelByPhase, RequestPending, WillCheckStop,
       SuccessIsLast, NothingToldYet, StopHasCause, StopObeyed, RanAction, Told, Ask
<1>3. QED
  BY <1>1, <1>2, NextCases, DeliverCancel, StepCancel, StepReports, SurroundingsCancel
     DEF CancelInv

THEOREM CancelInvariant == Spec => []CancelInv
  BY InitCancel, NextCancel, PTL DEF Spec

\* No action is stopped by a request meant for an earlier one, or made while the
\* robot was idle.
THEOREM StopCauseCorrect == Spec => []StopHasCause
<1>1. CancelInv => StopHasCause
  BY DEF CancelInv
<1>2. QED
  BY <1>1, CancelInvariant, PTL

\* An action that a request met before its last check does not succeed.
THEOREM StopObedience == Spec => []StopObeyed
<1>1. CancelInv => StopObeyed
  BY DEF CancelInv
<1>2. QED
  BY <1>1, CancelInvariant, PTL

-----------------------------------------------------------------------------
\* The contract of the result events

\* What the events published so far may say of a delivery, point by point.
Fits(p, phase) ==
  /\ p \in {"new", "received", "refuse", "acquire", "claim", "name", "enter", "plan"} =>
       phase = "silent"
  /\ p \in {"cancel", "probe", "start"} => phase = "accepted"
  /\ p \in {"offline?", "path?", "fail?", "stop?", "consume", "move", "arrive", "failing",
            "halting"} => phase = "running"
  /\ p = "abort" => phase \in {"silent", "accepted", "running"}
  /\ p \in {"reset command", "reset task", "reset cancel", "release"} =>
       phase \in {"succeeded", "failed", "stopped"}
  /\ p = "done" => phase \notin {"silent", "running"}

PhaseByPc == \A t \in Threads : Fits(pc[t], Phase(t))

ContractInv == LockInv /\ PhaseByPc

\* The phase is read off the last event published.
LEMMA SayPhase ==
  ASSUME TypeOK, NEW t \in Threads, NEW es \in Seq(Events), es # <<>>, Say(t, es)
  PROVE  /\ Phase(t)' = PhaseOf(es[Len(es)])
         /\ \A u \in Threads : u # t => Phase(u)' = Phase(u)
<1>1. told \in [Threads -> Seq(Events)] /\ told' = [told EXCEPT ![t] = @ \o es]
  BY DEF TypeOK, Say
<1>2. told[t] \in Seq(Events) /\ told'[t] = told[t] \o es
  BY <1>1
<1>3. Len(es) \in Nat /\ Len(es) > 0
  OBVIOUS
<1>4. /\ told[t] \o es # <<>>
      /\ (told[t] \o es)[Len(told[t] \o es)] = es[Len(es)]
  BY <1>2, <1>3
<1>5. Phase(t)' = PhaseOf(es[Len(es)])
  BY <1>2, <1>4 DEF Phase
<1>6. \A u \in Threads : u # t => Phase(u)' = Phase(u)
  BY <1>1 DEF Phase
<1>7. QED
  BY <1>5, <1>6

\* The changes of phase the contract allows, running apart.
Passes(a, b) ==
  \/ a = "silent" /\ b \in {"rejected", "answered", "accepted", "failed"}
  \/ a = "accepted" /\ b \in {"failed", "stopped"}
  \/ a = "running" /\ b \in {"succeeded", "failed", "stopped"}

\* The phase each batch of events ends in.
LEMMA EventPhases ==
  ASSUME TypeOK, NEW t \in Threads
  PROVE  /\ Say(t, <<"command.rejected">>) => Phase(t)' = "rejected"
         /\ Say(t, <<"command.accepted">>) => Phase(t)' = "accepted"
         /\ Say(t, <<"task.stopped">>) => Phase(t)' = "stopped"
         /\ Say(t, <<"action.progress">>) => Phase(t)' = "running"
         /\ Say(t, <<"command.accepted", "where.result">>) => Phase(t)' = "answered"
         /\ Say(t, <<"command.rejected", "device.offline">>) => Phase(t)' = "rejected"
         /\ Say(t, <<"action.started", "task.started">>) => Phase(t)' = "running"
         /\ Say(t, <<"action.succeeded", "task.succeeded">>) => Phase(t)' = "succeeded"
         /\ Say(t, <<"action.failed", "task.failed">>) => Phase(t)' = "failed"
<1>1. ASSUME NEW e \in Events, Say(t, <<e>>)
      PROVE  Phase(t)' = PhaseOf(e)
  <2>1. <<e>> \in Seq(Events) /\ <<e>> # <<>> /\ <<e>>[Len(<<e>>)] = e
    OBVIOUS
  <2>2. QED
    BY <1>1, <2>1, SayPhase
<1>2. ASSUME NEW d \in Events, NEW e \in Events, Say(t, <<d, e>>)
      PROVE  Phase(t)' = PhaseOf(e)
  <2>1. <<d, e>> \in Seq(Events) /\ <<d, e>> # <<>> /\ <<d, e>>[Len(<<d, e>>)] = e
    OBVIOUS
  <2>2. QED
    BY <1>2, <2>1, SayPhase
<1>3. QED
  BY <1>1, <1>2 DEF PhaseOf, Events

\* What a step of thread t does to its phase.
LEMMA StepPhase ==
  ASSUME ContractInv, NEW t \in Threads, Step(t)
  PROVE  /\ Fits(pc'[t], Phase(t)')
         /\ \/ Phase(t)' = Phase(t)
            \/ Passes(Phase(t), Phase(t)')
            \/ pc[t] = "start" /\ Phase(t) = "accepted" /\ Phase(t)' = "running"
<1>0. TypeOK /\ pc \in [Threads -> PCs] /\ Fits(pc[t], Phase(t))
  BY DEF ContractInv, LockInv, Typed, TypeOK, PhaseByPc
<1>1. UNCHANGED told => Phase(t)' = Phase(t)
  BY DEF Phase
<1> USE <1>0, <1>1, EventPhases DEF Fits, Passes, GoTo
<1>2. CASE Receive(t)
  BY <1>2 DEF Receive, Reject
<1>3. CASE RefuseOffline(t)
  BY <1>3 DEF RefuseOffline
<1>4. CASE StopCancel(t)
  BY <1>4 DEF StopCancel
<1>5. CASE StopProbe(t)
  BY <1>5 DEF StopProbe
<1>6. CASE Acquire(t)
  BY <1>6 DEF Acquire, Reject
<1>7. CASE ClaimCancel(t) \/ ClaimCommand(t) \/ ClaimTask(t)
  BY <1>7 DEF ClaimCancel, ClaimCommand, ClaimTask
<1>8. CASE Plan(t)
  BY <1>8 DEF Plan
<1>9. CASE Start(t)
  BY <1>9 DEF Start
<1>10. CASE CheckOffline(t) \/ CheckPath(t) \/ CheckFail(t) \/ ConsumeFailure(t) \/ CheckStop(t)
  BY <1>10 DEF CheckOffline, CheckPath, CheckFail, ConsumeFailure, CheckStop, FailWith
<1>11. CASE Move(t)
  BY <1>11 DEF Move
<1>12. CASE Arrive(t)
  BY <1>12 DEF Arrive, Leave
<1>13. CASE Fail(t)
  BY <1>13 DEF Fail, Leave
<1>14. CASE Halt(t)
  BY <1>14 DEF Halt, Leave
<1>15. CASE Abort(t)
  BY <1>15 DEF Abort, Leave
<1>16. CASE ResetCommand(t) \/ ResetTask(t) \/ ResetCancel(t) \/ Release(t)
  BY <1>16 DEF ResetCommand, ResetTask, ResetCancel, Release
<1>17. QED
  BY <1>2, <1>3, <1>4, <1>5, <1>6, <1>7, <1>8, <1>9, <1>10, <1>11, <1>12, <1>13, <1>14,
     <1>15, <1>16 DEF Step

\* Its step leaves the other threads alone.
LEMMA StepOthers ==
  ASSUME TypeOK, NEW t \in Threads, Step(t), NEW u \in Threads, u # t
  PROVE  Phase(u)' = Phase(u) /\ pc'[u] = pc[u]
<1> USE DEF TypeOK, GoTo
<1>1. pc'[u] = pc[u]
  BY DEF Step, Receive, Reject, RefuseOffline, StopCancel, StopProbe, Acquire, ClaimCancel,
     ClaimCommand, ClaimTask, Plan, Start, CheckOffline, CheckPath, CheckFail,
     ConsumeFailure, FailWith, CheckStop, Move, Arrive, Fail, Halt, Abort, Leave,
     ResetCommand, ResetTask, ResetCancel, Release
<1>2. told'[u] = told[u]
  BY DEF Say, Step, Receive, Reject, RefuseOffline, StopCancel, StopProbe, Acquire,
     ClaimCancel, ClaimCommand, ClaimTask, Plan, Start, CheckOffline, CheckPath, CheckFail,
     ConsumeFailure, FailWith, CheckStop, Move, Arrive, Fail, Halt, Abort, Leave,
     ResetCommand, ResetTask, ResetCancel, Release
<1>3. QED
  BY <1>1, <1>2 DEF Phase

LEMMA StepPhaseByPc ==
  ASSUME ContractInv, NEW t \in Threads, Step(t)
  PROVE  PhaseByPc'
BY StepPhase, StepOthers DEF ContractInv, LockInv, Typed, PhaseByPc

\* A delivery is silent, and nothing else says anything.
LEMMA SilentSteps ==
  ASSUME TypeOK,
         \/ \E t \in Threads, c \in Commands : Deliver(t, c)
         \/ Surroundings
         \/ UNCHANGED vars
  PROVE  \A u \in Threads : Phase(u)' = Phase(u) /\ (pc'[u] = pc[u] \/
                              (pc[u] = "new" /\ pc'[u] = "received"))
<1>1. CASE \E t \in Threads, c \in Commands : Deliver(t, c)
  BY <1>1 DEF TypeOK, Deliver, GoTo, Phase
<1>2. CASE Surroundings
  BY <1>2, SurroundingsAlone DEF locals, Phase
<1>3. CASE UNCHANGED vars
  BY <1>3 DEF vars, locals, Phase
<1>4. QED
  BY <1>1, <1>2, <1>3

LEMMA NextContract == ContractInv /\ [Next]_vars => ContractInv'
<1> SUFFICES ASSUME ContractInv, [Next]_vars
             PROVE  ContractInv'
  OBVIOUS
<1>1. LockInv' /\ TypeOK
  BY NextLock DEF ContractInv, LockInv, Typed
<1>2. ASSUME NEW t \in Threads, Step(t)
      PROVE  PhaseByPc'
  BY <1>2, StepPhaseByPc
<1>3. CASE \A u \in Threads : Phase(u)' = Phase(u) /\ (pc'[u] = pc[u] \/
                                (pc[u] = "new" /\ pc'[u] = "received"))
  BY <1>1, <1>3 DEF ContractInv, PhaseByPc, Fits
<1>4. QED
  BY <1>1, <1>2, <1>3, NextCases, SilentSteps DEF ContractInv

LEMMA InitContract == Init => ContractInv
<1> SUFFICES ASSUME Init
             PROVE  ContractInv
  OBVIOUS
<1>1. PhaseByPc
  BY DEF Init, PhaseByPc, Fits, Phase
<1>2. QED
  BY <1>1, InitLock DEF ContractInv

THEOREM ContractInvariant == Spec => []ContractInv
  BY InitContract, NextContract, PTL DEF Spec

\* Only the holder of the lock is reported as running.
LEMMA RunningHolds ==
  ASSUME ContractInv, NEW t \in Threads, Phase(t) = "running"
  PROVE  busy_lock = t
<1>1. Fits(pc[t], Phase(t)) /\ pc[t] \in PCs
  BY DEF ContractInv, LockInv, Typed, TypeOK, PhaseByPc
<1>2. pc[t] \in Holding
  BY <1>1 DEF Fits, PCs, Holding, Claiming, Running, Checking, Finishing
<1>3. QED
  BY <1>2 DEF ContractInv, LockInv, OneActionAtATime

phases == [t \in Threads |-> Phase(t)]

\* A change of one phase that the contract allows is a step of the contract.
LEMMA ContractStep ==
  ASSUME NEW t \in Threads,
         \A u \in Threads : u # t => Phase(u)' = Phase(u),
         \/ Passes(Phase(t), Phase(t)')
         \/ /\ Phase(t) = "accepted" /\ Phase(t)' = "running"
            /\ \A u \in Threads : Phase(u) # "running"
  PROVE  Contract!Next
<1>1. Contract!Become(t, Phase(t)')
  BY DEF Contract!Become
<1>2. phases[t] = Phase(t) /\ \A u \in Threads : phases[u] = Phase(u)
  BY DEF phases
<1>3. CASE Phase(t) = "silent" /\ Phase(t)' \in {"rejected", "answered", "accepted"}
  BY <1>1, <1>2, <1>3 DEF Contract!Next, Contract!Respond, phases
<1>4. CASE Phase(t) \in {"silent", "accepted"} /\ Phase(t)' = "failed"
  BY <1>1, <1>2, <1>4 DEF Contract!Next, Contract!Conclude, phases
<1>5. CASE Phase(t) = "accepted" /\ Phase(t)' = "stopped"
  BY <1>1, <1>2, <1>5 DEF Contract!Next, Contract!Conclude, phases
<1>6. CASE Phase(t) = "running" /\ Phase(t)' \in {"succeeded", "failed", "stopped"}
  BY <1>1, <1>2, <1>6 DEF Contract!Next, Contract!Finish, phases
<1>7. CASE /\ Phase(t) = "accepted" /\ Phase(t)' = "running"
           /\ \A u \in Threads : Phase(u) # "running"
  BY <1>1, <1>2, <1>7 DEF Contract!Next, Contract!Run, phases
<1>8. QED
  BY <1>3, <1>4, <1>5, <1>6, <1>7 DEF Passes

\* Every step of the executor is a step of the contract, or one it does not see.
LEMMA NextRefines ==
  ASSUME ContractInv, [Next]_vars
  PROVE  Contract!Next \/ UNCHANGED phases
<1>1. ASSUME NEW t \in Threads, Step(t)
      PROVE  Contract!Next \/ UNCHANGED phases
  <2>0. \A u \in Threads : u # t => Phase(u)' = Phase(u)
    BY <1>1, StepOthers DEF ContractInv, LockInv, Typed
  <2>1. CASE Phase(t)' = Phase(t)
    BY <2>0, <2>1 DEF phases
  <2>2. CASE Passes(Phase(t), Phase(t)')
    BY <2>0, <2>2, ContractStep
  <2>3. CASE pc[t] = "start" /\ Phase(t) = "accepted" /\ Phase(t)' = "running"
    <3>1. busy_lock = t
      BY <2>3 DEF ContractInv, LockInv, OneActionAtATime, Holding, Running
    <3>2. \A u \in Threads : Phase(u) # "running"
      BY <2>3, <3>1, RunningHolds
    <3>3. QED
      BY <2>0, <2>3, <3>2, ContractStep
  <2>4. QED
    BY <1>1, <2>1, <2>2, <2>3, StepPhase
<1>2. CASE \A u \in Threads : Phase(u)' = Phase(u)
  BY <1>2 DEF phases
<1>3. QED
  BY <1>1, <1>2, NextCases, SilentSteps DEF ContractInv, LockInv, Typed

\* Whatever its threads do, the events a robot publishes go through the phases
\* of CommandContract, one delivery running at a time.
THEOREM ContractImplemented == Spec => ImplementsContract
<1>1. Init => Contract!Init
  BY DEF Init, Contract!Init, Phase
<1>2. ContractInv /\ [Next]_vars => [Contract!Next]_phases
  BY NextRefines
<1>3. [Contract!Next]_phases => [Contract!Next]_[t \in Threads |-> Phase(t)]
  BY DEF phases
<1>4. QED
  BY <1>1, <1>2, <1>3, ContractInvariant, PTL DEF Spec, ImplementsContract, Contract!Spec

-----------------------------------------------------------------------------
\* Injected failures

\* The actions an injected failure ended.
Failed == {t \in Threads : why[t] = "ACTION_FAILED"}

\* An injected failure is on its way: the flag is set, or an action has seen it.
Pending == fail_next_action \/ \E t \in Threads : pc[t] = "consume"

\* Every failed action, and the failure on its way, has an injection of its own.
FailuresCovered ==
  /\ IsFiniteSet(Failed)
  /\ Cardinality(Failed) + (IF Pending THEN 1 ELSE 0) <= injected

FailureInv == LockInv /\ FailuresCovered

\* Fewer failures than before, none newly on its way, no injection forgotten.
LEMMA FailuresPass ==
  ASSUME FailureInv, Failed' \subseteq Failed, Pending' => Pending,
         injected' \in Nat, injected' >= injected
  PROVE  FailuresCovered'
<1>1. /\ IsFiniteSet(Failed) /\ IsFiniteSet(Failed')
      /\ Cardinality(Failed') <= Cardinality(Failed)
  BY FS_Subset DEF FailureInv, FailuresCovered
<1>2. Cardinality(Failed) \in Nat /\ Cardinality(Failed') \in Nat
  BY <1>1, FS_CardinalityType
<1>3. injected \in Nat
  BY DEF FailureInv, LockInv, Typed, TypeOK
<1>4. Cardinality(Failed') + (IF Pending' THEN 1 ELSE 0) <= injected'
  BY <1>1, <1>2, <1>3 DEF FailureInv, FailuresCovered
<1>5. QED
  BY <1>1, <1>4 DEF FailuresCovered

\* The failure is taken by the one action that saw it.
LEMMA ConsumeCovered ==
  ASSUME FailureInv, NEW t \in Threads, ConsumeFailure(t)
  PROVE  FailuresCovered'
<1>1. /\ pc[t] = "consume" /\ ~fail_next_action'
      /\ pc' = [pc EXCEPT ![t] = "failing"] /\ pc \in [Threads -> PCs]
      /\ why' = [why EXCEPT ![t] = "ACTION_FAILED"] /\ why \in [Threads -> Codes]
      /\ injected' = injected /\ injected \in Nat
  BY DEF FailureInv, LockInv, Typed, TypeOK, ConsumeFailure, FailWith, GoTo, ghosts
<1>2. Failed' = Failed \cup {t}
  BY <1>1 DEF Failed
<1>3. Pending
  BY <1>1 DEF Pending
<1>4. ~Pending'
  <2>1. \A u \in Threads : u # t => pc[u] # "consume"
    BY <1>1 DEF FailureInv, LockInv, OneActionAtATime, Holding, Running
  <2>2. QED
    BY <1>1, <2>1 DEF Pending
<1>5. /\ IsFiniteSet(Failed) /\ IsFiniteSet(Failed')
      /\ Cardinality(Failed) \in Nat /\ Cardinality(Failed') \in Nat
      /\ Cardinality(Failed') <= Cardinality(Failed) + 1
  <2>1. IsFiniteSet(Failed)
    BY DEF FailureInv, FailuresCovered
  <2>2. /\ IsFiniteSet(Failed \cup {t})
        /\ Cardinality(Failed \cup {t}) =
             IF t \in Failed THEN Cardinality(Failed) ELSE Cardinality(Failed) + 1
    BY <2>1, FS_AddElement
  <2>3. QED
    BY <1>2, <2>1, <2>2, FS_CardinalityType
<1>6. Cardinality(Failed') + 0 <= injected'
  BY <1>1, <1>3, <1>5 DEF FailureInv, FailuresCovered
<1>7. QED
  BY <1>4, <1>5, <1>6 DEF FailuresCovered

\* No other step of a command thread makes a failure, or takes up one that is
\* not flagged.
LEMMA StepCovered ==
  ASSUME FailureInv, NEW t \in Threads, Step(t)
  PROVE  FailuresCovered'
<1>0. /\ pc \in [Threads -> PCs] /\ why \in [Threads -> Codes]
      /\ injected \in Nat
  BY DEF FailureInv, LockInv, Typed, TypeOK
<1>1. CASE ConsumeFailure(t)
  BY <1>1, ConsumeCovered
<1>2. CASE ~ConsumeFailure(t)
  <2>1. injected' = injected /\ fail_next_action' = fail_next_action
    BY <1>2 DEF Step, Receive, RefuseOffline, StopCancel, StopProbe, Acquire, ClaimCancel,
       ClaimCommand, ClaimTask, Plan, Start, CheckOffline, CheckPath, CheckFail, CheckStop,
       Move, Arrive, Fail, Halt, Abort, Leave, ResetCommand, ResetTask, ResetCancel,
       Release, faults, ghosts
  <2>2. \/ UNCHANGED why
        \/ \E code \in {"DEVICE_OFFLINE", "PATH_BLOCKED", "exception"} :
             why' = [why EXCEPT ![t] = code]
    BY <1>2 DEF Step, Receive, RefuseOffline, StopCancel, StopProbe, Acquire, ClaimCancel,
       ClaimCommand, ClaimTask, Plan, Start, CheckOffline, CheckPath, CheckFail, CheckStop,
       Move, Arrive, Fail, Halt, Abort, Leave, ResetCommand, ResetTask, ResetCancel,
       Release, FailWith
  <2>3. Failed' \subseteq Failed
    BY <1>0, <2>2 DEF Failed
  <2>4. pc'[t] = "consume" => fail_next_action
    BY <1>0, <1>2 DEF Step, Receive, Reject, RefuseOffline, StopCancel, StopProbe, Acquire,
       ClaimCancel, ClaimCommand, ClaimTask, Plan, Start, CheckOffline, CheckPath,
       CheckFail, CheckStop, Move, Arrive, Fail, Halt, Abort, Leave, ResetCommand,
       ResetTask, ResetCancel, Release, FailWith, GoTo
  <2>5. Pending' => Pending
    BY <2>1, <2>4, StepOthers DEF Pending, FailureInv, LockInv, Typed
  <2>6. QED
    BY <1>0, <2>1, <2>3, <2>5, FailuresPass
<1>3. QED
  BY <1>1, <1>2

\* An injection is counted when it sets the flag.
LEMMA SurroundingsCovered ==
  ASSUME FailureInv, Surroundings
  PROVE  FailuresCovered'
<1>1. UNCHANGED <<pc, why>> /\ Failed' = Failed
  BY SurroundingsAlone DEF locals, Failed
<1>2. injected \in Nat
  BY DEF FailureInv, LockInv, Typed, TypeOK
<1>3. CASE InjectFailure
  <2>1. injected' = injected + 1
    BY <1>3 DEF InjectFailure
  <2>2. IsFiniteSet(Failed) /\ Cardinality(Failed) \in Nat
    BY FS_CardinalityType DEF FailureInv, FailuresCovered
  <2>3. Cardinality(Failed) + 1 <= injected'
    BY <1>2, <2>1, <2>2 DEF FailureInv, FailuresCovered
  <2>4. QED
    BY <1>1, <1>2, <2>1, <2>2, <2>3 DEF FailuresCovered
<1>4. CASE ~InjectFailure
  <2>1. injected' = injected /\ fail_next_action' \in {fail_next_action, FALSE}
    <3> USE DEF faults, ghosts
    <3>1. CASE Broadcast
      BY <1>4, <3>1 DEF Broadcast, RobotOffline, PathBlocked, FaultRecovered, OnConnect
    <3>2. CASE Handle
      BY <3>2 DEF Handle, RobotOfflineState, FaultCancel, RecoverPath, RecoverFail,
                  RecoverProbe, RecoverIdle
    <3>3. CASE (\E w \in Watchers : Watch(w)) \/ Signal
      BY <3>3 DEF Watch, ReadCommand, ReadTask, Signal
    <3>4. QED
      BY <3>1, <3>2, <3>3 DEF Surroundings
  <2>2. Pending' => Pending
    <3>1. CASE fail_next_action' = fail_next_action
      BY <1>1, <3>1 DEF Pending
    <3>2. CASE fail_next_action' = FALSE
      BY <1>1, <3>2 DEF Pending
    <3>3. QED
      BY <2>1, <3>1, <3>2
  <2>3. QED
    BY <1>1, <1>2, <2>1, <2>2, FailuresPass
<1>5. QED
  BY <1>3, <1>4

LEMMA NextFailure == FailureInv /\ [Next]_vars => FailureInv'
<1> SUFFICES ASSUME FailureInv, [Next]_vars
             PROVE  FailureInv'
  OBVIOUS
<1>1. LockInv'
  BY NextLock DEF FailureInv
<1>2. injected \in Nat
  BY DEF FailureInv, LockInv, Typed, TypeOK
<1>3. ASSUME NEW t \in Threads, NEW c \in Commands, Deliver(t, c)
      PROVE  FailuresCovered'
  <2>1. UNCHANGED <<why, fail_next_action, injected>>
        /\ \A u \in Threads : pc'[u] = "consume" => pc[u] = "consume"
    BY <1>3 DEF Deliver, GoTo, faults, ghosts, FailureInv, LockInv, Typed, TypeOK
  <2>2. QED
    BY <1>2, <2>1, FailuresPass DEF Failed, Pending
<1>4. CASE UNCHANGED vars
  <2>1. UNCHANGED <<pc, why, fail_next_action, injected>>
    BY <1>4 DEF vars, locals, faults, ghosts
  <2>2. QED
    BY <1>1, <1>2, <2>1, FailuresPass DEF Failed, Pending, FailureInv
<1>5. QED
  BY <1>1, <1>3, <1>4, NextCases, StepCovered, SurroundingsCovered DEF FailureInv

LEMMA InitFailure == Init => FailureInv
<1> SUFFICES ASSUME Init
             PROVE  FailureInv
  OBVIOUS
<1>1. Failed = {} /\ ~Pending /\ injected = 0
  BY DEF Init, Failed, Pending
<1>2. FailuresCovered
  BY <1>1, FS_EmptySet DEF FailuresCovered
<1>3. QED
  BY <1>2, InitLock DEF FailureInv

THEOREM FailureInvariant == Spec => []FailureInv
  BY InitFailure, NextFailure, PTL DEF Spec

\* However the injections, the recoveries and the checks interleave, no more
\* actions fail by injection than failures were injected.
THEOREM InjectionCorrect == Spec => []InjectedFailureOnce
<1>1. FailureInv => InjectedFailureOnce
  <2> SUFFICES ASSUME FailureInv
               PROVE  Cardinality(Failed) <= injected
    BY DEF InjectedFailureOnce, Failed
  <2>1. Cardinality(Failed) \in Nat /\ injected \in Nat
    BY FS_CardinalityType DEF FailureInv, FailuresCovered, LockInv, Typed, TypeOK
  <2>2. QED
    BY <2>1 DEF FailureInv, FailuresCovered
<1>2. QED
  BY <1>1, FailureInvariant, PTL
=============================================================================
