------------------------ MODULE ActionDispatchProofs ------------------------
(***************************************************************************)
(* Proofs about ActionDispatch for any number of Actions, tasks,           *)
(* deliveries, repeated and lost reports.                                  *)
(***************************************************************************)
EXTENDS ActionDispatch, TLAPS, SequenceTheorems

USE DispatchAssumption, NoneAssumption

\* Some delivery of a's command is in one of the phases ps when the robot is at ph.
At(ph, a, ps) == \E n \in 1..Copies[a] : ph[<<a, n>>] \in ps

\* What the robot must have gone through for a report to exist.
Evidence(ph, a, e) ==
  /\ e \in {"task.succeeded", "where.result", "action.succeeded"} =>
       At(ph, a, {"succeeded", "answered"})
  /\ e = "command.rejected" => At(ph, a, {"rejected"})
  /\ e \in {"task.failed", "action.failed"} => At(ph, a, {"failed"})
  /\ e = "task.stopped" => At(ph, a, {"stopped"})
  /\ e \in {"task.started", "action.started", "action.progress"} =>
       At(ph, a, {"running", "succeeded", "failed", "stopped"})

AllBacked(ph, q) == \A i \in 1..Len(q) : Evidence(ph, q[i].of, q[i].event)

EvidenceInv ==
  /\ TypeOK
  /\ AllBacked(phase, sent) /\ AllBacked(phase, queue)
  /\ StatusHasEvidence /\ TaskHasEvidence

-----------------------------------------------------------------------------
\* Sequences of reports

\* The reports naming one Action.
LEMMA NamingType ==
  ASSUME NEW a \in Actions, NEW es \in Seq(Events)
  PROVE  /\ Naming(a, es) \in Seq(Reports)
         /\ Len(Naming(a, es)) = Len(es)
         /\ \A i \in 1..Len(es) : Naming(a, es)[i] = [of |-> a, event |-> es[i]]
<1>1. \A i \in 1..Len(es) : [of |-> a, event |-> es[i]] \in Reports
  BY DEF Reports
<1>2. Naming(a, es) \in Seq(Reports)
  BY <1>1 DEF Naming
<1>3. QED
  BY <1>2 DEF Naming

\* Putting backed reports after backed reports.
LEMMA BackedConcat ==
  ASSUME NEW ph, NEW q \in Seq(Reports), NEW r \in Seq(Reports), AllBacked(ph, q), AllBacked(ph, r)
  PROVE  AllBacked(ph, q \o r)
<1>1. Len(q \o r) = Len(q) + Len(r) /\ Len(q) \in Nat /\ Len(r) \in Nat
  OBVIOUS
<1>2. ASSUME NEW i \in 1..Len(q \o r)
      PROVE  Evidence(ph, (q \o r)[i].of, (q \o r)[i].event)
  <2>1. CASE i \in 1..Len(q)
    BY <2>1 DEF AllBacked
  <2>2. CASE i \notin 1..Len(q)
    <3>1. i - Len(q) \in 1..Len(r) /\ (q \o r)[i] = r[i - Len(q)]
      BY <1>1, <2>2
    <3>2. QED
      BY <3>1 DEF AllBacked
  <2>3. QED
    BY <2>1, <2>2
<1>3. QED
  BY <1>2 DEF AllBacked

\* A suffix of backed reports is backed.
LEMMA BackedSuffix ==
  ASSUME NEW ph, NEW q \in Seq(Reports), NEW k \in 1..Len(q), AllBacked(ph, q)
  PROVE  SubSeq(q, k, Len(q)) \in Seq(Reports) /\ AllBacked(ph, SubSeq(q, k, Len(q)))
<1>1. /\ SubSeq(q, k, Len(q)) \in Seq(Reports)
      /\ Len(SubSeq(q, k, Len(q))) = Len(q) - k + 1
      /\ \A i \in 1..(Len(q) - k + 1) : SubSeq(q, k, Len(q))[i] = q[k + i - 1]
  BY SubSeqProperties
<1>2. \A i \in 1..(Len(q) - k + 1) : k + i - 1 \in 1..Len(q)
  OBVIOUS
<1>3. QED
  BY <1>1, <1>2 DEF AllBacked

\* What is left after the first report.
LEMMA BackedTail ==
  ASSUME NEW ph, NEW q \in Seq(Reports), q # <<>>, AllBacked(ph, q)
  PROVE  /\ Tail(q) \in Seq(Reports) /\ AllBacked(ph, Tail(q))
         /\ Head(q) \in Reports /\ Evidence(ph, Head(q).of, Head(q).event)
<1>1. /\ Tail(q) \in Seq(Reports) /\ Len(Tail(q)) = Len(q) - 1
      /\ \A i \in 1..(Len(q) - 1) : Tail(q)[i] = q[i + 1]
      /\ Len(q) \in Nat \ {0}
  BY HeadTailProperties, EmptySeq
<1>2. \A i \in 1..(Len(q) - 1) : i + 1 \in 1..Len(q)
  BY <1>1
<1>3. AllBacked(ph, Tail(q))
  BY <1>1, <1>2 DEF AllBacked
<1>4. Head(q) = q[1] /\ 1 \in 1..Len(q)
  BY <1>1
<1>5. QED
  BY <1>1, <1>3, <1>4 DEF AllBacked

-----------------------------------------------------------------------------
\* The robot

\* The phases a delivery may be found in for good.
Kept == {{"succeeded", "answered"}, {"rejected"}, {"failed"}, {"stopped"},
         {"running", "succeeded", "failed", "stopped"}}

\* What a step of the robot does to the phases.
LEMMA RobotMoves ==
  ASSUME TypeOK, NEW d \in Deliveries, RobotStep(d)
  PROVE  \E q \in (Final \ {"silent"}) \cup {"accepted", "running"} :
           /\ phase' = [phase EXCEPT ![d] = q] /\ phase'[d] = q
           /\ phase[d] \in {"silent", "accepted", "running"}
           /\ phase[d] = "running" => q \in {"succeeded", "failed", "stopped"}
           /\ Publish(d[1], Announcing(q))
<1> USE DEF TypeOK, Final, Robot!Become
<1>1. CASE Robot!Respond(d)
  BY <1>1 DEF RobotStep, Robot!Respond
<1>2. CASE Robot!Run(d)
  BY <1>2 DEF RobotStep, Robot!Run
<1>3. CASE Robot!Finish(d)
  BY <1>3 DEF RobotStep, Robot!Finish
<1>4. CASE Robot!Conclude(d)
  BY <1>4 DEF RobotStep, Robot!Conclude
<1>5. QED
  BY <1>1, <1>2, <1>3, <1>4 DEF RobotStep

\* A delivery's place among the deliveries.
LEMMA DeliveryIsPair ==
  ASSUME NEW d \in Deliveries
  PROVE  d[1] \in Actions /\ d = <<d[1], d[2]>> /\ d[2] \in 1..Copies[d[1]]
BY DEF Deliveries

\* What a delivery has gone through, it keeps having gone through.
LEMMA EvidenceKept ==
  ASSUME TypeOK, NEW d \in Deliveries, RobotStep(d), NEW a \in Actions, NEW ps \in Kept,
         At(phase, a, ps)
  PROVE  At(phase', a, ps)
<1>1. PICK n \in 1..Copies[a] : phase[<<a, n>>] \in ps
  BY DEF At
<1>2. PICK q : /\ phase' = [phase EXCEPT ![d] = q] /\ phase'[d] = q
               /\ phase[d] \in {"silent", "accepted", "running"}
               /\ phase[d] = "running" => q \in {"succeeded", "failed", "stopped"}
  BY RobotMoves
<1>3. <<a, n>> \in Deliveries
  BY DEF Deliveries
<1>4. phase'[<<a, n>>] \in ps
  BY <1>1, <1>2, <1>3 DEF Kept, TypeOK
<1>5. QED
  BY <1>4 DEF At

\* Backed reports stay backed.
LEMMA BackedKept ==
  ASSUME TypeOK, NEW d \in Deliveries, RobotStep(d), NEW q \in Seq(Reports),
         AllBacked(phase, q)
  PROVE  AllBacked(phase', q)
<1>1. ASSUME NEW a \in Actions, NEW e, Evidence(phase, a, e)
      PROVE  Evidence(phase', a, e)
  BY <1>1, EvidenceKept DEF Evidence, Kept
<1>2. ASSUME NEW i \in 1..Len(q)
      PROVE  Evidence(phase', q[i].of, q[i].event)
  <2>1. q[i] \in Reports
    OBVIOUS
  <2>2. q[i].of \in Actions
    BY <2>1 DEF Reports
  <2>3. Evidence(phase, q[i].of, q[i].event)
    BY DEF AllBacked
  <2>4. QED
    BY <2>2, <2>3, <1>1
<1>3. QED
  BY <1>2 DEF AllBacked

\* What the robot announces when it enters a phase is backed by that phase.
LEMMA AnnouncedBacked ==
  ASSUME NEW ph, NEW d \in Deliveries, NEW q \in Final \cup {"accepted", "running"},
         ph[d] = q
  PROVE  /\ Announcing(q) \in Seq(Events)
         /\ AllBacked(ph, Naming(d[1], Announcing(q)))
<1>1. At(ph, d[1], {q})
  BY DeliveryIsPair DEF At
<1>2. ASSUME NEW ps, q \in ps
      PROVE  At(ph, d[1], ps)
  BY <1>1, <1>2 DEF At
<1>3. /\ Announcing(q) \in Seq(Events)
      /\ \A i \in 1..Len(Announcing(q)) : Evidence(ph, d[1], Announcing(q)[i])
  <2>1. CASE q = "rejected"
    BY <1>2, <2>1 DEF Announcing, Evidence, Events
  <2>2. CASE q = "answered"
    BY <1>2, <2>2 DEF Announcing, Evidence, Events
  <2>3. CASE q = "accepted"
    BY <1>2, <2>3 DEF Announcing, Evidence, Events
  <2>4. CASE q = "running"
    BY <1>2, <2>4 DEF Announcing, Evidence, Events
  <2>5. CASE q = "succeeded"
    BY <1>2, <2>5 DEF Announcing, Evidence, Events
  <2>6. CASE q = "failed"
    BY <1>2, <2>6 DEF Announcing, Evidence, Events
  <2>7. CASE q = "stopped"
    BY <1>2, <2>7 DEF Announcing, Evidence, Events
  <2>8. QED
    BY <2>1, <2>2, <2>3, <2>4, <2>5, <2>6, <2>7 DEF Final
<1> DEFINE es == Announcing(q)
<1> HIDE DEF es
<1>4. d[1] \in Actions /\ es \in Seq(Events)
  BY <1>3, DeliveryIsPair DEF es
<1>5. /\ Len(Naming(d[1], es)) = Len(es)
      /\ \A i \in 1..Len(es) : Naming(d[1], es)[i] = [of |-> d[1], event |-> es[i]]
  BY <1>4, NamingType
<1>6. ASSUME NEW i \in 1..Len(es)
      PROVE  Evidence(ph, Naming(d[1], es)[i].of, Naming(d[1], es)[i].event)
  <2>1. Naming(d[1], es)[i].of = d[1] /\ Naming(d[1], es)[i].event = es[i]
    <3>1. Naming(d[1], es)[i] = [of |-> d[1], event |-> es[i]]
      BY <1>5, Zenon
    <3>2. QED
      BY <3>1
  <2>2. Evidence(ph, d[1], es[i])
    BY <1>3 DEF es
  <2>3. QED
    BY <2>1, <2>2
<1>7. AllBacked(ph, Naming(d[1], es))
  BY <1>5, <1>6 DEF AllBacked
<1>8. QED
  BY <1>3, <1>7 DEF es

-----------------------------------------------------------------------------
\* Types

\* The robot's announcements and what the store makes of a report.
LEMMA EventResults ==
  ASSUME NEW e \in Events, NEW s \in TaskStatuses
  PROVE  StatusAfter(e) \in Statuses /\ TaskAfter(e, s) \in TaskStatuses
BY DEF Events, Statuses, Terminal, TaskStatuses, StatusAfter, TaskAfter

\* Every step keeps the types; the reports of the robot are the delicate part.
LEMMA TypeStep ==
  ASSUME TypeOK, [Next]_vars
  PROVE  TypeOK'
<1> USE DEF TypeOK
<1>1. ASSUME NEW a \in Actions, Handle(a) \/ Crash(a) \/ StopAction(a)
      PROVE  TypeOK'
  <2> USE DEF rows, wire, Statuses, Terminal
  <2>1. CASE CreateAction(a)
    BY <2>1 DEF CreateAction
  <2>2. CASE IssueCommand(a)
    BY <2>2 DEF IssueCommand
  <2>3. CASE MarkIssued(a)
    BY <2>3 DEF MarkIssued
  <2>4. CASE Crash(a)
    BY <2>4 DEF Crash
  <2>5. CASE StopAction(a)
    BY <2>5 DEF StopAction
  <2>6. CASE SendCommand(a)
    BY <2>6 DEF SendCommand
  <2>7. QED
    BY <1>1, <2>1, <2>2, <2>3, <2>4, <2>5, <2>6 DEF Handle
<1>2. ASSUME NEW a \in Actions, NEW es \in Seq(Events), Publish(a, es)
      PROVE  /\ sent' \in Seq(Reports) /\ queue' \in Seq(Reports)
             /\ UNCHANGED <<resends, lost>>
  BY <1>2, NamingType DEF Publish
<1>3. ASSUME NEW d \in Deliveries, RobotStep(d)
      PROVE  TypeOK'
  <2>1. PICK q \in (Final \ {"silent"}) \cup {"accepted", "running"} :
           /\ phase' = [phase EXCEPT ![d] = q] /\ phase'[d] = q
           /\ Publish(d[1], Announcing(q))
    BY <1>3, RobotMoves
  <2>2. d[1] \in Actions /\ Announcing(q) \in Seq(Events)
    BY <2>1, DeliveryIsPair, AnnouncedBacked
  <2>3. /\ sent' \in Seq(Reports) /\ queue' \in Seq(Reports)
        /\ UNCHANGED <<resends, lost>>
    BY <1>2, <2>1, <2>2
  <2>4. QED
    BY <1>3, <2>1, <2>3 DEF RobotStep, rows
<1>4. ASSUME NEW d \in Deliveries, RobotProgress(d)
      PROVE  TypeOK'
  <2>1. d[1] \in Actions /\ <<"action.progress">> \in Seq(Events)
    BY DeliveryIsPair DEF Events
  <2>2. /\ sent' \in Seq(Reports) /\ queue' \in Seq(Reports)
        /\ UNCHANGED <<resends, lost>>
    BY <1>2, <1>4, <2>1 DEF RobotProgress
  <2>3. QED
    BY <1>4, <2>2 DEF RobotProgress, rows
<1>5. CASE Resend
  <2>1. PICK k \in 1..Len(sent) : queue' = queue \o SubSeq(sent, k, Len(sent))
    BY <1>5 DEF Resend
  <2>2. SubSeq(sent, k, Len(sent)) \in Seq(Reports)
    BY SubSeqProperties
  <2>3. queue' \in Seq(Reports)
    BY <2>1, <2>2
  <2>4. QED
    BY <1>5, <2>3 DEF Resend, rows
<1>6. CASE Lose
  <2>1. queue' \in Seq(Reports) /\ Head(queue) \in Reports
    BY <1>6, HeadTailProperties DEF Lose
  <2>2. lost < MaxLost /\ lost' = lost + 1
    BY <1>6 DEF Lose
  <2>3. lost' \in 0..MaxLost
    BY <2>2
  <2>4. landed' \in [Actions -> BOOLEAN]
    BY <1>6, Zenon DEF Lose
  <2>5. UNCHANGED <<api, status, linked, task, phase, sent, resends, stopped>>
    BY <1>6 DEF Lose, rows
  <2>6. QED
    BY <2>1, <2>3, <2>4, <2>5
<1>7. CASE Ingest
  <2>1. queue' \in Seq(Reports) /\ Head(queue) \in Reports
    BY <1>7, HeadTailProperties DEF Ingest
  <2>2. Head(queue).of \in Actions /\ Head(queue).event \in Events
    BY <2>1 DEF Reports
  <2>3. /\ StatusAfter(Head(queue).event) \in Statuses
        /\ \A k \in Tasks : TaskAfter(Head(queue).event, task[k]) \in TaskStatuses
    BY <2>2, EventResults DEF TaskStatuses
  <2>4. status' \in [Actions -> Statuses \cup {None}]
    BY <1>7, <2>2, <2>3 DEF Ingest
  <2>5. task' \in [Tasks -> TaskStatuses]
    BY <1>7, <2>2, <2>3 DEF Ingest
  <2>6. landed' \in [Actions -> BOOLEAN] /\ stopped' \subseteq Actions
    BY <1>7, <2>2 DEF Ingest
  <2>7. UNCHANGED <<api, linked, phase, sent, resends, lost>>
    BY <1>7 DEF Ingest
  <2>8. QED
    BY <2>1, <2>4, <2>5, <2>6, <2>7
<1>8. CASE UNCHANGED vars
  BY <1>8 DEF vars
<1>9. ASSUME NEW k \in Tasks, InjectFault(k)
      PROVE  TypeOK'
  BY <1>9 DEF InjectFault, TaskStatuses, wire
<1>10. QED
  BY <1>1, <1>3, <1>4, <1>5, <1>6, <1>7, <1>8, <1>9 DEF Next

\* The platform starts with rows of no Action and tasks that are ready.
LEMMA TypeInit ==
  ASSUME Init
  PROVE  TypeOK
BY DEF Init, TypeOK, Statuses, TaskStatuses

\* Every behaviour keeps the types of the rows, the phases and the reports.
THEOREM TypeCorrect == Spec => []TypeOK
<1>1. Init => TypeOK
  BY TypeInit
<1>2. TypeOK /\ [Next]_vars => TypeOK'
  BY TypeStep
<1>3. QED
  BY <1>1, <1>2, PTL DEF Spec

-----------------------------------------------------------------------------
\* Evidence

\* The two properties about evidence, in the words of this module.
LEMMA ReachedIsAt ==
  ASSUME NEW a, NEW ps
  PROVE  Reached(a, ps) <=> At(phase, a, ps)
BY DEF Reached, At

\* As long as no row changes and the robot keeps its evidence, so do the rows.
LEMMA RowsKept ==
  ASSUME StatusHasEvidence, TaskHasEvidence, UNCHANGED <<status, task, linked, stopped>>,
         \A a \in Actions, ps \in Kept : At(phase, a, ps) => At(phase', a, ps)
  PROVE  StatusHasEvidence' /\ TaskHasEvidence'
<1>1. \A a \in Actions, ps \in Kept : Reached(a, ps) => Reached(a, ps)'
  BY DEF Reached, At
<1>2. StatusHasEvidence'
  BY <1>1 DEF StatusHasEvidence, Kept
<1>3. TaskHasEvidence'
  BY <1>1 DEF TaskHasEvidence, TaskFound, Kept
<1>4. QED
  BY <1>2, <1>3

\* The robot's own steps: what it publishes is backed, what it has done stays done.
LEMMA EvidenceRobot ==
  ASSUME EvidenceInv, TypeOK', NEW d \in Deliveries, RobotStep(d)
  PROVE  EvidenceInv'
<1>1. PICK q \in (Final \ {"silent"}) \cup {"accepted", "running"} :
        phase'[d] = q /\ Publish(d[1], Announcing(q))
  BY RobotMoves DEF EvidenceInv
<1>2. /\ AllBacked(phase', Naming(d[1], Announcing(q)))
      /\ Naming(d[1], Announcing(q)) \in Seq(Reports)
  <2>1. /\ AllBacked(phase', Naming(d[1], Announcing(q)))
        /\ Announcing(q) \in Seq(Events)
    BY <1>1, AnnouncedBacked
  <2>2. QED
    BY <2>1, NamingType, DeliveryIsPair
<1>3. AllBacked(phase', sent) /\ AllBacked(phase', queue)
  BY BackedKept DEF EvidenceInv, TypeOK
<1>4. AllBacked(phase, sent)' /\ AllBacked(phase, queue)'
  BY <1>1, <1>2, <1>3, BackedConcat DEF Publish, EvidenceInv, TypeOK
<1>5. StatusHasEvidence' /\ TaskHasEvidence'
  BY EvidenceKept, RowsKept DEF EvidenceInv, RobotStep, rows
<1>6. QED
  BY <1>4, <1>5 DEF EvidenceInv

\* Ingesting a report: the row gets the status that the report's evidence backs.
LEMMA EvidenceIngest ==
  ASSUME EvidenceInv, TypeOK', Ingest
  PROVE  EvidenceInv'
<1> DEFINE b == Head(queue).of
           e == Head(queue).event
<1>1. queue # <<>> /\ queue' = Tail(queue) /\ UNCHANGED <<phase, sent>>
  BY DEF Ingest
<1>2. /\ AllBacked(phase, Tail(queue)) /\ Head(queue) \in Reports
      /\ Evidence(phase, b, e)
  BY <1>1, BackedTail DEF EvidenceInv, TypeOK
<1>3. b \in Actions /\ e \in Events
  BY <1>2 DEF Reports
<1>4. AllBacked(phase, sent)' /\ AllBacked(phase, queue)'
  BY <1>1, <1>2 DEF EvidenceInv
<1>5. \A a, ps : Reached(a, ps)' <=> Reached(a, ps)
  BY <1>1 DEF Reached
<1>6. StatusHasEvidence'
  <2> SUFFICES ASSUME NEW a \in Actions
               PROVE  /\ status'[a] = "Succeeded" => Reached(a, {"succeeded", "answered"})
                      /\ status'[a] = "Rejected" => Reached(a, {"rejected"})
                      /\ status'[a] = "Failed" => Reached(a, {"failed"})
                      /\ status'[a] = "Stopped" /\ a \notin stopped' =>
                           Reached(a, {"stopped"})
                      /\ status'[a] = "Running" =>
                           Reached(a, {"running", "succeeded", "failed", "stopped"})
    BY <1>5 DEF StatusHasEvidence
  <2>1. CASE a = b /\ linked[b]
    <3>1. status'[a] = StatusAfter(e)
      BY <2>1 DEF Ingest, EvidenceInv, TypeOK
    <3>2. Evidence(phase, a, e)
      BY <1>2, <2>1
    <3>3. QED
      BY <1>3, <3>1, <3>2, ReachedIsAt DEF Evidence, StatusAfter, Events
  <2>2. CASE ~(a = b /\ linked[b])
    <3>1. status'[a] = status[a] /\ (a \notin stopped' => a \notin stopped)
      BY <2>2 DEF Ingest, EvidenceInv, TypeOK
    <3>2. QED
      BY <3>1 DEF EvidenceInv, StatusHasEvidence
  <2>3. QED
    BY <2>1, <2>2
<1>7. TaskHasEvidence'
  <2> SUFFICES ASSUME NEW k \in Tasks
               PROVE  /\ task'[k] = "Succeeded" =>
                           \E a \in Actions :
                             TaskFound(a) = k /\ Reached(a, {"succeeded", "answered"})
                      /\ task'[k] = "Cancelled" =>
                           \E a \in Actions : TaskFound(a) = k /\ Reached(a, {"stopped"})
    BY <1>1, <1>5 DEF TaskHasEvidence, TaskFound, Ingest
  <2>1. CASE k = TaskFound(b)
    <3>1. task'[k] = TaskAfter(e, task[k])
      BY <2>1 DEF Ingest
    <3>3. CASE TaskAfter(e, task[k]) = task[k]
      BY <3>1, <3>3 DEF EvidenceInv, TaskHasEvidence
    <3>4. CASE TaskAfter(e, task[k]) # task[k]
      BY <1>2, <1>3, <2>1, <3>1, <3>4, ReachedIsAt DEF Evidence, TaskAfter, Events
    <3>5. QED
      BY <3>3, <3>4
  <2>2. CASE k # TaskFound(b)
    <3>1. task'[k] = task[k]
      BY <2>2 DEF Ingest
    <3>2. QED
      BY <3>1 DEF EvidenceInv, TaskHasEvidence
  <2>3. QED
    BY <2>1, <2>2
<1>8. QED
  BY <1>4, <1>6, <1>7 DEF EvidenceInv

\* Every step keeps the evidence of rows and reports.
LEMMA EvidenceStep ==
  ASSUME EvidenceInv, [Next]_vars
  PROVE  EvidenceInv'
<1>1. TypeOK'
  BY TypeStep DEF EvidenceInv
<1>2. ASSUME UNCHANGED <<phase, sent, queue>>, StatusHasEvidence', TaskHasEvidence'
      PROVE  EvidenceInv'
  BY <1>1, <1>2 DEF EvidenceInv
<1>3. ASSUME NEW a \in Actions, Handle(a) \/ Crash(a) \/ StopAction(a)
      PROVE  EvidenceInv'
  <2>1. UNCHANGED <<phase, sent, queue, task>>
    BY <1>3 DEF Handle, CreateAction, IssueCommand, MarkIssued, SendCommand, Crash, StopAction,
                rows, wire
  <2>2. \A c, ps : Reached(c, ps)' <=> Reached(c, ps)
    BY <2>1 DEF Reached
  <2>3. \A c \in Actions : linked[c] => linked'[c]
    BY <1>3 DEF Handle, CreateAction, IssueCommand, MarkIssued, SendCommand, Crash, StopAction,
                rows, EvidenceInv, TypeOK
  <2>4. \A c \in Actions, k \in Tasks : TaskFound(c) = k => TaskFound(c)' = k
    BY <2>3, DispatchAssumption DEF TaskFound
  <2>5. TaskHasEvidence'
    BY <2>1, <2>2, <2>4 DEF EvidenceInv, TaskHasEvidence
  <2>6. \A c \in Actions :
           \/ status'[c] = status[c] /\ (c \notin stopped' => c \notin stopped)
           \/ status'[c] \in {"Pending", "Issued"}
           \/ status'[c] = "Stopped" /\ c \in stopped'
    BY <1>3 DEF Handle, CreateAction, IssueCommand, MarkIssued, SendCommand, Crash, StopAction,
                rows, EvidenceInv, TypeOK
  <2>7. StatusHasEvidence'
    BY <2>2, <2>6 DEF EvidenceInv, StatusHasEvidence
  <2>8. QED
    BY <1>2, <2>1, <2>5, <2>7
<1>4. ASSUME NEW d \in Deliveries, RobotStep(d)
      PROVE  EvidenceInv'
  BY <1>1, <1>4, EvidenceRobot
<1>5. ASSUME UNCHANGED <<status, task, linked, stopped, phase>>
      PROVE  StatusHasEvidence' /\ TaskHasEvidence'
  BY <1>5, RowsKept DEF EvidenceInv
<1>6. ASSUME NEW d \in Deliveries, RobotProgress(d)
      PROVE  EvidenceInv'
  <2>1. d[1] \in Actions /\ <<"action.progress">> \in Seq(Events)
    BY DeliveryIsPair DEF Events
  <2>2. At(phase, d[1], {"running", "succeeded", "failed", "stopped"})
    BY <1>6, DeliveryIsPair DEF RobotProgress, At
  <2>3. Evidence(phase, d[1], "action.progress")
    BY <2>2 DEF Evidence
  <2>4. AllBacked(phase, Naming(d[1], <<"action.progress">>))
    BY <2>3 DEF AllBacked, Naming
  <2>5. AllBacked(phase, sent') /\ AllBacked(phase, queue')
    BY <1>6, <2>1, <2>4, NamingType, BackedConcat
       DEF RobotProgress, Publish, EvidenceInv, TypeOK
  <2>6. QED
    BY <1>1, <1>5, <1>6, <2>5 DEF RobotProgress, rows, EvidenceInv
<1>7. CASE Resend
  <2>1. PICK k \in 1..Len(sent) : queue' = queue \o SubSeq(sent, k, Len(sent))
    BY <1>7 DEF Resend
  <2>2. AllBacked(phase, queue')
    BY <2>1, BackedSuffix, BackedConcat DEF EvidenceInv, TypeOK
  <2>3. QED
    BY <1>1, <1>5, <1>7, <2>2 DEF Resend, rows, EvidenceInv
<1>8. CASE Lose
  <2>1. AllBacked(phase, queue')
    BY <1>8, BackedTail DEF Lose, EvidenceInv, TypeOK
  <2>2. QED
    BY <1>1, <1>5, <1>8, <2>1 DEF Lose, rows, EvidenceInv
<1>9. CASE Ingest
  BY <1>1, <1>9, EvidenceIngest
<1>10. CASE UNCHANGED vars
  BY <1>2, <1>5, <1>10 DEF vars
<1>11. ASSUME NEW k \in Tasks, InjectFault(k)
       PROVE  EvidenceInv'
  <2>1. /\ UNCHANGED <<phase, sent, queue, status, linked, stopped>>
        /\ \A j \in Tasks : task'[j] = task[j] \/ task'[j] = "Failed"
    BY <1>11 DEF InjectFault, wire, EvidenceInv, TypeOK
  <2>2. \A c, ps : (Reached(c, ps)' <=> Reached(c, ps)) /\ TaskFound(c)' = TaskFound(c)
    BY <2>1 DEF Reached, TaskFound
  <2>3. StatusHasEvidence' /\ TaskHasEvidence'
    BY <2>1, <2>2 DEF EvidenceInv, StatusHasEvidence, TaskHasEvidence
  <2>4. QED
    BY <1>2, <2>1, <2>3
<1>12. QED
  BY <1>3, <1>4, <1>6, <1>7, <1>8, <1>9, <1>10, <1>11 DEF Next

\* Nothing is claimed before anything has happened.
LEMMA EvidenceStart ==
  ASSUME Init
  PROVE  EvidenceInv
<1>1. TypeOK
  BY TypeInit
<1>2. AllBacked(phase, sent) /\ AllBacked(phase, queue)
  BY DEF Init, AllBacked
<1>3. StatusHasEvidence /\ TaskHasEvidence
  BY DEF Init, StatusHasEvidence, TaskHasEvidence, Statuses, Terminal, TaskStatuses
<1>4. QED
  BY <1>1, <1>2, <1>3 DEF EvidenceInv

\* Every report, and so every row, says what some delivery went through.
THEOREM EvidenceInvariant == Spec => []EvidenceInv
<1>1. Init => EvidenceInv
  BY EvidenceStart
<1>2. EvidenceInv /\ [Next]_vars => EvidenceInv'
  BY EvidenceStep
<1>3. QED
  BY <1>1, <1>2, PTL DEF Spec

\* No Action is shown as ended in a way that no delivery of its command ended,
\* whatever is crashed, repeated, lost or overtaken (_apply_action_event).
THEOREM StatusCorrect == Spec => []StatusHasEvidence
<1>1. EvidenceInv => StatusHasEvidence
  BY DEF EvidenceInv
<1>2. QED
  BY <1>1, EvidenceInvariant, PTL

\* A task succeeds or is cancelled only by a command that belongs to it, of one of its Actions
\* or sent by itself, for any reports that come from the robot (_apply_task_event,
\* create_command).
THEOREM TaskCorrect == Spec => []TaskHasEvidence
<1>1. EvidenceInv => TaskHasEvidence
  BY DEF EvidenceInv
<1>2. QED
  BY <1>1, EvidenceInvariant, PTL

-----------------------------------------------------------------------------
\* Settled rows

Named(q, a) == \E i \in 1..Len(q) : q[i].of = a

\* The last report about a in q is the event e.
LastSays(q, a, e) ==
  \E i \in 1..Len(q) :
    q[i].of = a /\ q[i].event = e /\ \A j \in (i + 1)..Len(q) : q[j].of # a

\* Reports may be repeated and lost, but the last one about an Action in the queue is
\* always the last one the robot published about it.
QueueInv == \A a \in Actions, e \in Events : LastSays(queue, a, e) => LastSays(sent, a, e)

SettledInv ==
  /\ TypeOK /\ QueueInv
  /\ \A a \in Actions : api[a] = "idle" => ~linked[a] /\ ~landed[a]
  /\ \A a \in Actions :
       landed[a] /\ a \notin stopped /\ ~Named(queue, a) =>
         \E e \in Events : LastSays(sent, a, e) /\ status[a] = StatusAfter(e)

\* The last report about a in two sequences put together.
LEMMA LastConcat ==
  ASSUME NEW q \in Seq(Reports), NEW r \in Seq(Reports), NEW a, NEW e
  PROVE  /\ LastSays(q \o r, a, e) <=>
              LastSays(r, a, e) \/ (~Named(r, a) /\ LastSays(q, a, e))
         /\ Named(q \o r, a) <=> Named(q, a) \/ Named(r, a)
<1> DEFINE m == Len(q)
           n == Len(r)
           s == q \o r
<1>1. /\ m \in Nat /\ n \in Nat /\ Len(s) = m + n
      /\ \A i \in 1..m : s[i] = q[i]
      /\ \A i \in 1..n : s[m + i] = r[i]
  OBVIOUS
<1> HIDE DEF m, n, s
<1>2. \A i \in 1..(m + n) : i \in 1..m \/ (i - m \in 1..n /\ i = m + (i - m))
  BY <1>1
<1>3. Named(s, a) <=> Named(q, a) \/ Named(r, a)
  <2>1. Named(q, a) \/ Named(r, a) => Named(s, a)
    <3>1. \A i \in 1..m : i \in 1..(m + n)
      BY <1>1
    <3>2. \A i \in 1..n : m + i \in 1..(m + n)
      BY <1>1
    <3>3. QED
      BY <1>1, <3>1, <3>2 DEF Named, m, n
  <2>2. ASSUME Named(s, a)
        PROVE  Named(q, a) \/ Named(r, a)
    <3>1. PICK i \in 1..(m + n) : s[i].of = a
      BY <1>1, <2>2 DEF Named
    <3>2. CASE i \in 1..m
      BY <1>1, <3>1, <3>2 DEF Named, m
    <3>3. CASE i - m \in 1..n
      <4>1. r[i - m] = s[i]
        BY <1>1, <1>2, <3>3
      <4>2. QED
        BY <3>1, <3>3, <4>1 DEF Named, n
    <3>4. QED
      BY <1>2, <3>2, <3>3
  <2>3. QED
    BY <2>1, <2>2
<1>4. ASSUME LastSays(s, a, e)
      PROVE  LastSays(r, a, e) \/ (~Named(r, a) /\ LastSays(q, a, e))
  <2>1. PICK i \in 1..(m + n) :
          s[i].of = a /\ s[i].event = e /\ \A j \in (i + 1)..(m + n) : s[j].of # a
    BY <1>1, <1>4 DEF LastSays
  <2>2. CASE i \in 1..m
    <3>1. \A j \in 1..n : m + j \in (i + 1)..(m + n)
      BY <1>1, <2>2
    <3>2. ~Named(r, a)
      BY <1>1, <2>1, <3>1 DEF Named, n
    <3>3. \A j \in (i + 1)..m : j \in (i + 1)..(m + n) /\ j \in 1..m
      BY <1>1, <2>2
    <3>4. LastSays(q, a, e)
      BY <1>1, <2>1, <2>2, <3>3 DEF LastSays, m
    <3>5. QED
      BY <3>2, <3>4
  <2>3. CASE i - m \in 1..n
    <3>1. \A j \in (i - m + 1)..n : m + j \in (i + 1)..(m + n) /\ j \in 1..n
      BY <1>1, <2>3
    <3>2. r[i - m] = s[i]
      BY <1>1, <1>2, <2>3
    <3>3. \A j \in (i - m + 1)..n : r[j].of # a
      BY <1>1, <2>1, <3>1
    <3>4. QED
      BY <2>1, <2>3, <3>2, <3>3 DEF LastSays, n
  <2>4. QED
    BY <1>2, <2>2, <2>3
<1>5. ASSUME LastSays(r, a, e)
      PROVE  LastSays(s, a, e)
  <2>1. PICK i \in 1..n : r[i].of = a /\ r[i].event = e /\ \A j \in (i + 1)..n : r[j].of # a
    BY <1>5 DEF LastSays, n
  <2>2. m + i \in 1..(m + n) /\ s[m + i] = r[i]
    BY <1>1
  <2>3. ASSUME NEW j \in (m + i + 1)..(m + n)
        PROVE  s[j].of # a
    <3>1. j - m \in (i + 1)..n /\ j - m \in 1..n /\ j = m + (j - m)
      BY <1>1
    <3>2. s[j] = r[j - m]
      BY <1>1, <3>1
    <3>3. QED
      BY <2>1, <3>1, <3>2
  <2>4. Len(s) = m + n /\ m + i + 1 \in Nat
    BY <1>1
  <2>5. QED
    BY <2>1, <2>2, <2>3, <2>4 DEF LastSays
<1>6. ASSUME ~Named(r, a), LastSays(q, a, e)
      PROVE  LastSays(s, a, e)
  <2>1. PICK i \in 1..m : q[i].of = a /\ q[i].event = e /\ \A j \in (i + 1)..m : q[j].of # a
    BY <1>6 DEF LastSays, m
  <2>2. ASSUME NEW j \in (i + 1)..(m + n)
        PROVE  s[j].of # a
    <3>1. CASE j <= m
      <4>1. j \in (i + 1)..m /\ s[j] = q[j]
        BY <1>1, <3>1
      <4>2. QED
        BY <2>1, <4>1
    <3>2. CASE j > m
      <4>1. j - m \in 1..n /\ j = m + (j - m)
        BY <1>1, <3>2
      <4>2. s[j] = r[j - m]
        BY <1>1, <4>1
      <4>3. QED
        BY <1>6, <4>1, <4>2 DEF Named, n
    <3>3. QED
      BY <1>1, <3>1, <3>2
  <2>3. Len(s) = m + n
    BY <1>1
  <2>4. i \in 1..(m + n) /\ s[i] = q[i]
    BY <1>1
  <2>5. QED
    BY <2>1, <2>2, <2>3, <2>4 DEF LastSays
<1>7. QED
  BY <1>3, <1>4, <1>5, <1>6 DEF s

\* Taking the first report away does not change which report about a is the last.
LEMMA LastTail ==
  ASSUME NEW q \in Seq(Reports), q # <<>>, NEW a
  PROVE  /\ \A e : LastSays(Tail(q), a, e) => LastSays(q, a, e)
         /\ Named(q, a) <=> Named(Tail(q), a) \/ Head(q).of = a
         /\ ~Named(Tail(q), a) /\ Head(q).of = a => LastSays(q, a, Head(q).event)
<1> DEFINE t == Tail(q)
           n == Len(q)
<1>1. /\ n \in Nat \ {0} /\ Len(t) = n - 1 /\ Head(q) = q[1]
      /\ \A i \in 1..(n - 1) : t[i] = q[i + 1]
  BY HeadTailProperties, EmptySeq
<1> HIDE DEF t, n
<1>2. \A i \in 1..(n - 1) : i + 1 \in 1..n
  BY <1>1
<1>3. \A i \in 1..n : i # 1 => i - 1 \in 1..(n - 1) /\ q[i] = t[i - 1]
  BY <1>1
<1>4. ASSUME NEW e, LastSays(t, a, e)
      PROVE  LastSays(q, a, e)
  <2>1. PICK i \in 1..(n - 1) :
          t[i].of = a /\ t[i].event = e /\ \A j \in (i + 1)..(n - 1) : t[j].of # a
    BY <1>1, <1>4 DEF LastSays
  <2>2. ASSUME NEW j \in (i + 1 + 1)..n
        PROVE  q[j].of # a
    <3>1. j \in 1..n /\ j # 1 /\ j - 1 \in (i + 1)..(n - 1)
      BY <1>1
    <3>2. QED
      BY <1>3, <2>1, <3>1
  <2>3. i + 1 \in 1..n /\ q[i + 1] = t[i]
    BY <1>1
  <2>4. QED
    BY <2>1, <2>2, <2>3 DEF LastSays, n
<1>5. Named(q, a) <=> Named(t, a) \/ Head(q).of = a
  <2>1. ASSUME Named(q, a)
        PROVE  Named(t, a) \/ Head(q).of = a
    <3>1. PICK i \in 1..n : q[i].of = a
      BY <2>1 DEF Named, n
    <3>2. QED
      BY <1>1, <1>3, <3>1 DEF Named
  <2>2. ASSUME Named(t, a)
        PROVE  Named(q, a)
    <3>1. PICK i \in 1..(n - 1) : t[i].of = a
      BY <1>1, <2>2 DEF Named
    <3>2. i + 1 \in 1..n /\ q[i + 1].of = a
      BY <1>1, <3>1
    <3>3. QED
      BY <3>2 DEF Named, n
  <2>3. 1 \in 1..n
    BY <1>1
  <2>4. QED
    BY <1>1, <2>1, <2>2, <2>3 DEF Named, n
<1>6. ASSUME ~Named(t, a), Head(q).of = a
      PROVE  LastSays(q, a, Head(q).event)
  <2>1. ASSUME NEW j \in (1 + 1)..n
        PROVE  q[j].of # a
    <3>1. j \in 1..n /\ j # 1
      BY <1>1
    <3>2. j - 1 \in 1..Len(t) /\ q[j] = t[j - 1]
      BY <1>1, <1>3, <3>1
    <3>3. QED
      BY <1>6, <3>2 DEF Named
  <2>2. 1 \in 1..n
    BY <1>1
  <2>3. QED
    BY <1>1, <1>6, <2>1, <2>2 DEF LastSays, n
<1>7. QED
  BY <1>4, <1>5, <1>6 DEF t

\* The last report about a in a suffix is the last one in the whole.
LEMMA LastSuffix ==
  ASSUME NEW q \in Seq(Reports), NEW k \in 1..Len(q), NEW a, NEW e,
         LastSays(SubSeq(q, k, Len(q)), a, e)
  PROVE  LastSays(q, a, e)
<1> DEFINE s == SubSeq(q, k, Len(q))
           n == Len(q) - k + 1
<1>1. Len(s) = n /\ Len(q) \in Nat /\ n \in Nat /\ \A i \in 1..n : s[i] = q[k + i - 1]
  BY SubSeqProperties
<1> HIDE DEF s
<1>2. PICK i \in 1..n : s[i].of = a /\ s[i].event = e /\ \A j \in (i + 1)..n : s[j].of # a
  BY <1>1 DEF LastSays, s
<1>3. k + i - 1 \in 1..Len(q) /\ q[k + i - 1] = s[i]
  BY <1>1
<1>4. \A j \in (k + i - 1 + 1)..Len(q) :
        j - k + 1 \in (i + 1)..n /\ j - k + 1 \in 1..n /\ j = k + (j - k + 1) - 1
  BY <1>1
<1>5. \A j \in (k + i - 1 + 1)..Len(q) : q[j].of # a
  BY <1>1, <1>2, <1>4
<1>6. QED
  BY <1>2, <1>3, <1>5 DEF LastSays

\* The part of SettledInv that speaks of one Action's row.
RowSettled(a) ==
  landed[a] /\ a \notin stopped /\ ~Named(queue, a) =>
    \E e \in Events : LastSays(sent, a, e) /\ status[a] = StatusAfter(e)

\* Publishing some events of one Action's command.
LEMMA SettledPublish ==
  ASSUME SettledInv, TypeOK', NEW c \in Actions, NEW es \in Seq(Events), es # <<>>,
         Publish(c, es), UNCHANGED <<api, rows, landed, stopped>>
  PROVE  SettledInv'
<1> DEFINE r == Naming(c, es)
<1>1. /\ r \in Seq(Reports) /\ Len(r) = Len(es)
      /\ \A i \in 1..Len(es) : r[i] = [of |-> c, event |-> es[i]]
  BY NamingType
<1>2. /\ sent \in Seq(Reports) /\ queue \in Seq(Reports)
      /\ sent' = sent \o r /\ queue' = queue \o r
  BY DEF SettledInv, TypeOK, Publish
<1> HIDE DEF r
<1>3. \A a : Named(r, a) <=> a = c
  <2>1. Len(es) \in Nat \ {0}
    BY EmptySeq
  <2>2. 1 \in 1..Len(r)
    BY <1>1, <2>1
  <2>3. ASSUME NEW i \in 1..Len(r)
        PROVE  r[i].of = c
    <3>1. r[i] = [of |-> c, event |-> es[i]]
      BY <1>1, Zenon
    <3>2. QED
      BY <3>1
  <2>4. QED
    BY <2>2, <2>3 DEF Named
<1>4. \A a \in Actions, e \in Events : LastSays(queue', a, e) => LastSays(sent', a, e)
  BY <1>1, <1>2, LastConcat DEF SettledInv, QueueInv
<1>5. ASSUME NEW a \in Actions
      PROVE  RowSettled(a)'
  <2>1. CASE a = c
    <3>1. Named(queue', a)
      BY <1>1, <1>2, <1>3, <2>1, LastConcat
    <3>2. QED
      BY <3>1 DEF RowSettled
  <2>2. CASE a # c
    <3>1. /\ Named(queue', a) <=> Named(queue, a)
          /\ \A e : LastSays(sent, a, e) => LastSays(sent', a, e)
      BY <1>1, <1>2, <1>3, <2>2, LastConcat
    <3>2. QED
      BY <3>1 DEF RowSettled, SettledInv, rows
  <2>3. QED
    BY <2>1, <2>2
<1>6. QED
  BY <1>4, <1>5 DEF SettledInv, QueueInv, RowSettled, rows

\* Ingesting or losing the first report.
LEMMA SettledShorter ==
  ASSUME SettledInv, TypeOK', queue # <<>>, queue' = Tail(queue),
         UNCHANGED <<api, linked, sent>>,
         LET b == Head(queue).of
             e == Head(queue).event
         IN /\ \A a \in Actions \ {b} :
                 /\ UNCHANGED <<status[a], landed[a]>>
                 /\ a \notin stopped' => a \notin stopped
            /\ landed'[b] => linked[b] /\ status'[b] = StatusAfter(e)
  PROVE  SettledInv'
<1> DEFINE b == Head(queue).of
           e == Head(queue).event
<1>1. queue \in Seq(Reports) /\ Head(queue) \in Reports
  BY HeadTailProperties DEF SettledInv, TypeOK
<1>2. b \in Actions /\ e \in Events
  BY <1>1 DEF Reports
<1>3. QueueInv'
  BY <1>1, LastTail DEF SettledInv, QueueInv
<1>4. \A a \in Actions : Named(queue, a) <=> Named(queue', a) \/ b = a
  BY <1>1, LastTail
<1>5. ASSUME NEW a \in Actions
      PROVE  RowSettled(a)'
  <2>1. CASE a = b
    <3>1. ~Named(queue', b) => LastSays(queue, b, e)
      BY <1>1, LastTail
    <3>2. LastSays(queue, b, e) => LastSays(sent, b, e)
      BY <1>2 DEF SettledInv, QueueInv
    <3>3. QED
      BY <1>2, <2>1, <3>1, <3>2 DEF RowSettled
  <2>2. CASE a # b
    BY <1>4, <2>2 DEF RowSettled, SettledInv
  <2>3. QED
    BY <2>1, <2>2
<1>6. \A a \in Actions : api'[a] = "idle" => ~linked'[a] /\ ~landed'[a]
  BY <1>2 DEF SettledInv
<1>7. QED
  BY <1>3, <1>5, <1>6 DEF SettledInv, RowSettled

\* Every step keeps rows and reports together.
LEMMA SettledStep ==
  ASSUME SettledInv, [Next]_vars
  PROVE  SettledInv'
<1>1. TypeOK'
  BY TypeStep DEF SettledInv
<1>2. ASSUME NEW a \in Actions, Handle(a) \/ Crash(a) \/ StopAction(a)
      PROVE  SettledInv'
  <2>1. UNCHANGED <<sent, queue>>
    BY <1>2 DEF Handle, CreateAction, IssueCommand, MarkIssued, SendCommand, Crash, StopAction, wire
  <2>2. \A c \in Actions :
          \/ ~landed'[c]
          \/ c \in stopped'
          \/ UNCHANGED <<status[c], landed[c]>> /\ (c \notin stopped' => c \notin stopped)
    BY <1>2 DEF Handle, CreateAction, IssueCommand, MarkIssued, SendCommand, Crash, StopAction,
                rows, SettledInv, TypeOK
  <2>3. \A c \in Actions : api'[c] = "idle" => ~linked'[c] /\ ~landed'[c]
    BY <1>2 DEF Handle, CreateAction, IssueCommand, MarkIssued, SendCommand, Crash, StopAction,
                rows, SettledInv, TypeOK
  <2>4. QED
    BY <1>1, <2>1, <2>2, <2>3 DEF SettledInv, QueueInv
<1>3. ASSUME NEW d \in Deliveries, RobotStep(d)
      PROVE  SettledInv'
  <2>1. PICK q \in (Final \ {"silent"}) \cup {"accepted", "running"} :
          phase'[d] = q /\ Publish(d[1], Announcing(q))
    BY <1>3, RobotMoves DEF SettledInv
  <2>2. Announcing(q) \in Seq(Events) /\ Announcing(q) # <<>>
    <3>1. Announcing(q) \in Seq(Events)
      BY <2>1, AnnouncedBacked
    <3>2. Announcing(q) # <<>>
      BY DEF Announcing, Final
    <3>3. QED
      BY <3>1, <3>2
  <2>3. QED
    BY <1>1, <1>3, <2>1, <2>2, DeliveryIsPair, SettledPublish DEF RobotStep
<1>4. ASSUME NEW d \in Deliveries, RobotProgress(d)
      PROVE  SettledInv'
  <2>1. <<"action.progress">> \in Seq(Events) /\ <<"action.progress">> # <<>>
    BY DEF Events
  <2>2. QED
    BY <1>1, <1>4, <2>1, DeliveryIsPair, SettledPublish DEF RobotProgress
<1>5. CASE Resend
  <2>1. PICK k \in 1..Len(sent) : queue' = queue \o SubSeq(sent, k, Len(sent))
    BY <1>5 DEF Resend
  <2>2. /\ SubSeq(sent, k, Len(sent)) \in Seq(Reports)
        /\ sent \in Seq(Reports) /\ queue \in Seq(Reports) /\ sent' = sent
    BY <1>5, SubSeqProperties DEF Resend, SettledInv, TypeOK
  <2> DEFINE r == SubSeq(sent, k, Len(sent))
  <2>3. QueueInv'
    <3>1. ASSUME NEW a \in Actions, NEW e \in Events, LastSays(queue \o r, a, e)
          PROVE  LastSays(sent, a, e)
      <4>1. LastSays(r, a, e) \/ LastSays(queue, a, e)
        BY <2>2, <3>1, LastConcat
      <4>2. LastSays(r, a, e) => LastSays(sent, a, e)
        BY <2>2, LastSuffix
      <4>3. QED
        BY <4>1, <4>2 DEF SettledInv, QueueInv
    <3>2. QED
      BY <2>1, <2>2, <3>1 DEF QueueInv
  <2>4. \A a \in Actions : Named(queue, a) => Named(queue', a)
    BY <2>1, <2>2, LastConcat
  <2>5. QED
    BY <1>1, <1>5, <2>2, <2>3, <2>4 DEF SettledInv, Resend, rows
<1>6. CASE Lose
  <2>1. Head(queue) \in Reports
    BY <1>6, HeadTailProperties DEF Lose, SettledInv, TypeOK
  <2>2. Head(queue).of \in Actions
    BY <2>1 DEF Reports
  <2>3. QED
    <3>1. \A a \in Actions \ {Head(queue).of} : landed'[a] = landed[a]
      BY <1>6 DEF Lose, SettledInv, TypeOK
    <3>2. ~landed'[Head(queue).of]
      BY <1>6, <2>2 DEF Lose, SettledInv, TypeOK
    <3>3. /\ queue # <<>> /\ queue' = Tail(queue)
          /\ UNCHANGED <<api, linked, sent, status, stopped>>
      BY <1>6 DEF Lose, rows
    <3>4. QED
      BY <1>1, <3>1, <3>2, <3>3, SettledShorter
<1>7. CASE Ingest
  <2>1. Head(queue) \in Reports
    BY <1>7, HeadTailProperties DEF Ingest, SettledInv, TypeOK
  <2>2. Head(queue).of \in Actions
    BY <2>1 DEF Reports
  <2>3. QED
    BY <1>1, <1>7, <2>2, SettledShorter DEF Ingest, SettledInv, TypeOK
<1>8. CASE UNCHANGED vars
  BY <1>1, <1>8 DEF vars, SettledInv, QueueInv
<1>9. ASSUME NEW k \in Tasks, InjectFault(k)
      PROVE  SettledInv'
  BY <1>1, <1>9 DEF InjectFault, SettledInv, QueueInv, wire
<1>10. QED
  BY <1>2, <1>3, <1>4, <1>5, <1>6, <1>7, <1>8, <1>9 DEF Next

\* No report has been published and no row exists.
LEMMA SettledStart ==
  ASSUME Init
  PROVE  SettledInv
<1>1. TypeOK
  BY TypeInit
<1>2. \A a \in Actions, e \in Events : ~LastSays(queue, a, e)
  BY DEF Init, LastSays
<1>3. QED
  BY <1>1, <1>2 DEF Init, SettledInv, QueueInv

\* What LastReport picks is what the last report says.
LEMMA LastReportSays ==
  ASSUME SettledInv, NEW a \in Actions, NEW e, LastSays(sent, a, e)
  PROVE  LastReport(a) = e
<1> DEFINE P(i) == sent[i].of = a /\ \A j \in (i + 1)..Len(sent) : sent[j].of # a
           i == CHOOSE i \in 1..Len(sent) : P(i)
<1>1. Len(sent) \in Nat
  BY DEF SettledInv, TypeOK
<1>2. PICK k \in 1..Len(sent) : P(k) /\ sent[k].event = e
  BY DEF LastSays
<1>3. i \in 1..Len(sent) /\ P(i)
  BY <1>2
<1>4. i = k
  <2>1. ~(i < k)
    BY <1>1, <1>2, <1>3
  <2>2. ~(k < i)
    BY <1>1, <1>2, <1>3
  <2>3. QED
    BY <1>1, <1>2, <1>3, <2>1, <2>2
<1>5. LastReport(a) = sent[i].event
  BY DEF LastReport
<1>6. QED
  BY <1>2, <1>4, <1>5

\* Once the last word about an Action has been applied and nothing more about it is
\* under way, the row says what the robot said last, however often commands and
\* reports were repeated, lost or overtaken (ingest_observation_from_message).
THEOREM SettledCorrect == Spec => []SettledStatusAgrees
<1>1. Init => SettledInv
  BY SettledStart
<1>2. SettledInv /\ [Next]_vars => SettledInv'
  BY SettledStep
<1>3. SettledInv => SettledStatusAgrees
  BY LastReportSays DEF SettledInv, SettledStatusAgrees, Named
<1>4. QED
  BY <1>1, <1>2, <1>3, PTL DEF Spec

=============================================================================
