------------------------- MODULE CurrentStateProofs -------------------------
(***************************************************************************)
(* What holds of CurrentState for any number of handlers, requests,        *)
(* reports and alerts.                                                     *)
(***************************************************************************)
EXTENDS CurrentState, TLAPS, SequenceTheorems, WellFoundedInduction

-----------------------------------------------------------------------------
\* Rows and the transactions on them

IsRow(r) ==
  /\ r = [version |-> r.version, events |-> r.events, alerts |-> r.alerts,
          blocked |-> r.blocked, robots |-> r.robots]
  /\ r.version \in Nat

\* Every row read or about to be written is a row, and what a transaction is about to
\* write has the version after the one it has read.
RowInv ==
  /\ IsRow(row)
  /\ pc = [t \in Threads |-> pc[t]]
  /\ read = [t \in Threads |-> read[t]] /\ new = [t \in Threads |-> new[t]]
  /\ \A t \in Threads :
       /\ IsRow(read[t]) /\ IsRow(new[t])
       /\ pc[t] \in {"copy", "store"} => new[t].version = read[t].version + 1

\* A step that is no part of a transaction on the row.
OtherStep ==
  /\ UNCHANGED <<row, read, new, clock, torn>>
  /\ pc' = [t \in Threads |-> pc'[t]]
  /\ \A t \in Threads : pc'[t] \in {"copy", "store"} => pc'[t] = pc[t]
  /\ snaps' \in {snaps, snaps \cup {row}}

\* What a change makes of a row is a row of the next version.
LEMMA ChangedRow ==
  ASSUME NEW c, NEW r, IsRow(r)
  PROVE  IsRow(Changed(c, r)) /\ Changed(c, r).version = r.version + 1
<1>1. CASE c.do = "clear"
  BY <1>1 DEF IsRow, Changed, Recovered
<1>2. CASE c.do # "clear"
  BY <1>2 DEF IsRow, Changed, Refreshed
<1> QED
  BY <1>1, <1>2

\* The actions of a step are those of a transaction or others.
LEMMA StepKinds ==
  ASSUME RowInv, [Next]_vars
  PROVE  \/ OtherStep
         \/ \E t \in Threads : LoadRow(t) \/ CopyRobots(t) \/ StoreRow(t)
<1> USE DEF RowInv, OtherStep, request, transaction, robotSide
<1>1. ASSUME NEW h \in Handlers, Serve(h)
      PROVE  OtherStep
  <2>0. h \in Threads
    BY DEF Threads
  <2>1. CASE Begin(h)
    BY <2>0, <2>1 DEF Begin
  <2>2. CASE MarkOffline(h)
    BY <2>0, <2>2 DEF MarkOffline, Onward, Afterwards
  <2>3. CASE ProbeRobot(h)
    BY <2>0, <2>3 DEF ProbeRobot
  <2>4. CASE MarkIdle(h)
    BY <2>0, <2>4 DEF MarkIdle
  <2>5. CASE TakeSnapshot(h)
    BY <2>0, <2>5 DEF TakeSnapshot
  <2>6. CASE Broadcast(h)
    BY <2>0, <2>6 DEF Broadcast
  <2>7. CASE BroadcastFails(h)
    BY <2>0, <2>7 DEF BroadcastFails
  <2> QED
    BY <1>1, <2>1, <2>2, <2>3, <2>4, <2>5, <2>6, <2>7 DEF Serve
<1>2. CASE ReportUnasked
  BY <1>2 DEF ReportUnasked
<1>3. CASE ReceiveReport
  BY <1>3 DEF ReceiveReport
<1>4. CASE MergeRobot
  BY <1>4 DEF MergeRobot, Onward, Afterwards
<1>5. CASE UNCHANGED vars
  BY <1>5 DEF vars
<1> QED
  BY <1>1, <1>2, <1>3, <1>4, <1>5 DEF Next, Transact

LEMMA RowStart == Init => RowInv
BY DEF Init, RowInv, IsRow, FirstRow

LEMMA RowStep == RowInv /\ [Next]_vars => RowInv'
<1> SUFFICES ASSUME RowInv, [Next]_vars
             PROVE  RowInv'
  OBVIOUS
<1>1. CASE OtherStep
  BY <1>1 DEF OtherStep, RowInv
<1>2. ASSUME NEW t \in Threads, LoadRow(t)
      PROVE  RowInv'
  <2>1. /\ IsRow(Changed(Head(todo[t]), row))
        /\ Changed(Head(todo[t]), row).version = row.version + 1
    BY ChangedRow DEF RowInv
  <2> HIDE DEF IsRow
  <2> QED
    BY <1>2, <2>1 DEF LoadRow, RowInv
<1>3. ASSUME NEW t \in Threads, CopyRobots(t)
      PROVE  RowInv'
  <2>1. new'[t] = [new[t] EXCEPT !.robots = robot]
    BY <1>3 DEF CopyRobots, RowInv
  <2>2. IsRow(new'[t]) /\ new'[t].version = new[t].version
    BY <2>1 DEF RowInv, IsRow
  <2> QED
    BY <1>3, <2>2 DEF CopyRobots, RowInv
<1>4. ASSUME NEW t \in Threads, StoreRow(t)
      PROVE  RowInv'
  <2>1. IsRow(row')
    BY <1>4 DEF StoreRow, Overwrite, RowInv, IsRow
  <2>2. IsRow(FirstRow)
    BY DEF FirstRow, IsRow
  <2>3. pc'[t] \notin {"copy", "store"}
    BY <1>4 DEF StoreRow, Afterwards, RowInv
  <2> HIDE DEF IsRow
  <2> QED
    BY <1>4, <2>1, <2>2, <2>3 DEF StoreRow, RowInv
<1> QED
  BY <1>1, <1>2, <1>3, <1>4, StepKinds

THEOREM RowInvariant == Spec => []RowInv
BY RowStart, RowStep, PTL DEF Spec

-----------------------------------------------------------------------------
\* Alerts in two columns

Mirrored(r) == r.alerts = r.events

MirrorInv == Mirrored(row) /\ \A t \in Threads : Mirrored(read[t]) /\ Mirrored(new[t])

LEMMA ChangedMirrored ==
  ASSUME NEW c, NEW r, IsRow(r), Mirrored(r)
  PROVE  Mirrored(Changed(c, r))
BY DEF IsRow, Mirrored, Changed, Recovered, Refreshed

LEMMA MirrorStart == Init => MirrorInv
BY DEF Init, MirrorInv, Mirrored, FirstRow

LEMMA MirrorStep == RowInv /\ MirrorInv /\ [Next]_vars => MirrorInv'
<1> SUFFICES ASSUME RowInv, MirrorInv, [Next]_vars
             PROVE  MirrorInv'
  OBVIOUS
<1>1. CASE OtherStep
  BY <1>1 DEF OtherStep, MirrorInv, Mirrored
<1>2. ASSUME NEW t \in Threads, LoadRow(t)
      PROVE  MirrorInv'
  <2>1. Mirrored(Changed(Head(todo[t]), row))
    BY ChangedMirrored DEF RowInv, MirrorInv
  <2> QED
    BY <1>2, <2>1 DEF LoadRow, MirrorInv, RowInv, Mirrored
<1>3. ASSUME NEW t \in Threads, CopyRobots(t)
      PROVE  MirrorInv'
  <2>1. new'[t] = [new[t] EXCEPT !.robots = robot]
    BY <1>3 DEF CopyRobots, RowInv
  <2>2. Mirrored(new'[t])
    BY <2>1 DEF RowInv, IsRow, MirrorInv, Mirrored
  <2> QED
    BY <1>3, <2>2 DEF CopyRobots, MirrorInv, RowInv, Mirrored
<1>4. ASSUME NEW t \in Threads, StoreRow(t)
      PROVE  MirrorInv'
  \* Both columns are written, or neither is.
  <2>1. Mirrored(Overwrite(read[t], new[t]))
    BY DEF Overwrite, MirrorInv, Mirrored
  <2>2. Mirrored(FirstRow)
    BY DEF FirstRow, Mirrored
  <2> QED
    BY <1>4, <2>1, <2>2 DEF StoreRow, MirrorInv, RowInv, Mirrored
<1> QED
  BY <1>1, <1>2, <1>3, <1>4, StepKinds

\* active_events_json and the alerts of environment_state_json agree, whichever
\* transactions overwrite each other (_refresh_current_state, _clear_recovered_fault).
THEOREM MirrorCorrect == Spec => []AlertsMirrorEvents
<1>1. MirrorInv => AlertsMirrorEvents
  BY DEF MirrorInv, Mirrored, AlertsMirrorEvents
<1> QED
  BY <1>1, MirrorStart, MirrorStep, RowInvariant, PTL DEF Spec

-----------------------------------------------------------------------------
\* Versions

\* No snapshot is of a later version than the row, and one of its version is the row.
NoneNewer ==
  \A s \in snaps :
    /\ s.version \in Nat /\ s.version <= row.version
    /\ s.version = row.version => s = row

VersionInv == SameVersionSameState /\ (~torn => NoneNewer)

LEMMA VersionStart == Init => VersionInv
BY DEF Init, VersionInv, SameVersionSameState, NoneNewer

LEMMA VersionStep == RowInv /\ VersionInv /\ [Next]_vars => VersionInv'
<1> SUFFICES ASSUME RowInv, VersionInv, [Next]_vars
             PROVE  VersionInv'
  OBVIOUS
<1> USE DEF VersionInv, SameVersionSameState, NoneNewer
<1>1. CASE OtherStep
  BY <1>1 DEF OtherStep, RowInv, IsRow
<1>2. ASSUME NEW t \in Threads, LoadRow(t) \/ CopyRobots(t)
      PROVE  VersionInv'
  BY <1>2 DEF LoadRow, CopyRobots
<1>3. ASSUME NEW t \in Threads, StoreRow(t), ~torn'
      PROVE  VersionInv'
  <2>1. ~torn /\ read[t] = row /\ snaps' = snaps
    BY <1>3 DEF StoreRow
  <2>2. row.version \in Nat /\ row'.version = row.version + 1
    BY <1>3, <2>1 DEF StoreRow, Overwrite, RowInv, IsRow
  <2> QED
    BY <2>1, <2>2
<1>4. ASSUME NEW t \in Threads, StoreRow(t), torn'
      PROVE  VersionInv'
  BY <1>4 DEF StoreRow
<1> QED
  BY <1>1, <1>2, <1>3, <1>4, StepKinds DEF StoreRow, RowInv

\* Until a transaction overwrites another's work, snapshots of one version are one
\* (create_snapshot; every change of the row counts state_version up).
THEOREM VersionsCorrect == Spec => []SameVersionSameState
<1>1. VersionInv => SameVersionSameState
  BY DEF VersionInv
<1> QED
  BY <1>1, VersionStart, VersionStep, RowInvariant, PTL DEF Spec

-----------------------------------------------------------------------------
\* The robot's row

\* A report that says what state the robot is in; a pose does not.
Says(r) == r.event # "pose.updated"

\* The last report on the wire that says a state says this one.
Leads(w, state) ==
  \A i \in 1..Len(w) :
    Says(w[i]) /\ (\A j \in (i + 1)..Len(w) : ~Says(w[j]))
      => state = StateAfter(w[i].event, state)

Silent(w) == \A i \in 1..Len(w) : ~Says(w[i])

\* What the robot's row is, or is about to be.
Shown == IF pc[Mqtt] = "merge" THEN merged ELSE robot

Typed ==
  /\ wire \in Seq(Reports)
  /\ pc = [t \in Threads |-> pc[t]]
  /\ req \in [Handlers -> AnyRequest \cup {None}]
  /\ \A h \in Handlers :
       /\ pc[h] # "merge"
       /\ pc[h] # "new" => req[h] \in AnyRequest
       /\ pc[h] \in {"mark", "idle"} => WritesRobot(req[h])

\* The wire leads to the state of the device; without a word on it, the row shows that
\* state already, unless a handler is about to have the robot speak.
SettleInv ==
  /\ Leads(wire, device)
  /\ Silent(wire) /\ (\A h \in Handlers : ~Unsettled(h)) => Shown = device

LEMMA SaysNow ==
  ASSUME NEW r \in Reports, Says(r), NEW a, NEW b
  PROVE  StateAfter(r.event, a) = StateAfter(r.event, b)
BY DEF Says, Reports, OwnEvents, StateAfter

\* A further report: if it says a state, the wire leads to that state.
LEMMA LeadsAppend ==
  ASSUME NEW w \in Seq(Reports), NEW r \in Reports, NEW d, Leads(w, d)
  PROVE  /\ Append(w, r) \in Seq(Reports)
         /\ Leads(Append(w, r), StateAfter(r.event, d))
         /\ Silent(Append(w, r)) => Silent(w) /\ StateAfter(r.event, d) = d
         /\ Says(r) => ~Silent(Append(w, r))
<1> DEFINE v == Append(w, r)
           n == Len(w) + 1
<1>1. /\ v \in Seq(Reports) /\ Len(v) = n /\ v[n] = r /\ Len(w) \in Nat
      /\ \A i \in 1..Len(w) : v[i] = w[i]
  OBVIOUS
<1>2. ~Says(r) => StateAfter(r.event, d) = d
  BY DEF Says, StateAfter
<1>3. Says(r) => ~Silent(v)
  BY <1>1 DEF Silent
<1>4. Silent(v) => Silent(w)
  BY <1>1 DEF Silent
<1>5. ASSUME NEW i \in 1..n, Says(v[i]), \A j \in (i + 1)..n : ~Says(v[j])
      PROVE  StateAfter(r.event, d) = StateAfter(v[i].event, StateAfter(r.event, d))
  <2>1. CASE i = n
    BY <1>1, <1>5, <2>1, SaysNow
  <2>2. CASE i # n
    <3>1. i \in 1..Len(w) /\ ~Says(r)
      BY <1>1, <1>5, <2>2
    <3>2. \A j \in (i + 1)..Len(w) : ~Says(w[j])
      BY <1>1, <1>5, <3>1
    <3> QED
      BY <1>1, <1>2, <1>5, <3>1, <3>2 DEF Leads
  <2> QED
    BY <2>1, <2>2
<1> QED
  BY <1>1, <1>2, <1>3, <1>4, <1>5 DEF Leads

\* The first report is taken off the wire.
LEMMA LeadsTail ==
  ASSUME NEW w \in Seq(Reports), w # <<>>, NEW d, Leads(w, d)
  PROVE  /\ Head(w) \in Reports /\ Tail(w) \in Seq(Reports)
         /\ Leads(Tail(w), d)
         /\ Silent(Tail(w)) /\ Says(Head(w)) => d = StateAfter(Head(w).event, d)
         /\ Silent(Tail(w)) /\ ~Says(Head(w)) => Silent(w)
<1> DEFINE v == Tail(w)
           n == Len(w)
<1>1. /\ n \in Nat \ {0} /\ v \in Seq(Reports) /\ Len(v) = n - 1
      /\ Head(w) = w[1] /\ w[1] \in Reports
      /\ \A i \in 1..(n - 1) : v[i] = w[i + 1]
  OBVIOUS
<1>2. ASSUME NEW i \in 1..(n - 1), Says(v[i]), \A j \in (i + 1)..(n - 1) : ~Says(v[j])
      PROVE  d = StateAfter(v[i].event, d)
  <2>1. \A j \in (i + 2)..n : j - 1 \in (i + 1)..(n - 1) /\ v[j - 1] = w[j]
    BY <1>1
  <2>2. i + 1 \in 1..n /\ v[i] = w[i + 1]
    BY <1>1
  <2>3. \A j \in (i + 2)..n : ~Says(w[j])
    BY <1>2, <2>1
  <2> QED
    BY <1>2, <2>2, <2>3 DEF Leads
<1>3. ASSUME Silent(v), NEW j \in 2..n
      PROVE  ~Says(w[j])
  <2>1. j - 1 \in 1..(n - 1) /\ v[j - 1] = w[j]
    BY <1>1, <1>3
  <2> QED
    BY <1>1, <1>3, <2>1 DEF Silent
<1>4. Silent(v) /\ Says(w[1]) => d = StateAfter(w[1].event, d)
  BY <1>1, <1>3 DEF Leads
<1>5. Silent(v) /\ ~Says(w[1]) => Silent(w)
  BY <1>1, <1>3 DEF Silent
<1> QED
  BY <1>1, <1>2, <1>4, <1>5 DEF Leads

LEMMA TypedStart == Init => Typed /\ SettleInv
BY StateAssumption DEF Init, Typed, SettleInv, Leads, Silent, Shown, Unsettled, Threads

\* What the robot answers to a broadcast is a report, and one that says a state.
LEMMA Answers ==
  ASSUME NEW q \in AnyRequest, NEW event \in AnswerTo(q), NEW tag \in Tags
  PROVE  /\ [event |-> event, about |-> q.target, tagged |-> tag] \in Reports
         /\ event # "pose.updated"
<1>1. event \in {"fault.recovered", "device.offline", "path.blocked"}
  <2>1. CASE q.op = "recover"
    BY <2>1 DEF AnswerTo
  <2>2. CASE q.op = "inject" /\ q.event = "robot.offline"
    BY <2>2 DEF AnswerTo
  <2>3. CASE q.op = "inject" /\ q.event = "path.blocked"
    BY <2>3 DEF AnswerTo
  <2> QED
    BY <2>1, <2>2, <2>3 DEF AnswerTo
<1>2. q.target \in {Robot, Path, None}
  BY DEF AnyRequest
<1> QED
  BY <1>1, <1>2 DEF Reports, Tags

LEMMA WriterAnswered ==
  ASSUME NEW q \in AnyRequest, WritesRobot(q)
  PROVE  AnswerTo(q) # {} /\ q.op \in {"inject", "recover"}
<1>1. q.op \in {"inject", "recover"}
  BY StateAssumption DEF AnyRequest, WritesRobot
<1>2. CASE q.op = "recover"
  BY <1>2 DEF AnswerTo
<1>3. CASE q.op = "inject"
  BY <1>3 DEF AnswerTo, WritesRobot
<1> QED
  BY <1>1, <1>2, <1>3

LEMMA TypedStep == Typed /\ [Next]_vars => Typed'
<1> SUFFICES ASSUME Typed, [Next]_vars
             PROVE  Typed'
  OBVIOUS
<1> USE DEF Typed, request, robotSide
<1>0. Mqtt \notin Handlers /\ Handlers \subseteq Threads /\ Mqtt \in Threads
  BY StateAssumption DEF Threads
<1>1. ASSUME NEW t \in Threads, Transact(t)
      PROVE  Typed'
  <2>1. CASE LoadRow(t)
    BY <1>0, <2>1 DEF LoadRow
  <2>2. CASE CopyRobots(t)
    BY <1>0, <2>2 DEF CopyRobots
  <2>3. CASE StoreRow(t)
    BY <1>0, <2>3 DEF StoreRow, Afterwards
  <2> QED
    BY <1>1, <2>1, <2>2, <2>3 DEF Transact
<1>2. ASSUME NEW h \in Handlers, Serve(h)
      PROVE  Typed'
  <2>1. CASE Begin(h)
    <3>1. PICK q \in Requests :
            /\ req' = [req EXCEPT ![h] = q]
            /\ pc' = [pc EXCEPT ![h] = IF WritesRobot(q) THEN "mark"
                                       ELSE IF Work(q) = <<>> THEN "silent" ELSE "load"]
      BY <2>1 DEF Begin
    <3>2. q \in AnyRequest
      BY StateAssumption
    <3>3. req'[h] = q /\ pc'[h] \in {"mark", "silent", "load"}
          /\ (pc'[h] = "mark" => WritesRobot(q))
      BY <1>0, <3>1
    <3>4. wire' = wire /\ req' \in [Handlers -> AnyRequest \cup {None}]
      BY <2>1, <3>1, <3>2 DEF Begin
    <3> HIDE DEF request, robotSide
    <3> QED
      BY <1>0, <3>1, <3>2, <3>3, <3>4
  <2>2. CASE MarkOffline(h)
    BY <1>0, <2>2 DEF MarkOffline, Onward, Afterwards
  <2>3. CASE ProbeRobot(h)
    BY <1>0, <2>3 DEF ProbeRobot
  <2>4. CASE MarkIdle(h)
    BY <1>0, <2>4 DEF MarkIdle
  <2>5. CASE TakeSnapshot(h)
    BY <1>0, <2>5, StateAssumption DEF TakeSnapshot
  <2>6. CASE Broadcast(h)
    <3>1. wire' \in Seq(Reports)
      <4>1. req[h] \in AnyRequest
        BY <2>6 DEF Broadcast
      <4>2. CASE AnswerTo(req[h]) = {}
        BY <2>6, <4>2 DEF Broadcast
      <4>3. CASE AnswerTo(req[h]) # {}
        <5>1. PICK tag \in Tags, event \in AnswerTo(req[h]) :
                wire' = Append(wire, [event |-> event, about |-> req[h].target,
                                      tagged |-> tag])
          BY <2>6, <4>3 DEF Broadcast
        <5>2. [event |-> event, about |-> req[h].target, tagged |-> tag] \in Reports
          BY <4>1, Answers
        <5> QED
          BY <5>1, <5>2
      <4> QED
        BY <4>2, <4>3
    <3> QED
      BY <1>0, <2>6, <3>1 DEF Broadcast
  <2>7. CASE BroadcastFails(h)
    BY <1>0, <2>7 DEF BroadcastFails
  <2> QED
    BY <1>2, <2>1, <2>2, <2>3, <2>4, <2>5, <2>6, <2>7 DEF Serve
<1>3. CASE ReportUnasked
  <2>1. PICK event \in OwnEvents, tag \in Tags :
          wire' = Append(wire, [event |-> event, about |-> None, tagged |-> tag])
    BY <1>3 DEF ReportUnasked
  <2>2. [event |-> event, about |-> None, tagged |-> tag] \in Reports
    BY DEF Reports, Tags
  <2>3. wire' \in Seq(Reports)
    BY <2>1, <2>2
  <2> QED
    BY <1>3, <2>3 DEF ReportUnasked
<1>4. CASE ReceiveReport
  <2>1. wire' = Tail(wire) /\ wire # <<>>
    BY <1>4 DEF ReceiveReport
  <2>2. wire' \in Seq(Reports)
    BY <2>1
  <2> QED
    BY <1>0, <1>4, <2>2 DEF ReceiveReport
<1>5. CASE MergeRobot
  BY <1>0, <1>5 DEF MergeRobot, Onward, Afterwards
<1>6. CASE UNCHANGED vars
  BY <1>6 DEF vars
<1> QED
  BY <1>1, <1>2, <1>3, <1>4, <1>5, <1>6 DEF Next

\* A step that leaves the wire alone keeps the invariant if no handler gets settled by it
\* and, where all are settled, it changes nothing that is shown.
LEMMA SameWire ==
  ASSUME SettleInv, UNCHANGED <<wire, device>>,
         \A h \in Handlers : Unsettled(h) => Unsettled(h)',
         (\A h \in Handlers : ~Unsettled(h)') => Shown' = Shown
  PROVE  SettleInv'
BY DEF SettleInv, Leads, Silent, Says

\* The wire gets one more report.
LEMMA LongerWire ==
  ASSUME Typed, SettleInv, NEW r \in Reports, wire' = Append(wire, r),
         device' = StateAfter(r.event, device),
         Says(r) \/ (/\ Shown' = Shown
                     /\ \A h \in Handlers : Unsettled(h) => Unsettled(h)')
  PROVE  SettleInv'
<1>1. /\ Leads(wire', device')
      /\ Silent(wire') => Silent(wire) /\ device' = device
      /\ Says(r) => ~Silent(wire')
  BY LeadsAppend DEF Typed, SettleInv
<1> QED
  BY <1>1 DEF SettleInv, Leads, Silent, Says

LEMMA SettleStep == Typed /\ SettleInv /\ [Next]_vars => SettleInv'
<1> SUFFICES ASSUME Typed, SettleInv, [Next]_vars
             PROVE  SettleInv'
  OBVIOUS
<1> USE DEF Unsettled, Shown, request, robotSide
<1>0. Mqtt \notin Handlers /\ Handlers \subseteq Threads /\ Mqtt \in Threads
  BY StateAssumption DEF Threads
<1>1. ASSUME NEW t \in Threads, Transact(t)
      PROVE  SettleInv'
  <2>1. CASE LoadRow(t)
    BY <1>0, <2>1, SameWire DEF LoadRow, Typed
  <2>2. CASE CopyRobots(t)
    BY <1>0, <2>2, SameWire DEF CopyRobots, Typed
  <2>3. CASE StoreRow(t)
    <3>1. ASSUME NEW h \in Handlers, Unsettled(h)
          PROVE  Unsettled(h)'
      <4>1. req[h] \in AnyRequest /\ req[h].op \in {"inject", "recover"}
        BY <3>1, WriterAnswered DEF Typed
      <4> QED
        BY <1>0, <2>3, <3>1, <4>1 DEF StoreRow, Afterwards, Typed
    <3> QED
      BY <1>0, <2>3, <3>1, SameWire DEF StoreRow, Afterwards, Typed
  <2> QED
    BY <1>1, <2>1, <2>2, <2>3 DEF Transact
<1>2. ASSUME NEW h \in Handlers, Serve(h)
      PROVE  SettleInv'
  <2>1. CASE Begin(h)
    BY <1>0, <2>1, SameWire DEF Begin, Typed
  <2>2. CASE MarkOffline(h)
    BY <1>0, <2>2, SameWire DEF MarkOffline, Onward, Afterwards, Typed
  <2>3. CASE ProbeRobot(h)
    BY <1>0, <2>3, SameWire DEF ProbeRobot, Typed
  <2>4. CASE MarkIdle(h)
    BY <1>0, <2>4, SameWire DEF MarkIdle, Typed
  <2>5. CASE TakeSnapshot(h)
    BY <1>0, <2>5, SameWire DEF TakeSnapshot, Typed
  <2>6. CASE Broadcast(h)
    <3>1. req[h] \in AnyRequest
      BY <2>6 DEF Broadcast, Typed
    <3>2. CASE AnswerTo(req[h]) = {}
      <4>1. ~WritesRobot(req[h])
        BY <3>1, <3>2, WriterAnswered
      <4> QED
        BY <1>0, <2>6, <3>2, <4>1, SameWire DEF Broadcast, Typed
    <3>3. CASE AnswerTo(req[h]) # {}
      <4>1. PICK tag \in Tags, event \in AnswerTo(req[h]) :
              /\ wire' = Append(wire, [event |-> event, about |-> req[h].target,
                                       tagged |-> tag])
              /\ device' = StateAfter(event, device)
        BY <2>6, <3>3 DEF Broadcast
      <4> QED
        BY <3>1, <4>1, Answers, LongerWire DEF Says
    <3> QED
      BY <3>2, <3>3
  <2>7. CASE BroadcastFails(h)
    BY <1>0, <2>7, SameWire DEF BroadcastFails, Typed
  <2> QED
    BY <1>2, <2>1, <2>2, <2>3, <2>4, <2>5, <2>6, <2>7 DEF Serve
<1>3. CASE ReportUnasked
  <2>1. PICK event \in OwnEvents, tag \in Tags :
          /\ wire' = Append(wire, [event |-> event, about |-> None, tagged |-> tag])
          /\ device' = StateAfter(event, device)
    BY <1>3 DEF ReportUnasked
  <2>2. [event |-> event, about |-> None, tagged |-> tag] \in Reports
    BY DEF Reports, Tags
  <2> QED
    BY <1>3, <2>1, <2>2, LongerWire DEF ReportUnasked
<1>4. CASE ReceiveReport
  <2>1. /\ Leads(Tail(wire), device)
        /\ Silent(Tail(wire)) /\ Says(Head(wire)) =>
             device = StateAfter(Head(wire).event, device)
        /\ Silent(Tail(wire)) /\ ~Says(Head(wire)) => Silent(wire)
        /\ Head(wire) \in Reports
    BY <1>4, LeadsTail DEF ReceiveReport, Typed, SettleInv
  <2>2. Leads(wire', device')
    BY <1>4, <2>1 DEF ReceiveReport
  <2>3. ASSUME Silent(wire'), \A h \in Handlers : ~Unsettled(h)'
        PROVE  Shown' = device'
    <3>1. Shown' = StateAfter(Head(wire).event, robot) /\ device' = device
          /\ wire' = Tail(wire) /\ Shown = robot
      BY <1>0, <1>4 DEF ReceiveReport, Typed
    <3>2. CASE Says(Head(wire))
      BY <2>1, <2>3, <3>1, <3>2, SaysNow
    <3>3. CASE ~Says(Head(wire))
      <4>1. StateAfter(Head(wire).event, robot) = robot
        BY <3>3 DEF Says, StateAfter
      <4>2. \A h \in Handlers : ~Unsettled(h)
        BY <1>0, <1>4, <2>3 DEF ReceiveReport, Typed
      <4>3. Silent(wire)
        BY <2>1, <2>3, <3>1, <3>3 DEF Silent
      <4> QED
        BY <3>1, <4>1, <4>2, <4>3 DEF SettleInv
    <3> QED
      BY <3>2, <3>3
  <2> QED
    BY <2>2, <2>3 DEF SettleInv, Leads, Silent, Says
<1>5. CASE MergeRobot
  BY <1>0, <1>5, SameWire DEF MergeRobot, Onward, Afterwards, Typed
<1>6. CASE UNCHANGED vars
  BY <1>6, SameWire DEF vars
<1> QED
  BY <1>1, <1>2, <1>3, <1>4, <1>5, <1>6 DEF Next

\* Once the broadcasts are out and the reports stored, the robot's row shows what the
\* robot said last, whatever handlers and the MQTT thread (_upsert_robot_from_result)
\* wrote in between.
THEOREM RobotRowCorrect == Spec => []RobotRowSettles
<1>1. SettleInv => RobotRowSettles
  BY DEF SettleInv, RobotRowSettles, Shown, Silent
<1> QED
  BY <1>1, TypedStart, TypedStep, SettleStep, PTL DEF Spec

-----------------------------------------------------------------------------
\* The lists of alerts

\* Induction over the numbers, for a set: no operator to instantiate.
LEMMA SetInduction ==
  ASSUME NEW S, 0 \in S, \A n \in Nat : n \in S => n + 1 \in S
  PROVE  Nat \subseteq S
<1>1. IsWellFoundedOn(OpToRel(<, Nat), Nat)
  BY NatLessThanWellFounded
<1>2. SUFFICES ASSUME Nat \ S # {}
               PROVE  FALSE
  OBVIOUS
<1>3. PICK x \in Nat \ S : \A y \in Nat \ S : <<y, x>> \notin OpToRel(<, Nat)
  BY <1>1, <1>2, WFMin
<1>4. x \in Nat /\ x # 0 /\ x - 1 \in Nat
  OBVIOUS
<1>5. x - 1 \in Nat \ S
  BY <1>4
<1>6. <<x - 1, x>> \in OpToRel(<, Nat)
  <2>1. <<x - 1, x>> \in {ss \in Nat \X Nat : ss[1] < ss[2]}
    BY <1>4
  <2> QED
    BY <2>1 DEF OpToRel
<1> QED
  BY <1>3, <1>5, <1>6

\* f[i] comes from f[i - 1] by next.
Iterates(f, n, base, next) ==
  f[0] = base /\ \A i \in 1..n : f[i] = next[<<i, f[i - 1]>>]

\* A recursive definition over an interval defines a function.
LEMMA Recursion ==
  ASSUME NEW n \in Nat, NEW T, NEW base \in T, NEW next \in [(1..n) \X T -> T]
  PROVE  \E f \in [0..n -> T] : Iterates(f, n, base, next)
<1> DEFINE Good == {d \in Nat : d <= n => \E f \in [0..d -> T] : Iterates(f, d, base, next)}
<1>1. 0 \in Good
  <2>1. [i \in 0..0 |-> base] \in [0..0 -> T] /\ Iterates([i \in 0..0 |-> base], 0, base, next)
    BY DEF Iterates
  <2>2. QED
    BY <2>1
<1>2. ASSUME NEW d \in Nat, d \in Good
      PROVE  d + 1 \in Good
  <2> SUFFICES ASSUME d + 1 <= n
               PROVE  \E f \in [0..(d + 1) -> T] : Iterates(f, d + 1, base, next)
    OBVIOUS
  <2>1. PICK g \in [0..d -> T] : Iterates(g, d, base, next)
    BY <1>2
  <2> DEFINE h == [i \in 0..(d + 1) |-> IF i <= d THEN g[i] ELSE next[<<d + 1, g[d]>>]]
  <2>2. <<d + 1, g[d]>> \in (1..n) \X T
    OBVIOUS
  <2>3. h \in [0..(d + 1) -> T]
    BY <2>2
  <2>4. h[0] = base
    BY <2>1 DEF Iterates
  <2>5. ASSUME NEW i \in 1..(d + 1)
        PROVE  h[i] = next[<<i, h[i - 1]>>]
    <3>1. h[i - 1] = g[i - 1]
      OBVIOUS
    <3>2. CASE i <= d
      BY <2>1, <3>1, <3>2 DEF Iterates
    <3>3. CASE i = d + 1
      <4>1. i - 1 = d /\ ~(i <= d)
        BY <3>3
      <4>2. h[i] = next[<<i, g[d]>>] /\ h[i - 1] = g[d]
        BY <3>1, <3>3, <4>1
      <4>3. QED
        BY <4>2
    <3>4. QED
      BY <3>2, <3>3
  <2> HIDE DEF h
  <2>6. QED
    BY <2>3, <2>4, <2>5 DEF Iterates
<1>3. n \in Good
  <2> HIDE DEF Good
  <2>1. QED
    BY <1>1, <1>2, SetInduction
<1>4. QED
  BY <1>3

Descending(q) == \A i, j \in 1..Len(q) : i < j => q[i].at > q[j].at

\* A list is in order, and no alert in it was made after the moment now.
Ordered(q, now) == Descending(q) /\ \A i \in 1..Len(q) : q[i].at <= now

\* q has been picked, in their order, from the first n alerts of s.
Picked(q, s, n) ==
  /\ Len(q) <= n
  /\ \A i \in 1..Len(q) : \E j \in 1..n : q[i] = s[j]
  /\ Descending(s) => Descending(q)

LEMMA PickedSame ==
  ASSUME NEW s \in Seq(Alerts), NEW n \in Nat, n + 1 <= Len(s), NEW q \in Seq(Alerts),
         Picked(q, s, n)
  PROVE  Picked(q, s, n + 1)
<1>1. \A j \in 1..n : j \in 1..(n + 1)
  OBVIOUS
<1>2. Len(q) \in Nat /\ Len(q) <= n + 1
  BY DEF Picked
<1>3. QED
  BY <1>1, <1>2 DEF Picked

LEMMA PickedNext ==
  ASSUME NEW s \in Seq(Alerts), NEW n \in Nat, n + 1 <= Len(s), NEW q \in Seq(Alerts),
         Picked(q, s, n)
  PROVE  Append(q, s[n + 1]) \in Seq(Alerts) /\ Picked(Append(q, s[n + 1]), s, n + 1)
<1> DEFINE a == s[n + 1]
           p == Append(q, a)
           m == Len(q) + 1
<1>1. Len(s) \in Nat /\ n + 1 \in 1..Len(s) /\ a \in Alerts
  OBVIOUS
<1>2. /\ p \in Seq(Alerts) /\ Len(p) = m /\ p[m] = a /\ Len(q) \in Nat
      /\ \A i \in 1..Len(q) : p[i] = q[i]
  BY <1>1
<1> HIDE DEF p
<1>3. Len(p) <= n + 1
  BY <1>2 DEF Picked
<1>4. ASSUME NEW i \in 1..Len(p)
      PROVE  \E j \in 1..(n + 1) : p[i] = s[j]
  <2>1. CASE i = m
    BY <1>2, <2>1
  <2>2. CASE i # m
    <3>1. i \in 1..Len(q) /\ p[i] = q[i]
      BY <1>2, <1>4, <2>2
    <3>2. PICK j \in 1..n : q[i] = s[j]
      BY <3>1 DEF Picked
    <3>3. j \in 1..(n + 1)
      OBVIOUS
    <3>4. QED
      BY <3>1, <3>2, <3>3
  <2>3. QED
    BY <2>1, <2>2
<1>5. ASSUME Descending(s)
      PROVE  Descending(p)
  <2>1. SUFFICES ASSUME NEW i \in 1..m, NEW j \in 1..m, i < j
                 PROVE  p[i].at > p[j].at
    BY <1>2 DEF Descending
  <2>2. CASE j # m
    <3>1. i \in 1..Len(q) /\ j \in 1..Len(q)
      BY <1>2, <2>1, <2>2
    <3>2. QED
      BY <1>2, <1>5, <2>1, <3>1 DEF Picked, Descending
  <2>3. CASE j = m
    <3>1. i \in 1..Len(q) /\ p[i] = q[i] /\ p[j] = a
      BY <1>2, <2>1, <2>3
    <3>2. PICK k \in 1..n : q[i] = s[k]
      BY <3>1 DEF Picked
    <3>3. k \in 1..Len(s) /\ k < n + 1
      BY <1>1
    <3>4. QED
      BY <1>1, <1>5, <3>1, <3>2, <3>3 DEF Descending
  <2>4. QED
    BY <2>2, <2>3
<1>6. QED
  BY <1>2, <1>3, <1>4, <1>5 DEF Picked, p

\* What is left after a recovery is picked from the list.
LEMMA RemainingPicked ==
  ASSUME NEW c, NEW s \in Seq(Alerts)
  PROVE  Remaining(c, s) \in Seq(Alerts) /\ Picked(Remaining(c, s), s, Len(s))
<1> DEFINE n == Len(s)
           next == [p \in (1..n) \X Seq(Alerts) |->
                      IF Cleared(c, s[p[1]]) THEN p[2] ELSE Append(p[2], s[p[1]])]
           Body(x) == [i \in 0..n |-> IF i = 0 THEN <<>>
                                      ELSE IF Cleared(c, s[i]) THEN x[i - 1]
                                      ELSE Append(x[i - 1], s[i])]
           kept == CHOOSE x : x = Body(x)
<1>1. n \in Nat /\ \A i \in 1..n : s[i] \in Alerts
  OBVIOUS
<1>2. /\ next \in [(1..n) \X Seq(Alerts) -> Seq(Alerts)] /\ <<>> \in Seq(Alerts)
      /\ \A i \in 1..n, x \in Seq(Alerts) :
           next[<<i, x>>] = IF Cleared(c, s[i]) THEN x ELSE Append(x, s[i])
  BY <1>1
<1>3. Remaining(c, s) = kept[n]
  BY DEF Remaining
<1> HIDE DEF next, n
<1>4. PICK f \in [0..n -> Seq(Alerts)] : Iterates(f, n, <<>>, next)
  BY <1>1, <1>2, Recursion
<1>5. f = Body(f)
  <2>1. \A i \in 1..n : f[i] = IF Cleared(c, s[i]) THEN f[i - 1] ELSE Append(f[i - 1], s[i])
    <3>1. \A i \in 1..n : i - 1 \in 0..n
      BY <1>1
    <3>2. QED
      BY <1>2, <1>4, <3>1 DEF Iterates
  <2>2. f[0] = <<>> /\ \A i \in (0..n) : i # 0 => i \in 1..n
    BY <1>1, <1>4 DEF Iterates
  <2>3. QED
    BY <2>1, <2>2
<1>6. kept = Body(kept)
  <2> HIDE DEF Body
  <2>1. QED
    BY <1>5
<1> HIDE DEF kept
<1>7. /\ kept[0] = <<>>
      /\ \A i \in 1..n : kept[i] = IF Cleared(c, s[i]) THEN kept[i - 1]
                                   ELSE Append(kept[i - 1], s[i])
  <2>1. 0 \in 0..n /\ \A i \in 1..n : i \in 0..n /\ i # 0
    BY <1>1
  <2>2. QED
    BY <1>6, <2>1
<1> DEFINE Good == {d \in Nat : d <= n => kept[d] \in Seq(Alerts) /\ Picked(kept[d], s, d)}
<1>8. 0 \in Good
  <2>1. <<>> \in Seq(Alerts) /\ Picked(<<>>, s, 0)
    BY DEF Picked, Descending
  <2>2. QED
    BY <1>7, <2>1
<1>9. ASSUME NEW d \in Nat, d \in Good
      PROVE  d + 1 \in Good
  <2>1. ASSUME d + 1 <= n
        PROVE  kept[d + 1] \in Seq(Alerts) /\ Picked(kept[d + 1], s, d + 1)
    <3>1. kept[d] \in Seq(Alerts) /\ Picked(kept[d], s, d)
      BY <1>1, <1>9, <2>1
    <3>2. kept[d + 1] = IF Cleared(c, s[d + 1]) THEN kept[d] ELSE Append(kept[d], s[d + 1])
      <4>1. d + 1 \in 1..n /\ (d + 1) - 1 = d
        BY <1>1, <2>1
      <4>2. QED
        BY <1>7, <4>1
    <3>3. QED
      BY <2>1, <3>1, <3>2, PickedSame, PickedNext DEF n
  <2>2. QED
    BY <2>1
<1>10. n \in Good
  <2> HIDE DEF Good
  <2>1. QED
    BY <1>1, <1>8, <1>9, SetInduction
<1>11. QED
  BY <1>1, <1>3, <1>10 DEF n

\* A new alert at the head of a list.
LEMMA ListedOrdered ==
  ASSUME NEW a \in Alerts, NEW s \in Seq(Alerts), NEW now \in Nat, a.at = now + 1,
         Ordered(s, now), Len(s) <= AlertLimit
  PROVE  /\ Listed(a, s) \in Seq(Alerts) /\ Len(Listed(a, s)) <= AlertLimit
         /\ Ordered(Listed(a, s), now + 1)
<1> DEFINE l == <<a>> \o s
           m == IF Len(s) < AlertLimit THEN Len(s) + 1 ELSE AlertLimit
<1>1. /\ l \in Seq(Alerts) /\ Len(l) = Len(s) + 1 /\ Len(s) \in Nat /\ l[1] = a
      /\ \A i \in 2..(Len(s) + 1) : l[i] = s[i - 1]
  <2>1. <<a>> \in Seq(Alerts) /\ Len(<<a>>) = 1 /\ <<a>>[1] = a
    OBVIOUS
  <2>2. QED
    BY <2>1, ConcatProperties
<1>2. m \in 1..(Len(s) + 1) /\ m <= AlertLimit
  BY StateAssumption
<1> HIDE DEF l, m
<1>3. /\ SubSeq(l, 1, m) \in Seq(Alerts) /\ Len(SubSeq(l, 1, m)) = m
      /\ \A i \in 1..m : SubSeq(l, 1, m)[i] = l[i]
  BY <1>1, <1>2, SubSeqProperties
<1>4. Listed(a, s) = SubSeq(l, 1, m)
  BY DEF Listed, l, m
<1>5. \A i \in 1..m : i # 1 => l[i] = s[i - 1] /\ i - 1 \in 1..Len(s)
  BY <1>1, <1>2
<1>6. \A i \in 1..Len(s) : s[i].at \in Nat /\ s[i].at <= now
  <2>1. \A i \in 1..Len(s) : s[i] \in Alerts
    OBVIOUS
  <2>2. \A i \in 1..Len(s) : s[i].at \in Nat
    BY <2>1 DEF Alerts
  <2>3. QED
    BY <2>2 DEF Ordered
<1>7. ASSUME NEW i \in 1..m, NEW j \in 1..m, i < j
      PROVE  l[i].at > l[j].at
  <2>1. j # 1 /\ j - 1 \in 1..Len(s) /\ l[j] = s[j - 1]
    BY <1>5, <1>7
  <2>2. CASE i = 1
    BY <1>1, <1>6, <2>1, <2>2
  <2>3. CASE i # 1
    <3>1. i - 1 \in 1..Len(s) /\ l[i] = s[i - 1] /\ i - 1 < j - 1
      BY <1>2, <1>5, <1>7, <2>3
    <3>2. QED
      BY <2>1, <3>1 DEF Ordered, Descending
  <2>4. QED
    BY <2>2, <2>3
<1>8. \A i \in 1..m : l[i].at <= now + 1
  <2>1. \A i \in 1..m : i # 1 => l[i].at \in Nat /\ l[i].at <= now
    BY <1>5, <1>6
  <2>2. QED
    BY <1>1, <2>1
<1>9. QED
  BY <1>2, <1>3, <1>4, <1>7, <1>8 DEF Ordered, Descending

-----------------------------------------------------------------------------
\* The threads, what they have still to do, and the robot

Places ==
  {"new", "mark", "idle", "load", "copy", "store", "tell", "merge", "done", "silent"}

\* A thread that is to change the row has a change to make.
HasWork ==
  /\ \A t \in Threads : pc[t] \in {"load", "copy", "store"} => todo[t] # <<>>
  /\ \A h \in Handlers :
       (pc[h] = "mark" /\ req[h].op = "recover") \/ pc[h] = "idle" => todo[h] # <<>>

ThreadInv ==
  /\ robot \in RobotStates /\ device \in RobotStates /\ merged \in RobotStates
  /\ tasked \in BOOLEAN /\ torn \in BOOLEAN /\ clock \in Nat /\ own \in 0..MaxOwn
  /\ pc \in [Threads -> Places] /\ known \in [Handlers -> BOOLEAN]
  /\ todo \in [Threads -> Seq(Changes)]
  /\ HasWork

LEMMA StateTypes ==
  ASSUME NEW r \in Reports, NEW s \in RobotStates
  PROVE  StateAfter(r.event, s) \in RobotStates
BY DEF Reports, OwnEvents, StateAfter, RobotStates

LEMMA WorkTypes ==
  ASSUME NEW q \in AnyRequest, q.op # "snapshot"
  PROVE  Work(q) \in Seq(Changes) /\ (q.op = "recover" => Work(q) # <<>>)
<1>1. q.target \in {Robot, Path, None} /\ q.event \in Faults \cup {None}
  BY DEF AnyRequest
<1>2. CASE q.op = "inject"
  <2>1. q.event \in Faults
    BY <1>2 DEF AnyRequest
  <2>2. Observation(q.event, q.target) \in Changes
    BY <1>1, <2>1 DEF Observation, Changes
  <2>3. Work(q) \in {<<Observation(q.event, q.target)>>, <<>>}
    BY <1>2 DEF Work
  <2>4. \A c \in Changes : <<c>> \in Seq(Changes) /\ <<>> \in Seq(Changes)
    OBVIOUS
  <2>5. QED
    BY <1>2, <2>2, <2>3, <2>4
<1>3. CASE q.op = "recover"
  <2> DEFINE clear == [do |-> "clear", event |-> q.event, target |-> q.target, about |-> None]
             told == Observation("fault.recovered", q.target)
  <2>1. clear \in Changes /\ told \in Changes
    BY <1>1 DEF Observation, Changes
  <2>2. Work(q) = <<told>> \o <<clear>> \/ Work(q) = <<>> \o <<clear>>
    BY <1>3 DEF Work
  <2> HIDE DEF clear, told
  <2>3. /\ <<told>> \in Seq(Changes) /\ <<clear>> \in Seq(Changes) /\ <<>> \in Seq(Changes)
        /\ Len(<<told>>) = 1 /\ Len(<<clear>>) = 1 /\ Len(<<>>) = 0
    BY <2>1
  <2>4. /\ <<told>> \o <<clear>> \in Seq(Changes) /\ Len(<<told>> \o <<clear>>) = 1 + 1
        /\ <<>> \o <<clear>> \in Seq(Changes) /\ Len(<<>> \o <<clear>>) = 0 + 1
    BY <2>3, ConcatProperties
  <2>5. Work(q) \in Seq(Changes) /\ Len(Work(q)) # 0
    <3>1. 1 + 1 # 0 /\ 0 + 1 # 0
      OBVIOUS
    <3>2. CASE Work(q) = <<told>> \o <<clear>>
      BY <2>4, <3>1, <3>2, Zenon
    <3>3. CASE Work(q) = <<>> \o <<clear>>
      BY <2>4, <3>1, <3>3, Zenon
    <3>4. QED
      BY <2>2, <3>2, <3>3
  <2>6. QED
    BY <2>3, <2>5
<1>4. CASE q.op = "task"
  <2>1. [do |-> "task", event |-> None, target |-> None, about |-> None] \in Changes
    BY DEF Changes
  <2>2. QED
    BY <1>4, <2>1 DEF Work
<1>5. QED
  BY <1>2, <1>3, <1>4 DEF AnyRequest

LEMMA LongTail ==
  ASSUME NEW S, NEW w \in Seq(S), Len(w) > 1
  PROVE  Tail(w) # <<>>
<1>1. Len(w) \in Nat /\ w # <<>>
  OBVIOUS
<1>2. Len(Tail(w)) = Len(w) - 1
  BY <1>1, HeadTailProperties
<1>3. PICK n \in Nat : n = Len(w)
  BY <1>1
<1>4. n > 1 => n - 1 # 0
  OBVIOUS
<1>5. QED
  BY <1>2, <1>3, <1>4

LEMMA ThreadStart == Init => ThreadInv
<1> SUFFICES ASSUME Init
             PROVE  ThreadInv
  OBVIOUS
<1>1. Handlers \subseteq Threads /\ MaxOwn \in Nat
  BY StateAssumption DEF Threads
<1>2. /\ pc = [t \in Threads |-> "new"] /\ todo = [t \in Threads |-> <<>>]
      /\ known = [h \in Handlers |-> FALSE] /\ tasked \in BOOLEAN /\ torn = FALSE
      /\ robot = "Idle" /\ merged = "Idle" /\ device = "Idle" /\ own = 0 /\ clock = 0
  BY DEF Init
<1>3. HasWork
  BY <1>1, <1>2 DEF HasWork
<1>4. pc \in [Threads -> Places] /\ todo \in [Threads -> Seq(Changes)]
  BY <1>2 DEF Places
<1>5. /\ robot \in RobotStates /\ device \in RobotStates /\ merged \in RobotStates
      /\ clock \in Nat /\ own \in 0..MaxOwn
  BY <1>1, <1>2 DEF RobotStates
<1>6. tasked \in BOOLEAN /\ torn \in BOOLEAN /\ known \in [Handlers -> BOOLEAN]
  BY <1>2
<1>7. QED
  BY <1>3, <1>4, <1>5, <1>6 DEF ThreadInv

LEMMA ThreadStep == Typed /\ ThreadInv /\ [Next]_vars => ThreadInv'
<1> SUFFICES ASSUME Typed, ThreadInv, [Next]_vars
             PROVE  ThreadInv'
  OBVIOUS
<1> USE DEF ThreadInv, HasWork
<1>1. Mqtt \notin Handlers /\ Handlers \subseteq Threads /\ Mqtt \in Threads
  BY StateAssumption DEF Threads
<1>2. ASSUME NEW t \in Threads, Transact(t)
      PROVE  ThreadInv'
  <2>1. CASE LoadRow(t)
    BY <2>1, <1>1 DEF LoadRow, Places, request, robotSide
  <2>2. CASE CopyRobots(t)
    BY <2>2, <1>1 DEF CopyRobots, Places, request, robotSide
  <2>3. CASE StoreRow(t)
    <3>1. todo[t] \in Seq(Changes) /\ todo[t] # <<>> /\ Tail(todo[t]) \in Seq(Changes)
      BY <2>3 DEF StoreRow
    <3>2. todo'[t] = Tail(todo[t]) /\ todo' \in [Threads -> Seq(Changes)]
      BY <2>3, <3>1 DEF StoreRow
    <3>3. Len(todo[t]) > 1 => Tail(todo[t]) # <<>>
      BY <3>1, LongTail
    <3>4. Afterwards(t) \in {"new", "done", "tell", "silent"}
      BY DEF Afterwards
    <3>5. /\ pc' = [pc EXCEPT ![t] = pc'[t]]
          /\ pc'[t] \in Places /\ pc'[t] \notin {"copy", "store", "mark", "idle"}
          /\ pc'[t] = "load" => todo'[t] # <<>>
      BY <2>3, <3>2, <3>3, <3>4 DEF StoreRow, Places
    <3>6. UNCHANGED <<robot, device, merged, own, clock, req, known>>
      BY <2>3 DEF StoreRow, request, robotSide
    <3>7. torn' \in BOOLEAN /\ tasked' \in BOOLEAN
      BY <2>3 DEF StoreRow
    <3>8. \A p \in Threads \ {t} : pc'[p] = pc[p] /\ todo'[p] = todo[p]
      BY <2>3 DEF StoreRow
    <3>9. HasWork'
      <4>1. \A p \in Threads : pc'[p] \in {"load", "copy", "store"} => todo'[p] # <<>>
        BY <3>5, <3>8
      <4>2. \A h \in Handlers :
              (pc'[h] = "mark" /\ req'[h].op = "recover") \/ pc'[h] = "idle" => todo'[h] # <<>>
        BY <1>1, <3>5, <3>6, <3>8
      <4>3. QED
        BY <4>1, <4>2
    <3>10. QED
      BY <3>2, <3>5, <3>6, <3>7, <3>9
  <2>4. QED
    BY <1>2, <2>1, <2>2, <2>3 DEF Transact
<1>3. ASSUME NEW h \in Handlers, Serve(h)
      PROVE  ThreadInv'
  <2>1. CASE Begin(h)
    <3>1. PICK q \in Requests :
            /\ q.op # "snapshot"
            /\ req' = [req EXCEPT ![h] = q] /\ known' = [known EXCEPT ![h] = tasked]
            /\ todo' = [todo EXCEPT ![h] = Work(q)]
            /\ pc' = [pc EXCEPT ![h] = IF WritesRobot(q) THEN "mark"
                                       ELSE IF Work(q) = <<>> THEN "silent" ELSE "load"]
      BY <2>1 DEF Begin
    <3>2. q \in AnyRequest /\ Work(q) \in Seq(Changes) /\ (q.op = "recover" => Work(q) # <<>>)
      BY <3>1, StateAssumption, WorkTypes
    <3>3. req'[h] = q /\ \A g \in Handlers \ {h} : req'[g] = req[g]
      BY <3>1 DEF Typed
    <3>4. UNCHANGED <<robot, device, merged, own, clock, tasked, torn>>
      BY <2>1 DEF Begin, transaction, robotSide
    <3>5. HasWork'
      BY <1>1, <3>1, <3>2, <3>3
    <3>6. QED
      BY <1>1, <3>1, <3>2, <3>4, <3>5 DEF Places
  <2>2. CASE MarkOffline(h)
    BY <1>1, <2>2 DEF MarkOffline, Onward, Afterwards, Places, RobotStates, request, transaction, robotSide
  <2>3. CASE ProbeRobot(h)
    BY <1>1, <2>3 DEF ProbeRobot, Places, request, transaction, robotSide
  <2>4. CASE MarkIdle(h)
    BY <1>1, <2>4 DEF MarkIdle, Places, RobotStates, request, transaction, robotSide
  <2>5. CASE TakeSnapshot(h)
    BY <1>1, <2>5 DEF TakeSnapshot, Places, Typed, transaction, robotSide
  <2>6. CASE Broadcast(h)
    <3>1. device' \in RobotStates
      <4>1. req[h] \in AnyRequest
        BY <2>6 DEF Broadcast, Typed
      <4>2. CASE AnswerTo(req[h]) = {}
        BY <2>6, <4>2 DEF Broadcast
      <4>3. CASE AnswerTo(req[h]) # {}
        <5>1. PICK tag \in Tags, event \in AnswerTo(req[h]) : device' = StateAfter(event, device)
          BY <2>6, <4>3 DEF Broadcast
        <5>2. PICK r \in Reports : r.event = event
          BY <4>1, Answers
        <5>3. QED
          BY <5>1, <5>2, StateTypes
      <4>4. QED
        BY <4>2, <4>3
    <3>2. QED
      BY <1>1, <2>6, <3>1 DEF Broadcast, Places, request, transaction
  <2>7. CASE BroadcastFails(h)
    BY <1>1, <2>7 DEF BroadcastFails, Places, request, transaction, robotSide
  <2>8. QED
    BY <1>3, <2>1, <2>2, <2>3, <2>4, <2>5, <2>6, <2>7 DEF Serve
<1>4. CASE ReportUnasked
  <2>1. PICK event \in OwnEvents : device' = StateAfter(event, device)
    BY <1>4 DEF ReportUnasked
  <2>2. device' \in RobotStates
    BY <2>1 DEF OwnEvents, StateAfter, RobotStates
  <2>3. own' \in 0..MaxOwn
    BY <1>4, StateAssumption DEF ReportUnasked
  <2>4. QED
    BY <1>4, <2>2, <2>3 DEF ReportUnasked, request, transaction
<1>5. CASE ReceiveReport
  <2>1. Head(wire) \in Reports
    BY <1>5 DEF ReceiveReport, Typed
  <2>2. merged' \in RobotStates
    BY <1>5, <2>1, StateTypes DEF ReceiveReport
  <2>3. [do |-> "observe", event |-> Head(wire).event, target |-> Robot,
         about |-> Head(wire).about] \in Changes
    BY <2>1 DEF Reports, Changes, OwnEvents, Faults
  <2>4. todo' \in [Threads -> Seq(Changes)]
    <3>1. PICK c \in Changes : todo' = [todo EXCEPT ![Mqtt] = IF Head(wire).tagged THEN <<c>>
                                                                                ELSE <<>>]
      BY <1>5, <2>3 DEF ReceiveReport
    <3>2. <<c>> \in Seq(Changes) /\ <<>> \in Seq(Changes)
      OBVIOUS
    <3>3. QED
      BY <3>1, <3>2
  <2>5. QED
    BY <1>1, <1>5, <2>2, <2>4 DEF ReceiveReport, Places, request, transaction
<1>6. CASE MergeRobot
  BY <1>1, <1>6 DEF MergeRobot, Onward, Afterwards, Places, request, transaction, robotSide
<1>7. CASE UNCHANGED vars
  BY <1>7 DEF vars, request, transaction, robotSide
<1>8. QED
  BY <1>2, <1>3, <1>4, <1>5, <1>6, <1>7 DEF Next

-----------------------------------------------------------------------------
\* The rows

RowFits(r, now) == r \in Rows /\ Len(r.events) <= AlertLimit /\ Ordered(r.events, now)

ListInv ==
  /\ RowFits(row, clock) /\ snaps \subseteq Rows
  /\ read \in [Threads -> Rows] /\ new \in [Threads -> Rows]
  /\ \A t \in Threads : RowFits(new[t], clock)

LEMMA RowParts ==
  ASSUME NEW r
  PROVE  r \in Rows => /\ r.version \in Nat /\ r.events \in Seq(Alerts)
                       /\ r.alerts \in Seq(Alerts) /\ r.blocked \in SUBSET {Robot, Path}
                       /\ r.robots \in RobotStates
BY DEF Rows

\* Time passes.
LEMMA StaysOrdered ==
  ASSUME NEW r, NEW now \in Nat, RowFits(r, now)
  PROVE  RowFits(r, now + 1)
<1>1. r.events \in Seq(Alerts)
  BY RowParts DEF RowFits
<1>2. \A i \in 1..Len(r.events) : r.events[i] \in Alerts
  BY <1>1
<1>3. \A i \in 1..Len(r.events) : r.events[i].at \in Nat
  BY <1>2 DEF Alerts
<1>4. QED
  BY <1>3 DEF RowFits, Ordered

LEMMA FirstFits ==
  ASSUME NEW now \in Nat
  PROVE  RowFits(FirstRow, now)
<1>1. <<>> \in Seq(Alerts) /\ Len(<<>>) = 0
  OBVIOUS
<1>2. FirstRow.events = <<>> /\ FirstRow \in Rows
  BY <1>1 DEF FirstRow, Rows, RobotStates
<1>3. Ordered(<<>>, now)
  BY <1>1 DEF Ordered, Descending
<1>4. QED
  BY <1>1, <1>2, <1>3, StateAssumption DEF RowFits

\* A recovery takes alerts out, and keeps the order of the rest.
LEMMA RecoveredFits ==
  ASSUME NEW c \in Changes, NEW r, NEW now \in Nat, RowFits(r, now)
  PROVE  RowFits(Recovered(c, r), now)
<1> DEFINE s == r.events
           l == Remaining(c, s)
<1>1. r \in Rows /\ s \in Seq(Alerts) /\ Len(s) <= AlertLimit /\ Ordered(s, now)
  BY RowParts DEF RowFits
<1>2. l \in Seq(Alerts) /\ Picked(l, s, Len(s))
  BY <1>1, RemainingPicked
<1>3. /\ Recovered(c, r).events = l
      /\ Recovered(c, r) = [version |-> r.version + 1, events |-> l, alerts |-> l,
                            blocked |-> Unblocked(c, r.blocked), robots |-> r.robots]
  BY DEF Recovered
<1> HIDE DEF s, l
<1>4. Unblocked(c, r.blocked) \in SUBSET {Robot, Path}
  BY <1>1, RowParts DEF Unblocked
<1>5. Recovered(c, r) \in Rows
  <2>1. r.version + 1 \in Nat /\ r.robots \in RobotStates
    BY <1>1, RowParts
  <2>2. QED
    BY <1>2, <1>3, <1>4, <2>1 DEF Rows
<1>6. Len(l) <= AlertLimit
  <2>1. Len(l) \in Nat /\ Len(s) \in Nat /\ AlertLimit \in Nat /\ Len(l) <= Len(s)
    BY <1>1, <1>2, StateAssumption DEF Picked
  <2>2. QED
    BY <1>1, <2>1
<1>7. Ordered(l, now)
  BY <1>1, <1>2 DEF Picked, Ordered
<1>8. QED
  BY <1>3, <1>5, <1>6, <1>7 DEF RowFits

\* An alert raised.
Raises(c) == c.do = "observe" /\ IsAlert(c.event)

LEMMA RefreshedFits ==
  ASSUME NEW c \in Changes, NEW r, clock \in Nat, RowFits(r, clock)
  PROVE  RowFits(Refreshed(c, r), IF Raises(c) THEN clock + 1 ELSE clock)
<1> DEFINE alert == [event |-> c.event, target |-> c.target, at |-> clock + 1]
           list == IF Raises(c) THEN Listed(alert, r.events) ELSE r.events
           blocked == IF c.do = "observe" /\ c.event = "path.blocked" /\ c.about # None
                      THEN r.blocked \cup {c.about} ELSE r.blocked
<1>1. /\ r \in Rows /\ r.events \in Seq(Alerts) /\ Len(r.events) <= AlertLimit
      /\ Ordered(r.events, clock)
  BY RowParts DEF RowFits
<1>2. Raises(c) => alert \in Alerts
  BY DEF Raises, IsAlert, Alerts, Changes
<1>3. blocked \in SUBSET {Robot, Path}
  <2>1. c.about \in {Robot, Path, None} /\ r.blocked \in SUBSET {Robot, Path}
    BY <1>1, RowParts DEF Changes
  <2>2. QED
    BY <2>1
<1>4. /\ list \in Seq(Alerts) /\ Len(list) <= AlertLimit
      /\ Ordered(list, IF Raises(c) THEN clock + 1 ELSE clock)
  <2>1. CASE Raises(c)
    <3>1. alert.at = clock + 1
      OBVIOUS
    <3> HIDE DEF alert
    <3>2. QED
      BY <1>1, <1>2, <2>1, <3>1, ListedOrdered
  <2>2. CASE ~Raises(c)
    BY <1>1, <2>2
  <2>3. QED
    BY <2>1, <2>2
<1>5. Refreshed(c, r) = [version |-> r.version + 1, events |-> list,
                         alerts |-> IF Raises(c) THEN list ELSE r.alerts,
                         blocked |-> blocked, robots |-> r.robots]
  BY DEF Refreshed, Raises
<1> HIDE DEF list, blocked
<1>6. (IF Raises(c) THEN list ELSE r.alerts) \in Seq(Alerts)
  BY <1>1, <1>4, RowParts
<1>7. Refreshed(c, r) \in Rows /\ Refreshed(c, r).events = list
  <2>1. r.version + 1 \in Nat /\ r.robots \in RobotStates
    BY <1>1, RowParts
  <2>2. QED
    BY <1>3, <1>4, <1>5, <1>6, <2>1 DEF Rows
<1>8. QED
  BY <1>4, <1>7 DEF RowFits

LEMMA ListStart == Init => ListInv
BY FirstFits DEF Init, ListInv, RowFits

LEMMA ListStep == RowInv /\ ThreadInv /\ ListInv /\ [Next]_vars => ListInv'
<1> SUFFICES ASSUME RowInv, ThreadInv, ListInv, [Next]_vars
             PROVE  ListInv'
  OBVIOUS
<1>1. clock \in Nat /\ robot \in RobotStates /\ row \in Rows
  BY DEF ThreadInv, ListInv, RowFits
<1>2. CASE OtherStep
  BY <1>1, <1>2 DEF OtherStep, ListInv
<1>3. ASSUME NEW t \in Threads, LoadRow(t)
      PROVE  ListInv'
  <2> DEFINE c == Head(todo[t])
  <2>1. c \in Changes
    BY <1>3 DEF LoadRow, ThreadInv, HasWork
  <2>2. clock' = (IF Raises(c) THEN clock + 1 ELSE clock) /\ new' = [new EXCEPT ![t] = Changed(c, row)]
    BY <1>3 DEF LoadRow, Raises
  <2>3. RowFits(Changed(c, row), clock')
    <3>1. CASE c.do = "clear"
      <4>1. clock' = clock
        BY <2>2, <3>1 DEF Raises
      <4>2. QED
        BY <1>1, <2>1, <3>1, <4>1, RecoveredFits DEF Changed, ListInv
    <3>2. CASE c.do # "clear"
      BY <1>1, <2>1, <2>2, <3>2, RefreshedFits DEF Changed, ListInv
    <3>3. QED
      BY <3>1, <3>2
  <2> HIDE DEF c
  <2>4. \A r : RowFits(r, clock) => RowFits(r, clock')
    BY <1>1, <2>2, StaysOrdered
  <2>5. row' = row /\ snaps' = snaps /\ read' = [read EXCEPT ![t] = row]
    BY <1>3 DEF LoadRow
  <2>6. Changed(c, row) \in Rows
    BY <2>3 DEF RowFits
  <2>7. /\ new' \in [Threads -> Rows] /\ new'[t] = Changed(c, row)
        /\ \A p \in Threads \ {t} : new'[p] = new[p]
    BY <2>2, <2>6 DEF ListInv
  <2>8. read' \in [Threads -> Rows]
    BY <1>1, <2>5 DEF ListInv
  <2>9. \A p \in Threads : RowFits(new'[p], clock')
    BY <2>3, <2>4, <2>7 DEF ListInv
  <2>10. RowFits(row', clock')
    BY <2>4, <2>5 DEF ListInv
  <2>11. QED
    BY <2>5, <2>7, <2>8, <2>9, <2>10 DEF ListInv
<1>4. ASSUME NEW t \in Threads, CopyRobots(t)
      PROVE  ListInv'
  <2>1. new'[t] = [new[t] EXCEPT !.robots = robot] /\ \A p \in Threads \ {t} : new'[p] = new[p]
    BY <1>4 DEF CopyRobots, ListInv
  <2>2. new'[t] \in Rows /\ new'[t].events = new[t].events
    BY <1>1, <2>1 DEF ListInv, Rows
  <2>3. UNCHANGED <<row, read, snaps, clock>> /\ new' \in [Threads -> Rows]
    BY <1>4, <2>1, <2>2 DEF CopyRobots, ListInv
  <2>4. \A p \in Threads : RowFits(new'[p], clock)
    BY <2>1, <2>2 DEF ListInv, RowFits
  <2>5. QED
    BY <2>3, <2>4 DEF ListInv
<1>5. ASSUME NEW t \in Threads, StoreRow(t)
      PROVE  ListInv'
  <2>1. /\ row' = Overwrite(read[t], new[t]) /\ UNCHANGED <<snaps, clock>>
        /\ read' = [read EXCEPT ![t] = FirstRow] /\ new' = [new EXCEPT ![t] = FirstRow]
    BY <1>5 DEF StoreRow
  <2>2. RowFits(FirstRow, clock) /\ FirstRow \in Rows
    BY <1>1, FirstFits DEF RowFits
  <2>3. new[t] \in Rows /\ RowFits(new[t], clock) /\ RowFits(row, clock)
    BY DEF ListInv
  <2>4. row' \in Rows /\ row'.events \in {row.events, new[t].events}
    <3>1. new[t] \in Rows /\ row \in Rows
      BY <1>1, <2>3
    <3>2. QED
      BY <2>1, <3>1 DEF Overwrite, Rows
  <2>5. RowFits(row', clock)
    BY <2>3, <2>4 DEF RowFits
  <2>6. /\ read' \in [Threads -> Rows] /\ new' \in [Threads -> Rows]
        /\ \A p \in Threads : RowFits(new'[p], clock)
    BY <2>1, <2>2 DEF ListInv
  <2>7. QED
    BY <2>1, <2>5, <2>6 DEF ListInv
<1>6. QED
  BY <1>2, <1>3, <1>4, <1>5, StepKinds

\* What the threads, the reports and the rows are: the invariant behind the next two.
THEOREM StateInvariant == Spec => [](Typed /\ ThreadInv /\ ListInv)
<1>1. Init => Typed /\ ThreadInv /\ ListInv
  BY TypedStart, ThreadStart, ListStart
<1>2. RowInv /\ (Typed /\ ThreadInv /\ ListInv) /\ [Next]_vars => (Typed /\ ThreadInv /\ ListInv)'
  BY TypedStep, ThreadStep, ListStep
<1>3. QED
  BY <1>1, <1>2, RowInvariant, PTL DEF Spec

\* TypeOK: among it, no list of alerts grows over its limit.
THEOREM TypeCorrect == Spec => []TypeOK
<1>1. Typed /\ ThreadInv /\ ListInv => TypeOK
  BY DEF Typed, ThreadInv, ListInv, RowFits, Places, TypeOK
<1>2. QED
  BY <1>1, StateInvariant, PTL

\* The alerts of active_events_json stand in the reverse order in which they were made, none
\* twice, whichever transactions overwrite each other: cutting the list at its end
\* (_refresh_current_state) cuts the oldest.
THEOREM NewestAreFirst == Spec => []NewestFirst
<1>1. ListInv => NewestFirst
  BY DEF ListInv, RowFits, Ordered, Descending, NewestFirst
<1>2. QED
  BY <1>1, StateInvariant, PTL
=============================================================================
