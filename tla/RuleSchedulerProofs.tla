------------------------- MODULE RuleSchedulerProofs -------------------------
(***************************************************************************)
(* What holds of RuleScheduler for any number of requests and planners,    *)
(* any plans and any limit.                                                *)
(***************************************************************************)
EXTENDS RuleScheduler, TLAPS

-----------------------------------------------------------------------------
\* Types

LEMMA OfferedSteps ==
  ASSUME NEW p \in Plans
  PROVE  Offered[p] \in StepLists(p) /\ Steps(p) \subseteq Nat
<1>1. Offered[p] \in Seq(StepStatuses)
  BY ScheduleAssumption
<1> QED
  BY <1>1 DEF StepLists, Steps

LEMMA StepListsAreSteps == \A p \in Plans : StepLists(p) \subseteq SomeSteps
BY DEF SomeSteps

LEMMA TypeStart == Init => TypeOK
<1> SUFFICES ASSUME Init
             PROVE  TypeOK
  OBVIOUS
<1>1. /\ First \in Plans /\ \A p \in Plans : Offered[p] \in StepLists(p)
      /\ \A p \in Plans : Offered[p] \in SomeSteps
      /\ Offered = [p \in Plans |-> Offered[p]]
  BY OfferedSteps, StepListsAreSteps, ScheduleAssumption DEF Plans
<1>2. plan \in [Plans -> PlanRows]
  BY <1>1 DEF Init, PlanRows
<1> QED
  BY <1>1, <1>2 DEF Init, TypeOK, ActionRows

LEMMA MarkedSteps ==
  ASSUME NEW p \in Plans, NEW s \in StepLists(p), NEW k \in Steps(p)
  PROVE  /\ Marked(s, k) \in StepLists(p)
         /\ \A j \in Steps(p) : Marked(s, k)[j] = IF j = k THEN "Issued" ELSE s[j]
BY DEF Marked, StepLists, StepStatuses

\* What mark_action_issued does to plans, their versions and statuses apart.
LEMMA StoreEffect ==
  ASSUME TypeOK, NEW q \in Requests, StoreSteps(q)
  PROVE  /\ read[q].plan \in Plans /\ read[q].step \in Steps(read[q].plan)
         /\ plan' \in [Plans -> PlanRows] /\ rows' \in [Plans -> SomeSteps]
         /\ \A p \in Plans :
              /\ plan'[p].version = plan[p].version /\ plan'[p].status = plan[p].status
              /\ rows'[p] = IF p = read[q].plan THEN Marked(rows[p], read[q].step) ELSE rows[p]
              /\ plan'[p].steps \in {plan[p].steps, Marked(read[q].steps, read[q].step)}
              /\ p # read[q].plan => plan'[p].steps = plan[p].steps
              /\ p \notin torn' /\ p = read[q].plan =>
                   \/ plan'[p].steps = Marked(plan[p].steps, read[q].step)
                   \/ /\ Marked(read[q].steps, read[q].step) = read[q].steps
                      /\ plan'[p].steps = plan[p].steps
         /\ action' = [action EXCEPT ![q].status = "Issued"]
         /\ torn \subseteq torn' /\ torn' \subseteq torn \cup {read[q].plan}
<1> DEFINE p == read[q].plan
           k == read[q].step
           written == Marked(read[q].steps, k)
<1>1. p \in Plans /\ k \in Steps(p) /\ read[q].steps \in StepLists(p)
  BY DEF TypeOK, StoreSteps
<1>2. written \in StepLists(p) /\ written \in SomeSteps
  BY <1>1, MarkedSteps, StepListsAreSteps
<1>3. Marked(rows[p], k) \in SomeSteps /\ rows' = [rows EXCEPT ![p] = Marked(rows[p], k)]
  BY <1>1, MarkedSteps, StepListsAreSteps DEF TypeOK, StoreSteps
<1>4. rows' \in [Plans -> SomeSteps]
      /\ \A o \in Plans : rows'[o] = IF o = p THEN Marked(rows[o], k) ELSE rows[o]
  BY <1>1, <1>3 DEF TypeOK
<1>5. CASE written = read[q].steps
  BY <1>1, <1>4, <1>5 DEF StoreSteps, TypeOK
<1>6. CASE written # read[q].steps
  <2> HIDE DEF p, k, written
  <2>1. plan' = [plan EXCEPT ![p].steps = written]
        /\ torn' = IF plan[p].steps = read[q].steps THEN torn ELSE torn \cup {p}
    BY <1>6 DEF StoreSteps, p, k, written
  <2>2. plan \in [Plans -> PlanRows] /\ plan[p] \in PlanRows
    BY <1>1 DEF TypeOK
  <2>3. /\ plan' \in [Plans -> PlanRows]
        /\ plan'[p].version = plan[p].version /\ plan'[p].status = plan[p].status
        /\ plan'[p].steps = written
        /\ \A o \in Plans \ {p} : plan'[o] = plan[o]
    BY <2>1, <2>2, <1>1, <1>2 DEF PlanRows
  <2>4. plan[p].steps = read[q].steps => written = Marked(plan[p].steps, k)
    BY DEF written
  <2>5. torn \subseteq torn' /\ torn' \subseteq torn \cup {p}
        /\ (p \notin torn' => plan[p].steps = read[q].steps)
    BY <2>1
  <2>6. action' = [action EXCEPT ![q].status = "Issued"]
    BY DEF StoreSteps
  <2> QED
    BY <1>1, <1>4, <2>3, <2>4, <2>5, <2>6 DEF p, k, written
<1> QED
  BY <1>5, <1>6

\* What the insertion of an Action does.
LEMMA InsertEffect ==
  ASSUME TypeOK, NEW q \in Requests, NEW p \in Plans, NEW k \in Nat,
         InsertOwn(q, p, k) \/ InsertForeign(q, p, k)
  PROVE  /\ action' \in [Requests -> ActionRows] /\ made' \in Nat
         /\ action'[q].plan = p /\ action'[q].step = k /\ action'[q].status = "Pending"
         /\ \/ action'[q].number = 0 /\ made' = made
            \/ action'[q].number = made + 1 /\ made' = made + 1
         /\ at' = [at EXCEPT ![q] = "issuing"]
         /\ \A r \in Requests : r # q => action'[r] = action[r] /\ at'[r] = at[r]
<1>1. PICK n \in Nat :
        /\ action' = [action EXCEPT ![q] = [plan |-> p, step |-> k, number |-> n,
                                           status |-> "Pending"]]
        /\ \/ n = 0 /\ made' = made
           \/ n = made + 1 /\ made' = made + 1
        /\ at' = [at EXCEPT ![q] = "issuing"]
  BY DEF InsertOwn, InsertForeign, Insert, Goto, TypeOK
<1> QED
  BY <1>1 DEF TypeOK, ActionRows

LEMMA TypeStep == TypeOK /\ [Next]_vars => TypeOK'
<1> SUFFICES ASSUME TypeOK, [Next]_vars
             PROVE  TypeOK'
  OBVIOUS
<1> USE DEF Goto, planning, history
<1>1. ASSUME NEW w \in Planners, ReadVersions(w)
      PROVE  TypeOK'
  <2>1. known' = [known EXCEPT ![w] = Extant] /\ UNCHANGED <<active, plan>>
    BY <1>1 DEF ReadVersions
  <2>2. \A v \in Planners : \A p \in known'[v] \cup active'[v] : plan'[p].version # 0
    BY <2>1 DEF TypeOK, Extant
  <2> QED
    BY <1>1, <2>1, <2>2, ScheduleAssumption DEF ReadVersions, TypeOK, Extant, Requests
<1>2. ASSUME NEW w \in Planners, ReadActive(w)
      PROVE  TypeOK'
  <2>1. active' = [active EXCEPT ![w] = ActivePlans] /\ UNCHANGED <<known, plan>>
    BY <1>2 DEF ReadActive
  <2>2. \A v \in Planners : \A p \in known'[v] \cup active'[v] : plan'[p].version # 0
    BY <2>1 DEF TypeOK, ActivePlans
  <2> QED
    BY <1>2, <2>1, <2>2, ScheduleAssumption DEF ReadActive, TypeOK, ActivePlans, Requests
<1>3. ASSUME NEW w \in Planners, CreatePlan(w)
      PROVE  TypeOK'
  <2>1. PICK last \in known[w], status \in {"Active", "Ready"} :
          plan' = [p \in Plans |->
                   IF p = w THEN [version |-> plan[last].version + 1, status |-> status,
                                  steps |-> Offered[w]]
                            ELSE Beside(w, p, status)]
    BY <1>3 DEF CreatePlan
  <2>2. w \in Plans /\ last \in Plans
    BY DEF TypeOK, Plans
  <2>3. ASSUME NEW p \in Plans
        PROVE  /\ plan'[p] \in PlanRows /\ plan'[p].steps \in StepLists(p)
               /\ plan'[p].version = 0 <=> plan'[p].status = "Absent"
    <3>1. CASE p = w
      BY <2>1, <2>2, <3>1, OfferedSteps, StepListsAreSteps DEF TypeOK, PlanRows
    <3>2. CASE p # w
      <4>1. plan'[p] = Beside(w, p, status)
        BY <2>1, <3>2
      <4>2. CASE status = "Active" /\ p \in active[w]
        BY <4>1, <4>2 DEF TypeOK, PlanRows, Beside
      <4>3. CASE ~(status = "Active" /\ p \in active[w])
        BY <4>1, <4>3 DEF TypeOK, PlanRows, Beside
      <4> QED
        BY <4>2, <4>3
    <3> QED
      BY <3>1, <3>2
  <2>4. plan' \in [Plans -> PlanRows]
    BY <2>1, <2>3
  <2>5. \A p \in Plans : plan[p].version # 0 => plan'[p].version # 0
    <3>1. \A p \in Plans : plan[p].version \in Nat
      BY DEF TypeOK, PlanRows
    <3> QED
      BY <2>1, <2>2, <3>1 DEF Beside
  <2>6. \A v \in Planners : \A p \in known[v] \cup active[v] :
          p \in Plans /\ plan'[p].version # 0
    BY <2>5 DEF TypeOK
  <2> QED
    BY <1>3, <2>3, <2>4, <2>6, ScheduleAssumption DEF CreatePlan, TypeOK, Requests
<1>4. ASSUME NEW q \in Requests, ReadTask(q)
      PROVE  TypeOK'
  <2>1. /\ at' = [at EXCEPT ![q] = "over"]
        /\ UNCHANGED <<read, extant>>
        => TypeOK'
    BY <1>4 DEF ReadTask, TypeOK
  <2>2. ASSUME NEW p \in ActivePlan,
               read' = [read EXCEPT ![q] = [plan |-> p, steps |-> plan[p].steps, step |-> 0]],
               extant' = [extant EXCEPT ![q] = Extant],
               at' = [at EXCEPT ![q] = "listing"]
        PROVE  TypeOK'
    <3>1. p \in Plans /\ plan[p].steps \in StepLists(p) /\ plan[p].steps \in SomeSteps
      BY StepListsAreSteps DEF ActivePlan, ActivePlans, Extant, TypeOK
    <3>2. read' \in [Requests -> [plan : Plans, steps : SomeSteps, step : Nat]]
      BY <2>2, <3>1 DEF TypeOK
    <3>3. \A r \in Requests : read'[r].steps \in StepLists(read'[r].plan)
      BY <2>2, <3>1 DEF TypeOK
    <3>4. \A r \in Requests : r # q => read'[r] = read[r] /\ at'[r] = at[r]
      BY <2>2 DEF TypeOK
    <3> QED
      BY <1>4, <2>2, <3>2, <3>3, <3>4 DEF ReadTask, TypeOK, Extant
  <2> QED
    BY <1>4, <2>1, <2>2 DEF ReadTask
<1>5. ASSUME NEW q \in Requests, ChooseStep(q)
      PROVE  TypeOK'
  <2>1. CASE UNCHANGED read /\ at' = [at EXCEPT ![q] = "over"]
    BY <1>5, <2>1 DEF ChooseStep, TypeOK
  <2>2. ASSUME NEW k \in Untaken(read[q]), read' = [read EXCEPT ![q].step = k],
               at' = [at EXCEPT ![q] = "creating"]
        PROVE  TypeOK'
    <3>1. k \in Steps(read[q].plan) /\ k \in Nat
      BY OfferedSteps DEF Untaken, TypeOK
    <3>2. /\ read' \in [Requests -> [plan : Plans, steps : SomeSteps, step : Nat]]
          /\ read'[q].step = k
          /\ \A r \in Requests :
               /\ read'[r].plan = read[r].plan /\ read'[r].steps = read[r].steps
               /\ r # q => read'[r].step = read[r].step
      BY <2>2, <3>1 DEF TypeOK
    <3>3. UNCHANGED <<plan, rows, action, made, known, active, extant, torn>>
          /\ since' \in [Requests -> Nat]
      BY <1>5 DEF ChooseStep, TypeOK
    <3> QED
      BY <2>2, <3>1, <3>2, <3>3 DEF TypeOK
  <2> QED
    BY <1>5, <2>1, <2>2 DEF ChooseStep
<1>6. ASSUME NEW q \in Requests, CreateAction(q)
      PROVE  TypeOK'
  <2>1. CASE InsertOwn(q, read[q].plan, read[q].step)
    <3>1. read[q].plan \in Plans /\ read[q].step \in Nat
      BY DEF TypeOK
    <3>2. action' \in [Requests -> ActionRows] /\ made' \in Nat
      BY <2>1, <3>1, InsertEffect
    <3>3. at[q] = "creating" /\ at' = [at EXCEPT ![q] = "issuing"]
      BY <1>6, <2>1 DEF CreateAction, InsertOwn, Insert
    <3> QED
      BY <1>6, <3>2, <3>3 DEF CreateAction, TypeOK
  <2>2. CASE UNCHANGED <<made, action>> /\ at' = [at EXCEPT ![q] = "over"]
    BY <1>6, <2>2 DEF CreateAction, TypeOK
  <2> QED
    BY <1>6, <2>1, <2>2 DEF CreateAction
<1>7. ASSUME NEW q \in Requests, CreateDirect(q)
      PROVE  TypeOK'
  <2>1. PICK p \in Extant : \E k \in Steps(p) :
          /\ InsertOwn(q, p, k) \/ InsertForeign(q, p, k)
          /\ read' = [read EXCEPT ![q] = [plan |-> p, steps |-> plan[p].steps, step |-> k]]
    BY <1>7 DEF CreateDirect
  <2>2. PICK k \in Steps(p) :
          /\ InsertOwn(q, p, k) \/ InsertForeign(q, p, k)
          /\ read' = [read EXCEPT ![q] = [plan |-> p, steps |-> plan[p].steps, step |-> k]]
    BY <2>1
  <2>3. /\ p \in Plans /\ k \in Nat
        /\ plan[p].steps \in StepLists(p) /\ plan[p].steps \in SomeSteps
    BY OfferedSteps, StepListsAreSteps DEF Extant, TypeOK
  <2>4. /\ action' \in [Requests -> ActionRows] /\ made' \in Nat
        /\ at' = [at EXCEPT ![q] = "issuing"]
    BY <2>2, <2>3, InsertEffect
  <2>5. read' \in [Requests -> [plan : Plans, steps : SomeSteps, step : Nat]]
    BY <2>2, <2>3 DEF TypeOK
  <2>6. /\ read'[q].plan = p /\ read'[q].steps = plan[p].steps /\ read'[q].step = k
        /\ \A r \in Requests : r # q => read'[r] = read[r] /\ at'[r] = at[r]
    BY <2>2, <2>4 DEF TypeOK
  <2> QED
    BY <1>7, <2>2, <2>3, <2>4, <2>5, <2>6 DEF CreateDirect, TypeOK
<1>8. ASSUME NEW q \in Requests, IssueCommand(q)
      PROVE  TypeOK'
  BY <1>8 DEF IssueCommand, TypeOK
<1>9. ASSUME NEW q \in Requests, LoadSteps(q)
      PROVE  TypeOK'
  <2> DEFINE p == read[q].plan
  <2>1. p \in Plans /\ plan[p].steps \in StepLists(p) /\ plan[p].steps \in SomeSteps
    BY StepListsAreSteps DEF TypeOK
  <2>2. read' = [read EXCEPT ![q].steps = plan[p].steps] /\ at[q] = "marking"
    BY <1>9 DEF LoadSteps
  <2>3. /\ read' \in [Requests -> [plan : Plans, steps : SomeSteps, step : Nat]]
        /\ read'[q].steps = plan[p].steps
        /\ \A r \in Requests :
             /\ read'[r].plan = read[r].plan /\ read'[r].step = read[r].step
             /\ r # q => read'[r].steps = read[r].steps
    BY <2>1, <2>2 DEF TypeOK
  <2> QED
    BY <1>9, <2>1, <2>2, <2>3 DEF LoadSteps, TypeOK
<1>10. ASSUME NEW q \in Requests, StoreSteps(q)
       PROVE  TypeOK'
  <2>1. ASSUME NEW p \in Plans
        PROVE  plan'[p].steps \in StepLists(p) /\ rows'[p] \in StepLists(p)
    <3>1. CASE p # read[q].plan
      BY <1>10, <3>1, StoreEffect DEF TypeOK
    <3>2. CASE p = read[q].plan
      <4>1. /\ read[q].steps \in StepLists(p) /\ read[q].step \in Steps(p)
            /\ plan[p].steps \in StepLists(p) /\ rows[p] \in StepLists(p)
        BY <1>10, <3>2, StoreEffect DEF TypeOK
      <4>2. /\ Marked(read[q].steps, read[q].step) \in StepLists(p)
            /\ Marked(rows[p], read[q].step) \in StepLists(p)
        BY <4>1, MarkedSteps
      <4> QED
        BY <1>10, <3>2, <4>1, <4>2, StoreEffect
    <3> QED
      BY <3>1, <3>2
  <2>2. action' \in [Requests -> ActionRows]
    <3>1. action' = [action EXCEPT ![q].status = "Issued"]
      BY <1>10 DEF StoreSteps
    <3>2. action \in [Requests -> ActionRows]
      BY DEF TypeOK
    <3> QED
      BY <3>1, <3>2 DEF ActionRows
  <2>3. \A p \in Plans : plan'[p].version = 0 <=> plan'[p].status = "Absent"
    BY <1>10, StoreEffect DEF TypeOK
  <2>4. /\ plan' \in [Plans -> PlanRows] /\ rows' \in [Plans -> SomeSteps]
        /\ torn' \subseteq Plans
    BY <1>10, StoreEffect DEF TypeOK
  <2>5. /\ UNCHANGED <<made, read, known, active, since, extant>>
        /\ at' = [at EXCEPT ![q] = "over"]
    BY <1>10 DEF StoreSteps
  <2>6. \A v \in Planners : \A p \in known[v] \cup active[v] :
          p \in Plans /\ plan'[p].version # 0
    BY <1>10, StoreEffect DEF TypeOK
  <2> QED
    BY <2>1, <2>2, <2>3, <2>4, <2>5, <2>6 DEF TypeOK
<1>11. ASSUME NEW x \in Requests \cup Planners, Crash(x)
       PROVE  TypeOK'
  BY <1>11 DEF Crash, TypeOK
<1>12. CASE UNCHANGED vars
  BY <1>12 DEF vars, TypeOK, Extant
<1> QED
  BY <1>1, <1>2, <1>3, <1>4, <1>5, <1>6, <1>7, <1>8, <1>9, <1>10, <1>11, <1>12
     DEF Next, Plan, Serve

\* RuleScheduler keeps its types; a plan that has a version is there.
THEOREM TypeCorrect == Spec => []TypeOK
BY TypeStart, TypeStep, PTL DEF Spec

-----------------------------------------------------------------------------
\* Plans

\* A step in which no planner takes part, or one only crashes.
PlanFrame ==
  /\ \A p \in Plans : plan'[p].version = plan[p].version /\ plan'[p].status = plan[p].status
  /\ UNCHANGED planning
  /\ \A w \in Planners : at'[w] \in {at[w], "over"}

LEMMA PlanStepKinds ==
  ASSUME TypeOK, [Next]_vars
  PROVE  PlanFrame \/ \E w \in Planners : Plan(w)
<1> USE ScheduleAssumption DEF PlanFrame, Goto, planning, TypeOK, Requests
<1>1. ASSUME NEW q \in Requests, Serve(q)
      PROVE  PlanFrame
  <2>1. CASE ReadTask(q) \/ ChooseStep(q)
    BY <2>1 DEF ReadTask, ChooseStep
  <2>2. CASE CreateAction(q) \/ CreateDirect(q) \/ IssueCommand(q) \/ LoadSteps(q)
    BY <2>2 DEF CreateAction, CreateDirect, InsertOwn, InsertForeign, Insert, IssueCommand, LoadSteps
  <2>3. CASE StoreSteps(q)
    <3>1. UNCHANGED <<known, active>> /\ at' = [at EXCEPT ![q] = "over"]
      BY <2>3 DEF StoreSteps
    <3> QED
      BY <2>3, <3>1, StoreEffect
  <2> QED
    BY <1>1, <2>1, <2>2, <2>3 DEF Serve
<1>2. ASSUME NEW x \in Requests \cup Planners, Crash(x)
      PROVE  PlanFrame
  BY <1>2 DEF Crash
<1>3. CASE UNCHANGED vars
  BY <1>3 DEF vars
<1> QED
  BY <1>1, <1>2, <1>3 DEF Next

\* A planner that is about to commit will supersede every active plan it knows, and
\* what it has found active was active at once.
PlanInv ==
  /\ PlansSucceed
  /\ \A w \in Planners :
       /\ w \notin known[w]
       /\ plan[w].version # 0 => at[w] = "over"
       /\ at[w] = "creating" =>
            \A p \in known[w] : plan[p].status = "Active" => p \in active[w]
       /\ \A p \in active[w] : plan[p].status \in {"Active", "Superseded"}

LEMMA PlanStart == Init => PlanInv
<1> SUFFICES ASSUME Init
             PROVE  PlanInv
  OBVIOUS
<1>1. First \in Plans /\ \A w \in Planners : w \in Plans /\ w # First
  BY ScheduleAssumption DEF Plans
<1>2. plan[First].status = "Active" /\ \A w \in Planners : plan[w].status = "Absent"
  BY <1>1 DEF Init
<1>3. \A w \in Planners : known[w] = {} /\ active[w] = {} /\ plan[w].version = 0
  BY <1>1 DEF Init
<1>4. \A w \in Planners : at[w] = "idle"
  BY DEF Init
<1> QED
  BY <1>1, <1>2, <1>3, <1>4 DEF PlanInv, PlansSucceed, ActivePlans

\* What the commit of a plan does to the plans.
LEMMA CommitEffect ==
  ASSUME TypeOK, PlanInv, NEW w \in Planners, CreatePlan(w)
  PROVE  /\ w \in Plans /\ plan[w].version = 0
         /\ \E last \in known[w] :
              /\ \A p \in known[w] : plan[p].version <= plan[last].version
              /\ plan'[w].version = plan[last].version + 1
         /\ plan'[w].status \in {"Active", "Ready"}
         /\ \A p \in Plans \ {w} :
              /\ plan'[p].version = plan[p].version
              /\ plan'[p].status =
                   IF plan'[w].status = "Active" /\ p \in active[w] THEN "Superseded"
                                                                   ELSE plan[p].status
         /\ at[w] = "creating" /\ at' = [at EXCEPT ![w] = "over"]
         /\ UNCHANGED <<known, active>>
<1>1. PICK last \in known[w], status \in {"Active", "Ready"} :
        /\ \A p \in known[w] : plan[p].version <= plan[last].version
        /\ plan' = [p \in Plans |->
                    IF p = w THEN [version |-> plan[last].version + 1, status |-> status,
                                   steps |-> Offered[w]]
                             ELSE Beside(w, p, status)]
  BY DEF CreatePlan
<1>2. w \in Plans
  BY DEF Plans
<1>3. plan'[w].status = status /\ plan'[w].version = plan[last].version + 1
  BY <1>1, <1>2
<1>4. \A p \in Plans \ {w} : plan'[p] = Beside(w, p, status)
  BY <1>1
<1>5. at[w] = "creating" /\ at' = [at EXCEPT ![w] = "over"] /\ UNCHANGED <<known, active>>
  BY DEF CreatePlan, Goto, planning
<1>6. plan[w].version = 0
  BY <1>5 DEF PlanInv
<1> QED
  BY <1>1, <1>2, <1>3, <1>4, <1>5, <1>6 DEF Beside

LEMMA PlanStep == TypeOK /\ PlanInv /\ [Next]_vars => PlanInv'
<1> SUFFICES ASSUME TypeOK, PlanInv, [Next]_vars
             PROVE  PlanInv'
  OBVIOUS
<1>0. Planners \subseteq Plans /\ Planners \subseteq Requests \cup Planners
  BY DEF Plans
<1>1. CASE PlanFrame
  <2>1. ActivePlans' = ActivePlans /\ Extant' = Extant
        /\ \A w \in Planners : Activated(w)' <=> Activated(w)
    BY <1>0, <1>1 DEF PlanFrame, ActivePlans, Extant, Activated
  <2>2. UNCHANGED <<known, active>> /\ \A w \in Planners : at'[w] \in {at[w], "over"}
    BY <1>1 DEF PlanFrame, planning
  <2>3. \A w \in Planners : known[w] \subseteq Plans /\ active[w] \subseteq Plans
    BY DEF TypeOK
  <2>4. \A p \in Plans : plan'[p].version = plan[p].version /\ plan'[p].status = plan[p].status
    BY <1>1 DEF PlanFrame
  <2>5. PlansSucceed'
    BY <1>0, <2>1, <2>2, <2>3, <2>4 DEF PlanInv, PlansSucceed
  <2> QED
    BY <1>0, <2>2, <2>3, <2>4, <2>5 DEF PlanInv
<1>2. ASSUME NEW w \in Planners, ReadVersions(w)
      PROVE  PlanInv'
  <2>1. /\ known' = [known EXCEPT ![w] = Extant] /\ UNCHANGED <<plan, active>>
        /\ at' = [at EXCEPT ![w] = "listing"] /\ at[w] = "idle"
    BY <1>2 DEF ReadVersions, Goto
  <2>2. plan[w].version = 0
    BY <2>1 DEF PlanInv
  <2>3. w \notin Extant /\ known'[w] = Extant /\ \A v \in Planners \ {w} : known'[v] = known[v]
    BY <1>0, <2>1, <2>2 DEF Extant, TypeOK
  <2>4. at'[w] = "listing" /\ \A v \in Planners \ {w} : at'[v] = at[v]
    BY <1>0, <2>1 DEF TypeOK
  <2>5. PlansSucceed'
    BY <2>1, <2>3 DEF PlanInv, PlansSucceed, ActivePlans, Extant, Activated
  <2> QED
    BY <2>1, <2>2, <2>3, <2>4, <2>5 DEF PlanInv
<1>3. ASSUME NEW w \in Planners, ReadActive(w)
      PROVE  PlanInv'
  <2>1. /\ active' = [active EXCEPT ![w] = ActivePlans] /\ UNCHANGED <<plan, known>>
        /\ at' = [at EXCEPT ![w] = "creating"] /\ at[w] = "listing"
    BY <1>3 DEF ReadActive, Goto
  <2>2. plan[w].version = 0
    BY <2>1 DEF PlanInv
  <2>3. active'[w] = ActivePlans /\ \A v \in Planners \ {w} : active'[v] = active[v]
    BY <2>1 DEF TypeOK
  <2>4. at'[w] = "creating" /\ \A v \in Planners \ {w} : at'[v] = at[v]
    BY <1>0, <2>1 DEF TypeOK
  <2>5. PlansSucceed'
    BY <2>1 DEF PlanInv, PlansSucceed, ActivePlans, Extant, Activated
  <2>6. \A p \in known[w] : p \in Plans
    BY DEF TypeOK
  <2> QED
    BY <2>1, <2>2, <2>3, <2>4, <2>5, <2>6 DEF PlanInv, ActivePlans
<1>4. ASSUME NEW w \in Planners, CreatePlan(w)
      PROVE  PlanInv'
  <2>1. PICK last \in known[w] :
          /\ \A p \in known[w] : plan[p].version <= plan[last].version
          /\ plan'[w].version = plan[last].version + 1
    BY <1>4, CommitEffect
  <2>2. /\ w \in Plans /\ plan[w].version = 0 /\ plan'[w].status \in {"Active", "Ready"}
        /\ at[w] = "creating" /\ UNCHANGED <<known, active>>
    BY <1>4, CommitEffect
  <2>3. \A p \in Plans \ {w} :
          /\ plan'[p].version = plan[p].version
          /\ plan'[p].status =
               IF plan'[w].status = "Active" /\ p \in active[w] THEN "Superseded"
                                                               ELSE plan[p].status
    BY <1>4, CommitEffect
  <2>4. at'[w] = "over" /\ \A v \in Planners \ {w} : at'[v] = at[v]
    BY <1>0, <1>4, CommitEffect DEF TypeOK
  <2>5. \A p \in Plans : plan[p].version \in Nat
    BY DEF TypeOK, PlanRows
  <2>6. \A v \in Planners : \A p \in known[v] \cup active[v] : p \in Plans \ {w}
    BY <2>2 DEF TypeOK
  <2>7. ActivePlans' # {}
    BY <2>2, <2>3 DEF PlanInv, PlansSucceed, ActivePlans, TypeOK
  <2>8. ASSUME NEW v \in Planners, plan'[v].status # "Absent", NEW p \in known[v]
        PROVE  /\ plan'[p].version < plan'[v].version
               /\ Activated(v)' => plan'[p].status # "Active"
    <3>1. CASE v = w
      <4>1. plan'[p].version < plan'[v].version
        BY <2>1, <2>3, <2>5, <2>6, <3>1
      <4>2. plan[p].status = "Active" => p \in active[w]
        BY <2>2, <3>1 DEF PlanInv
      <4> QED
        BY <2>2, <2>3, <2>6, <3>1, <4>1, <4>2 DEF Activated
    <3>2. CASE v # w
      <4>1. v \in Plans \ {w} /\ plan'[v].version = plan[v].version
        BY <1>0, <2>3, <3>2
      <4>2. Activated(v)' => Activated(v)
        BY <2>3, <4>1 DEF Activated, PlanInv
      <4>3. plan[v].status # "Absent"
        BY <2>3, <2>8, <4>1 DEF TypeOK, PlanInv
      <4>4. /\ plan[p].version < plan[v].version
            /\ Activated(v) => plan[p].status # "Active"
        BY <4>1, <4>3 DEF PlanInv, PlansSucceed, Extant
      <4> QED
        BY <2>3, <2>6, <4>1, <4>2, <4>4
    <3> QED
      BY <3>1, <3>2
  <2>9. PlansSucceed'
    BY <2>2, <2>7, <2>8 DEF PlansSucceed, Extant
  <2>10. \A v \in Planners : plan'[v].version # 0 => at'[v] = "over"
    BY <1>0, <2>3, <2>4 DEF PlanInv
  <2>11. \A v \in Planners : at'[v] = "creating" =>
           \A p \in known[v] : plan'[p].status = "Active" => p \in active[v]
    BY <2>3, <2>4, <2>6 DEF PlanInv
  <2>12. \A v \in Planners : \A p \in active[v] : plan'[p].status \in {"Active", "Superseded"}
    BY <2>3, <2>6 DEF PlanInv
  <2> QED
    BY <2>2, <2>9, <2>10, <2>11, <2>12 DEF PlanInv
<1> QED
  BY <1>1, <1>2, <1>3, <1>4, PlanStepKinds DEF Plan

\* Some plan of a task is always active; a plan is newer than those its planner found and
\* none of those stays active beside it, or in its place.
THEOREM PlansCorrect == Spec => []PlansSucceed
<1>1. Init => TypeOK /\ PlanInv
  BY TypeStart, PlanStart
<1>2. TypeOK /\ PlanInv /\ [Next]_vars => (TypeOK /\ PlanInv)'
  BY TypeStep, PlanStep
<1>3. PlanInv => PlansSucceed
  BY DEF PlanInv
<1> QED
  BY <1>1, <1>2, <1>3, PTL DEF Spec

-----------------------------------------------------------------------------
\* Requests and the steps of plans

\* A step that changes nothing of requests, of Actions and of steps of plans that are
\* there: a planner's, or one that only ends.
Quiet ==
  /\ UNCHANGED <<rows, action, made, read, since, extant, torn>>
  /\ \A q \in Requests : at'[q] \in {at[q], "over"}
  /\ \A p \in Plans :
       /\ plan[p].version # 0 => plan'[p].version # 0 /\ plan'[p].steps = plan[p].steps
       /\ plan'[p].steps \in {plan[p].steps, Offered[p]}

\* A step of request q changes nothing of another request.
OthersKept(q) ==
  \A r \in Requests \ {q} :
    /\ action'[r] = action[r] /\ read'[r] = read[r] /\ at'[r] = at[r]
    /\ since'[r] = since[r] /\ extant'[r] = extant[r]

LEMMA RequestStepKinds ==
  ASSUME TypeOK, PlanInv, [Next]_vars
  PROVE  Quiet \/ \E q \in Requests : Serve(q)
<1> USE ScheduleAssumption DEF Quiet, Goto, planning, history, Requests
<1>1. ASSUME NEW w \in Planners, ReadVersions(w) \/ ReadActive(w)
      PROVE  Quiet
  BY <1>1 DEF ReadVersions, ReadActive, TypeOK
<1>2. ASSUME NEW w \in Planners, CreatePlan(w)
      PROVE  Quiet
  <2>1. PICK last \in known[w], status \in {"Active", "Ready"} :
          plan' = [p \in Plans |->
                    IF p = w THEN [version |-> plan[last].version + 1, status |-> status,
                                   steps |-> Offered[w]]
                             ELSE Beside(w, p, status)]
    BY <1>2 DEF CreatePlan
  <2>2. plan[w].version = 0
    BY <1>2 DEF CreatePlan, PlanInv
  <2>3. \A p \in Plans \ {w} :
          plan'[p].version = plan[p].version /\ plan'[p].steps = plan[p].steps
    BY <2>1 DEF Beside
  <2>4. w \in Plans => plan'[w].steps = Offered[w]
    BY <2>1
  <2> QED
    BY <1>2, <2>2, <2>3, <2>4 DEF CreatePlan, TypeOK
<1>3. ASSUME NEW x \in Requests \cup Planners, Crash(x)
      PROVE  Quiet
  BY <1>3 DEF Crash, TypeOK
<1>4. CASE UNCHANGED vars
  BY <1>4 DEF vars
<1> QED
  BY <1>1, <1>2, <1>3, <1>4 DEF Next, Plan

LEMMA ServeOthers ==
  ASSUME TypeOK, NEW q \in Requests, Serve(q)
  PROVE  OthersKept(q)
<1> USE DEF OthersKept, Goto, history, TypeOK
<1>1. CASE ReadTask(q) \/ ChooseStep(q)
  BY <1>1 DEF ReadTask, ChooseStep
<1>2. CASE CreateAction(q) \/ CreateDirect(q)
  BY <1>2 DEF CreateAction, CreateDirect, InsertOwn, InsertForeign, Insert
<1>3. CASE IssueCommand(q) \/ LoadSteps(q)
  BY <1>3 DEF IssueCommand, LoadSteps
<1>4. CASE StoreSteps(q)
  BY <1>4 DEF StoreSteps
<1> QED
  BY <1>1, <1>2, <1>3, <1>4 DEF Serve

\* The Action of a request is for the step the request has chosen; it is there once the
\* request goes on to issue it.
RequestInv ==
  \A q \in Requests :
    /\ Made(q) => action[q].plan = read[q].plan /\ action[q].step = read[q].step
    /\ action[q].number # 0 => Made(q)
    /\ at[q] \in {"idle", "listing", "creating"} => ~Made(q)
    /\ at[q] \in {"issuing", "marking", "storing"} => Made(q)
    /\ action[q].number <= made /\ since[q] <= made
    /\ plan[read[q].plan].version # 0

LEMMA RequestStart == Init => RequestInv
<1> SUFFICES ASSUME Init
             PROVE  RequestInv
  OBVIOUS
<1>1. First \in Plans /\ plan[First].version = 1
  BY DEF Plans, Init
<1> QED
  BY <1>1 DEF Init, RequestInv, Made

\* What a step of a request does to its own Action, reading and place.
LEMMA ServeEffect ==
  ASSUME TypeOK, NEW q \in Requests, Serve(q)
  PROVE  /\ \A p \in Plans : plan'[p].version = plan[p].version
         /\ \/ /\ ReadTask(q) /\ action' = action /\ made' = made /\ UNCHANGED since
               /\ at[q] = "idle" /\ at'[q] \in {"listing", "over"}
               /\ read'[q] = read[q] \/ read'[q].plan \in ActivePlan
            \/ /\ ChooseStep(q) /\ action' = action /\ made' = made /\ since'[q] = made
               /\ at[q] = "listing" /\ at'[q] \in {"creating", "over"}
               /\ read'[q].plan = read[q].plan
            \/ /\ \/ action'[q].number = 0 /\ made' = made
                  \/ action'[q].number = made + 1 /\ made' = made + 1
               /\ action'[q].status = "Pending" /\ since' = since
               /\ action'[q].plan = read'[q].plan /\ action'[q].step = read'[q].step
               /\ at[q] \in {"idle", "creating"} /\ at'[q] = "issuing"
               /\ read'[q] = read[q] \/ plan[read'[q].plan].version # 0
            \/ /\ at[q] = "creating" /\ at'[q] = "over"
               /\ UNCHANGED <<action, made, read, since>>
            \/ /\ at[q] \in {"issuing", "marking", "storing"}
               /\ at'[q] \in {"marking", "storing", "over"}
               /\ made' = made /\ since' = since
               /\ action'[q].number = action[q].number
               /\ action'[q].status \in {action[q].status, "Issued"}
               /\ action'[q].plan = action[q].plan /\ action'[q].step = action[q].step
               /\ read'[q].plan = read[q].plan /\ read'[q].step = read[q].step
<1> USE DEF Goto, history, TypeOK
<1>1. CASE ReadTask(q)
  <2>1. /\ action' = action /\ made' = made /\ UNCHANGED <<since, plan>> /\ at[q] = "idle"
        /\ at'[q] \in {"listing", "over"}
    BY <1>1 DEF ReadTask
  <2>2. \/ read' = read
        \/ \E p \in ActivePlan :
             read' = [read EXCEPT ![q] = [plan |-> p, steps |-> plan[p].steps, step |-> 0]]
    BY <1>1 DEF ReadTask
  <2>3. read'[q] = read[q] \/ read'[q].plan \in ActivePlan
    BY <2>2
  <2> QED
    BY <1>1, <2>1, <2>3
<1>2. CASE ChooseStep(q)
  <2>1. read' = read \/ \E k \in Untaken(read[q]) : read' = [read EXCEPT ![q].step = k]
    BY <1>2 DEF ChooseStep
  <2>2. read'[q].plan = read[q].plan
    BY <2>1
  <2> QED
    BY <1>2, <2>2 DEF ChooseStep
<1>3. CASE CreateAction(q)
  <2>1. CASE InsertOwn(q, read[q].plan, read[q].step)
    <3>1. read[q].plan \in Plans /\ read[q].step \in Nat
      OBVIOUS
    <3>2. /\ action'[q].plan = read[q].plan /\ action'[q].step = read[q].step
          /\ action'[q].status = "Pending" /\ at'[q] = "issuing"
          /\ \/ action'[q].number = 0 /\ made' = made
             \/ action'[q].number = made + 1 /\ made' = made + 1
      BY <2>1, <3>1, InsertEffect
    <3>3. at[q] = "creating" /\ UNCHANGED <<plan, read, since>>
      BY <1>3 DEF CreateAction
    <3> QED
      BY <3>2, <3>3
  <2>2. CASE Goto(q, "over") /\ UNCHANGED <<made, action>>
    BY <1>3, <2>2 DEF CreateAction
  <2> QED
    BY <1>3, <2>1, <2>2 DEF CreateAction
<1>4. CASE CreateDirect(q)
  <2>1. PICK p \in Extant : \E k \in Steps(p) :
          /\ InsertOwn(q, p, k) \/ InsertForeign(q, p, k)
          /\ read' = [read EXCEPT ![q] = [plan |-> p, steps |-> plan[p].steps, step |-> k]]
    BY <1>4 DEF CreateDirect
  <2>2. PICK k \in Steps(p) :
          /\ InsertOwn(q, p, k) \/ InsertForeign(q, p, k)
          /\ read' = [read EXCEPT ![q] = [plan |-> p, steps |-> plan[p].steps, step |-> k]]
    BY <2>1
  <2>3. plan[p].version # 0 /\ p \in Plans /\ k \in Nat
    BY OfferedSteps DEF Extant
  <2>4. /\ action'[q].plan = p /\ action'[q].step = k
        /\ action'[q].status = "Pending" /\ at'[q] = "issuing"
        /\ \/ action'[q].number = 0 /\ made' = made
           \/ action'[q].number = made + 1 /\ made' = made + 1
    BY <2>2, <2>3, InsertEffect
  <2>5. read'[q].plan = p /\ read'[q].step = k
    BY <2>2
  <2>6. at[q] = "idle" /\ UNCHANGED <<plan, since>>
    BY <1>4 DEF CreateDirect
  <2> QED
    BY <2>3, <2>4, <2>5, <2>6
<1>5. CASE IssueCommand(q)
  BY <1>5 DEF IssueCommand
<1>6. CASE LoadSteps(q)
  <2>1. read' = [read EXCEPT ![q].steps = plan[read[q].plan].steps]
    BY <1>6 DEF LoadSteps
  <2>2. read'[q].plan = read[q].plan /\ read'[q].step = read[q].step
    BY <2>1
  <2> QED
    BY <1>6, <2>2 DEF LoadSteps
<1>7. CASE StoreSteps(q)
  <2>1. /\ at[q] = "storing" /\ at' = [at EXCEPT ![q] = "over"]
        /\ UNCHANGED <<made, read, since>>
    BY <1>7 DEF StoreSteps
  <2>2. action' = [action EXCEPT ![q].status = "Issued"]
    BY <1>7 DEF StoreSteps
  <2>3. /\ action'[q].number = action[q].number /\ action'[q].status = "Issued"
        /\ action'[q].plan = action[q].plan /\ action'[q].step = action[q].step
    BY <2>2 DEF ActionRows
  <2>4. \A p \in Plans : plan'[p].version = plan[p].version
    BY <1>7, StoreEffect
  <2> HIDE DEF TypeOK
  <2>5. at'[q] = "over"
    BY <2>1 DEF TypeOK
  <2> QED
    BY <2>1, <2>3, <2>4, <2>5
<1> QED
  BY <1>1, <1>2, <1>3, <1>4, <1>5, <1>6, <1>7 DEF Serve

LEMMA RequestStep == TypeOK /\ PlanInv /\ RequestInv /\ [Next]_vars => RequestInv'
<1> SUFFICES ASSUME TypeOK, PlanInv, RequestInv, [Next]_vars
             PROVE  RequestInv'
  OBVIOUS
<1>0. \A r \in Requests : read[r].plan \in Plans
  BY DEF TypeOK
<1>1. CASE Quiet
  BY <1>0, <1>1 DEF Quiet, RequestInv, Made
<1>2. ASSUME NEW q \in Requests, Serve(q)
      PROVE  RequestInv'
  <2>1. OthersKept(q)
    BY <1>2, ServeOthers
  <2>2. made \in Nat /\ \A r \in Requests : action[r].number \in Nat /\ since[r] \in Nat
    BY DEF TypeOK, ActionRows
  <2>3. \A p \in Plans : plan'[p].version = plan[p].version
    BY <1>2, ServeEffect
  <2>4. made' \in Nat /\ made <= made'
    BY <1>2, <2>2, ServeEffect
  <2>5. \A r \in Requests \ {q} :
          /\ (Made(r)' <=> Made(r)) /\ action'[r] = action[r]
          /\ action'[r].number <= made' /\ since'[r] <= made'
          /\ plan'[read'[r].plan].version # 0
    BY <1>0, <2>1, <2>2, <2>3, <2>4 DEF OthersKept, RequestInv, Made
  <2>6. \A p \in ActivePlan : p \in Plans /\ plan[p].version # 0
    BY DEF ActivePlan, ActivePlans, Extant, TypeOK
  <2>7. /\ Made(q)' => action'[q].plan = read'[q].plan /\ action'[q].step = read'[q].step
        /\ action'[q].number # 0 => Made(q)'
        /\ at'[q] \in {"idle", "listing", "creating"} => ~Made(q)'
        /\ at'[q] \in {"issuing", "marking", "storing"} => Made(q)'
        /\ action'[q].number <= made' /\ since'[q] <= made'
    BY <1>2, <2>2, ServeEffect DEF RequestInv, Made
  <2>8. read'[q].plan \in Plans
    BY TypeStep DEF TypeOK
  <2>9. plan'[read'[q].plan].version # 0
    BY <1>0, <1>2, <2>3, <2>6, <2>8, ServeEffect DEF RequestInv
  <2> QED
    BY <2>1, <2>5, <2>7, <2>9 DEF OthersKept, RequestInv
<1> QED
  BY <1>1, <1>2, RequestStepKinds

-----------------------------------------------------------------------------
\* A replaced plan is not scheduled

\* What a plan found in the database replaces, it does not stop replacing, and a request
\* keeps the plan it has read.
ReplacedInv ==
  \A q \in Schedules : \A w \in extant[q] \cap Planners :
    /\ plan[w].version # 0
    /\ Activated(w) => read[q].plan \notin known[w]

LEMMA ReplacedStart == Init => ReplacedInv
BY DEF Init, ReplacedInv, Requests

\* A plan that is there does not become one that was active at once, and keeps what its
\* planner has found.
LEMMA ActivationKept ==
  ASSUME TypeOK, PlanInv, [Next]_vars, NEW w \in Planners, plan[w].version # 0
  PROVE  /\ plan'[w].version # 0 /\ known'[w] = known[w]
         /\ Activated(w)' => Activated(w)
<1>0. w \in Plans
  BY DEF Plans
<1>1. CASE PlanFrame
  BY <1>0, <1>1 DEF PlanFrame, planning, Activated
<1>2. ASSUME NEW v \in Planners, ReadVersions(v) \/ ReadActive(v)
      PROVE  /\ plan'[w].version # 0 /\ known'[w] = known[w]
             /\ Activated(w)' => Activated(w)
  <2>1. v # w
    BY <1>2 DEF ReadVersions, ReadActive, PlanInv
  <2> QED
    BY <1>2, <2>1 DEF ReadVersions, ReadActive, TypeOK, Activated
<1>3. ASSUME NEW v \in Planners, CreatePlan(v)
      PROVE  /\ plan'[w].version # 0 /\ known'[w] = known[w]
             /\ Activated(w)' => Activated(w)
  <2>1. w # v /\ known' = known
    BY <1>3, CommitEffect
  <2>2. /\ plan'[w].version = plan[w].version
        /\ plan'[w].status = IF plan'[v].status = "Active" /\ w \in active[v]
                             THEN "Superseded" ELSE plan[w].status
    BY <1>0, <1>3, <2>1, CommitEffect
  <2> QED
    BY <2>1, <2>2 DEF Activated, PlanInv
<1> QED
  BY <1>1, <1>2, <1>3, PlanStepKinds DEF Plan

LEMMA ReplacedStep ==
  TypeOK /\ PlanInv /\ RequestInv /\ ReplacedInv /\ [Next]_vars => ReplacedInv'
<1> SUFFICES ASSUME TypeOK, PlanInv, RequestInv, ReplacedInv, [Next]_vars,
                    NEW q \in Schedules, NEW w \in extant'[q] \cap Planners
             PROVE  /\ plan'[w].version # 0
                    /\ Activated(w)' => read'[q].plan \notin known'[w]
  BY DEF ReplacedInv
<1>0. q \in Requests
  BY DEF Requests
<1>1. ASSUME extant'[q] = extant[q], read'[q].plan = read[q].plan
      PROVE  /\ plan'[w].version # 0
             /\ Activated(w)' => read'[q].plan \notin known'[w]
  <2>1. plan[w].version # 0 /\ (Activated(w) => read[q].plan \notin known[w])
    BY <1>1 DEF ReplacedInv
  <2> QED
    BY <1>1, <2>1, ActivationKept
<1>2. CASE Quiet
  BY <1>1, <1>2 DEF Quiet
<1>3. ASSUME NEW r \in Requests, Serve(r)
      PROVE  /\ plan'[w].version # 0
             /\ Activated(w)' => read'[q].plan \notin known'[w]
  <2>1. CASE r # q
    BY <1>0, <1>1, <1>3, <2>1, ServeOthers DEF OthersKept
  <2>2. CASE r = q /\ ~ReadTask(q)
    <3>1. ChooseStep(q) => at[q] = "listing" /\ extant' = extant
      BY DEF ChooseStep
    <3>2. CASE ChooseStep(q)
      <4>1. read'[q].plan = read[q].plan
        BY <1>0, <1>3, <2>2, <3>1, <3>2, ServeEffect
      <4> QED
        BY <1>1, <3>1, <3>2, <4>1
    <3>3. CASE CreateAction(q) \/ IssueCommand(q) \/ StoreSteps(q)
      BY <1>1, <3>3 DEF CreateAction, IssueCommand, StoreSteps, history
    <3>4. CASE LoadSteps(q)
      <4>1. read'[q].plan = read[q].plan
        BY <1>0, <3>4 DEF LoadSteps, TypeOK
      <4> QED
        BY <1>1, <3>4, <4>1 DEF LoadSteps, history
    <3>5. ~CreateDirect(q)
      BY ScheduleAssumption DEF CreateDirect
    <3> QED
      BY <1>3, <2>2, <3>2, <3>3, <3>4, <3>5 DEF Serve
  <2>3. CASE ReadTask(q)
    <3>1. CASE UNCHANGED <<read, extant>>
      BY <1>1, <3>1
    <3>2. ASSUME NEW p \in ActivePlan, extant' = [extant EXCEPT ![q] = Extant],
                 read' = [read EXCEPT ![q] = [plan |-> p, steps |-> plan[p].steps,
                                              step |-> 0]]
          PROVE  /\ plan'[w].version # 0
                 /\ Activated(w)' => read'[q].plan \notin known'[w]
      <4>1. read'[q].plan = p /\ w \in Extant
        BY <1>0, <3>2 DEF TypeOK
      <4>2. p \in Plans /\ plan[p].status = "Active"
        BY DEF ActivePlan, ActivePlans, PlanInv, PlansSucceed
      <4>3. plan[w].version # 0 /\ (Activated(w) => p \notin known[w])
        BY <4>1, <4>2 DEF PlanInv, PlansSucceed, Extant, TypeOK
      <4> QED
        BY <4>1, <4>3, ActivationKept
    <3> QED
      BY <2>3, <3>1, <3>2 DEF ReadTask
  <2> QED
    BY <1>3, <2>1, <2>2, <2>3
<1> QED
  BY <1>2, <1>3, RequestStepKinds

\* A request that has read a task after a plan was put in force schedules no plan that one
\* replaced.
THEOREM ReplacedCorrect == Spec => []ReplacedPlanUnused
<1>1. Init => TypeOK /\ PlanInv /\ RequestInv /\ ReplacedInv
  BY TypeStart, PlanStart, RequestStart, ReplacedStart
<1>2. TypeOK /\ PlanInv /\ RequestInv /\ ReplacedInv /\ [Next]_vars
        => (TypeOK /\ PlanInv /\ RequestInv /\ ReplacedInv)'
  BY TypeStep, PlanStep, RequestStep, ReplacedStep
<1>3. RequestInv /\ ReplacedInv => ReplacedPlanUnused
  BY DEF RequestInv, ReplacedInv, ReplacedPlanUnused, Requests
<1> QED
  BY <1>1, <1>2, <1>3, PTL DEF Spec

-----------------------------------------------------------------------------
\* The order of steps

\* A list of the steps of plan p differs from what was offered in issued steps only, and
\* is not ahead of the steps' own rows r.
Behind(s, p, r) ==
  \A k \in Steps(p) :
    /\ s[k] \in {Offered[p][k], "Issued"}
    /\ s[k] = "Issued" => r[k] = "Issued"

StepInv ==
  /\ \A p \in Plans : Behind(plan[p].steps, p, rows[p]) /\ Behind(rows[p], p, rows[p])
  /\ \A q \in Requests : Behind(read[q].steps, read[q].plan, rows[read[q].plan])
  /\ IssuedStepsHaveCommands

LEMMA StepStart == Init => StepInv
<1> SUFFICES ASSUME Init
             PROVE  StepInv
  OBVIOUS
<1>1. First \in Plans /\ \A p \in Plans : plan[p].steps = Offered[p] /\ rows[p] = Offered[p]
  BY DEF Init, Plans
<1>2. \A q \in Requests : read[q].plan = First /\ read[q].steps = Offered[First]
  BY DEF Init
<1> QED
  BY <1>1, <1>2 DEF StepInv, Behind, IssuedStepsHaveCommands

\* Rows only become issued, and Actions for steps stay.
LEMMA RowsGrow ==
  ASSUME TypeOK, PlanInv, RequestInv, [Next]_vars
  PROVE  /\ \A p \in Plans : \A k \in Steps(p) :
              /\ rows[p][k] = "Issued" => rows'[p][k] = "Issued"
              /\ rows'[p][k] \in {rows[p][k], "Issued"}
         /\ \A q \in Requests : \A p \in Plans : \A k \in Steps(p) :
              ForStep(q, p, k) => ForStep(q, p, k)'
         /\ \A q \in Requests : action[q].status = "Issued" /\ Made(q) =>
              action'[q].status = "Issued"
<1>1. CASE Quiet
  BY <1>1 DEF Quiet, ForStep, Made
<1>2. ASSUME NEW q \in Requests, Serve(q)
      PROVE  /\ \A p \in Plans : \A k \in Steps(p) :
                  /\ rows[p][k] = "Issued" => rows'[p][k] = "Issued"
                  /\ rows'[p][k] \in {rows[p][k], "Issued"}
             /\ \A r \in Requests : \A p \in Plans : \A k \in Steps(p) :
                  ForStep(r, p, k) => ForStep(r, p, k)'
             /\ \A r \in Requests : action[r].status = "Issued" /\ Made(r) =>
                  action'[r].status = "Issued"
  <2>1. \A r \in Requests \ {q} : action'[r] = action[r]
    BY <1>2, ServeOthers DEF OthersKept
  <2>2. \A p \in Plans : \A k \in Steps(p) : ForStep(q, p, k) => ForStep(q, p, k)'
    BY <1>2, ServeEffect DEF ForStep, Made, RequestInv
  <2>3. CASE StoreSteps(q)
    <3>1. /\ read[q].plan \in Plans /\ read[q].step \in Steps(read[q].plan)
          /\ \A p \in Plans : rows'[p] = IF p = read[q].plan THEN Marked(rows[p], read[q].step)
                                                            ELSE rows[p]
      BY <2>3, StoreEffect
    <3>2. rows[read[q].plan] \in StepLists(read[q].plan)
      BY <3>1 DEF TypeOK
    <3>3. \A p \in Plans : \A k \in Steps(p) :
            /\ rows[p][k] = "Issued" => rows'[p][k] = "Issued"
            /\ rows'[p][k] \in {rows[p][k], "Issued"}
      BY <3>1, <3>2, MarkedSteps
    <3>4. action'[q].status = "Issued"
      <4>1. action[q] \in ActionRows /\ action \in [Requests -> ActionRows]
        BY DEF TypeOK
      <4>2. action' = [action EXCEPT ![q].status = "Issued"]
        BY <2>3, StoreEffect
      <4> QED
        BY <4>1, <4>2 DEF ActionRows
    <3> QED
      BY <2>1, <2>2, <3>3, <3>4 DEF ForStep, Made
  <2>4. CASE ~StoreSteps(q)
    <3>1. rows' = rows
      BY <1>2, <2>4 DEF Serve, ReadTask, ChooseStep, CreateAction, CreateDirect, IssueCommand,
                        LoadSteps
    <3>2. Made(q) => action' = action
      BY <1>2, <2>4 DEF Serve, ReadTask, ChooseStep, CreateAction, CreateDirect, IssueCommand,
                        LoadSteps, RequestInv
    <3> QED
      BY <2>1, <2>2, <3>1, <3>2 DEF ForStep, Made
  <2> QED
    BY <2>3, <2>4
<1> QED
  BY <1>1, <1>2, RequestStepKinds

LEMMA BehindKept ==
  ASSUME TypeOK, PlanInv, RequestInv, [Next]_vars,
         NEW p \in Plans, NEW s, Behind(s, p, rows[p])
  PROVE  Behind(s, p, rows'[p])
BY RowsGrow DEF Behind

\* A list of steps marked from one that is not ahead of the rows is not ahead of them when
\* the row is marked as well.
LEMMA MarkedBehind ==
  ASSUME NEW p \in Plans, NEW s \in StepLists(p), NEW k \in Steps(p), Behind(s, p, rows[p]),
         rows[p] \in StepLists(p), rows'[p] = Marked(rows[p], k)
  PROVE  Behind(Marked(s, k), p, rows'[p])
BY MarkedSteps DEF Behind

LEMMA StepStep == TypeOK /\ PlanInv /\ RequestInv /\ StepInv /\ [Next]_vars => StepInv'
<1> SUFFICES ASSUME TypeOK, PlanInv, RequestInv, StepInv, [Next]_vars
             PROVE  StepInv'
  OBVIOUS
<1>0. /\ \A p \in Plans : plan[p].steps \in StepLists(p) /\ rows[p] \in StepLists(p)
      /\ \A q \in Requests : read[q].plan \in Plans /\ read[q].steps \in StepLists(read[q].plan)
      /\ \A p \in Plans : Behind(plan[p].steps, p, rows[p]) /\ Behind(rows[p], p, rows[p])
      /\ \A q \in Requests : Behind(read[q].steps, read[q].plan, rows[read[q].plan])
  BY DEF TypeOK, StepInv
<1>1. \A p \in Plans : \A s : Behind(s, p, rows[p]) => Behind(s, p, rows'[p])
  BY BehindKept
<1>2. \A p \in Plans : Behind(Offered[p], p, rows[p])
  BY <1>0, OfferedSteps DEF Behind
<1>3. \A p \in Plans : Behind(rows'[p], p, rows'[p])
  BY <1>0, RowsGrow DEF Behind
<1>4. \A p \in Plans : Behind(plan'[p].steps, p, rows'[p])
  <2>1. CASE Quiet
    BY <1>0, <1>1, <1>2, <2>1 DEF Quiet
  <2>2. ASSUME NEW q \in Requests, StoreSteps(q), NEW p \in Plans
        PROVE  Behind(plan'[p].steps, p, rows'[p])
    <3>1. CASE p # read[q].plan
      BY <1>0, <1>1, <2>2, <3>1, StoreEffect
    <3>2. CASE p = read[q].plan
      <4>1. Behind(Marked(read[q].steps, read[q].step), p, rows'[p])
        BY <1>0, <2>2, <3>2, StoreEffect, MarkedBehind
      <4>2. Behind(plan'[p].steps, p, rows'[p])
        BY <1>0, <1>1, <2>2, <3>2, <4>1, StoreEffect
      <4> QED
        BY <4>2
    <3> QED
      BY <3>1, <3>2
  <2>3. ASSUME NEW q \in Requests, Serve(q), ~StoreSteps(q)
        PROVE  plan' = plan
    BY <2>3 DEF Serve, ReadTask, ChooseStep, CreateAction, CreateDirect, IssueCommand, LoadSteps
  <2> QED
    BY <1>0, <1>1, <2>1, <2>2, <2>3, RequestStepKinds
<1>5. \A q \in Requests : Behind(read'[q].steps, read'[q].plan, rows'[read'[q].plan])
  <2>1. CASE Quiet
    BY <1>0, <1>1, <2>1 DEF Quiet
  <2>2. ASSUME NEW q \in Requests, Serve(q)
        PROVE  \/ read'[q].plan = read[q].plan /\ read'[q].steps = read[q].steps
               \/ read'[q].plan \in Plans /\ read'[q].steps = plan[read'[q].plan].steps
    <3> USE DEF TypeOK
    <3>1. CASE ReadTask(q)
      BY <3>1 DEF ReadTask, ActivePlan, ActivePlans, Extant
    <3>2. CASE ChooseStep(q)
      <4>1. read' = read \/ \E k \in Untaken(read[q]) : read' = [read EXCEPT ![q].step = k]
        BY <3>2 DEF ChooseStep
      <4> QED
        BY <4>1
    <3>3. CASE CreateAction(q) \/ IssueCommand(q)
      BY <3>3 DEF CreateAction, IssueCommand
    <3>4. CASE CreateDirect(q)
      <4>1. PICK p \in Extant : \E k \in Steps(p) :
              read' = [read EXCEPT ![q] = [plan |-> p, steps |-> plan[p].steps, step |-> k]]
        BY <3>4 DEF CreateDirect
      <4> QED
        BY <4>1 DEF Extant
    <3>5. CASE LoadSteps(q)
      <4>1. read' = [read EXCEPT ![q].steps = plan[read[q].plan].steps]
        BY <3>5 DEF LoadSteps
      <4> QED
        BY <4>1
    <3>6. CASE StoreSteps(q)
      BY <3>6 DEF StoreSteps
    <3> QED
      BY <2>2, <3>1, <3>2, <3>3, <3>4, <3>5, <3>6 DEF Serve
  <2>3. ASSUME NEW q \in Requests, Serve(q), NEW r \in Requests
        PROVE  Behind(read'[r].steps, read'[r].plan, rows'[read'[r].plan])
    <3>1. CASE r # q
      BY <1>0, <1>1, <2>3, <3>1, ServeOthers DEF OthersKept
    <3>2. CASE r = q
      <4>1. \E p \in Plans : \E s : Behind(s, p, rows[p]) /\ read'[q].plan = p /\ read'[q].steps = s
        BY <1>0, <2>2, <2>3
      <4>2. PICK p \in Plans : \E s : Behind(s, p, rows[p]) /\ read'[q].plan = p /\ read'[q].steps = s
        BY <4>1
      <4>3. PICK s : Behind(s, p, rows[p]) /\ read'[q].plan = p /\ read'[q].steps = s
        BY <4>2
      <4>4. Behind(s, p, rows'[p])
        BY <1>1, <4>3
      <4> QED
        BY <3>2, <4>3, <4>4
    <3> QED
      BY <3>1, <3>2
  <2> QED
    BY <2>1, <2>3, RequestStepKinds
<1>6. ASSUME NEW p \in Plans, NEW k \in Steps(p), rows'[p][k] = "Issued",
             Offered[p][k] # "Issued"
      PROVE  \E q \in Requests : ForStep(q, p, k)' /\ action'[q].status = "Issued"
  <2>1. CASE rows[p][k] = "Issued"
    <3>1. PICK q \in Requests : ForStep(q, p, k) /\ action[q].status = "Issued"
      BY <1>6, <2>1 DEF StepInv, IssuedStepsHaveCommands
    <3> QED
      BY <3>1, RowsGrow DEF ForStep
  <2>2. CASE rows[p][k] # "Issued"
    <3>1. PICK q \in Requests : StoreSteps(q)
      <4>1. rows' # rows
        BY <1>6, <2>2
      <4> QED
        BY <4>1, RequestStepKinds DEF Quiet, Serve, ReadTask, ChooseStep, CreateAction,
                                      CreateDirect, IssueCommand, LoadSteps
    <3>2. p = read[q].plan /\ k = read[q].step
      BY <1>0, <1>6, <2>2, <3>1, StoreEffect, MarkedSteps
    <3>3. ForStep(q, p, k)
      BY <3>1, <3>2 DEF StoreSteps, RequestInv, ForStep
    <3>4. action'[q].status = "Issued"
      <4>1. action' = [action EXCEPT ![q].status = "Issued"] /\ action \in [Requests -> ActionRows]
        BY <3>1, StoreEffect DEF TypeOK
      <4> QED
        BY <4>1 DEF ActionRows
    <3> QED
      BY <3>3, <3>4, RowsGrow
  <2> QED
    BY <2>1, <2>2
<1>7. IssuedStepsHaveCommands'
  BY <1>4, <1>6 DEF IssuedStepsHaveCommands, Behind
<1> QED
  BY <1>3, <1>4, <1>5, <1>7 DEF StepInv

\* A step shown as Issued has an Action whose command was issued.
THEOREM IssuedCorrect == Spec => []IssuedStepsHaveCommands
<1>1. Init => TypeOK /\ PlanInv /\ RequestInv /\ StepInv
  BY TypeStart, PlanStart, RequestStart, StepStart
<1>2. TypeOK /\ PlanInv /\ RequestInv /\ StepInv /\ [Next]_vars
        => (TypeOK /\ PlanInv /\ RequestInv /\ StepInv)'
  BY TypeStep, PlanStep, RequestStep, StepStep
<1>3. StepInv => IssuedStepsHaveCommands
  BY DEF StepInv
<1> QED
  BY <1>1, <1>2, <1>3, PTL DEF Spec

-----------------------------------------------------------------------------
\* The choice of a step

Chosen(q) == at[q] = "creating" \/ Made(q)

\* When a request has chosen a step, the earlier ones have had their Actions, and Actions
\* for the step itself were made later or had been cut off its list.
ChoiceInv ==
  \A q \in Schedules : Chosen(q) =>
    /\ \A j \in Steps(read[q].plan) :
         j < read[q].step /\ Offered[read[q].plan][j] \in Open =>
           \E r \in Requests : ForStep(r, read[q].plan, j)
    /\ \A r \in Requests : ForStep(r, read[q].plan, read[q].step) =>
         \/ action[r].number = 0 \/ action[r].number > since[q]
         \/ action[r].number + Limit <= since[q]

LEMMA ChoiceStart == Init => ChoiceInv
BY DEF Init, ChoiceInv, Chosen, Made, Requests

\* A request keeps its choice.
LEMMA ChoiceKept ==
  ASSUME TypeOK, PlanInv, RequestInv, [Next]_vars, NEW q \in Schedules, Chosen(q)'
  PROVE  \/ /\ Chosen(q) /\ read'[q].plan = read[q].plan /\ read'[q].step = read[q].step
            /\ since'[q] = since[q]
         \/ ChooseStep(q) /\ at'[q] = "creating"
<1>0. q \in Requests
  BY DEF Requests
<1>1. CASE Quiet
  BY <1>0, <1>1 DEF Quiet, Chosen, Made
<1>2. ASSUME NEW r \in Requests, Serve(r), r # q
      PROVE  /\ Chosen(q) /\ read'[q].plan = read[q].plan /\ read'[q].step = read[q].step
             /\ since'[q] = since[q]
  BY <1>0, <1>2, ServeOthers DEF OthersKept, Chosen, Made
<1>3. CASE Serve(q)
  <2>1. ~CreateDirect(q)
    BY ScheduleAssumption DEF CreateDirect
  <2>2. CASE ReadTask(q)
    BY <1>0, <2>2 DEF ReadTask, Goto, Chosen, Made, RequestInv, TypeOK
  <2>3. CASE ChooseStep(q)
    <3>1. action' = action /\ at[q] = "listing"
      BY <2>3 DEF ChooseStep
    <3>2. ~Made(q)'
      BY <1>0, <3>1 DEF RequestInv, Made
    <3> QED
      BY <2>3, <3>2 DEF Chosen
  <2>4. CASE CreateAction(q) \/ IssueCommand(q)
    BY <1>0, <2>4 DEF CreateAction, IssueCommand, Chosen, Made, RequestInv, history
  <2>5. CASE LoadSteps(q)
    <3>1. /\ at[q] = "marking" /\ action' = action /\ since' = since
          /\ read' = [read EXCEPT ![q].steps = plan[read[q].plan].steps]
      BY <2>5 DEF LoadSteps, history
    <3>2. read'[q].plan = read[q].plan /\ read'[q].step = read[q].step
      BY <1>0, <3>1 DEF TypeOK
    <3> QED
      BY <1>0, <3>1, <3>2 DEF Chosen, RequestInv
  <2>6. CASE StoreSteps(q)
    BY <1>0, <2>6 DEF StoreSteps, Chosen, RequestInv
  <2> QED
    BY <1>3, <2>1, <2>2, <2>3, <2>4, <2>5, <2>6 DEF Serve
<1> QED
  BY <1>1, <1>2, <1>3, RequestStepKinds

\* An Action for a step was there, under its number, or it is new.
LEMMA NewActions ==
  ASSUME TypeOK, PlanInv, RequestInv, [Next]_vars, NEW r \in Requests, NEW p, NEW k,
         Made(r)', action'[r].plan = p, action'[r].step = k
  PROVE  \/ ForStep(r, p, k) /\ action'[r].number = action[r].number
         \/ action'[r].number \in {0, made + 1}
<1>1. CASE Quiet
  BY <1>1 DEF Quiet, ForStep, Made
<1>2. ASSUME NEW q \in Requests, Serve(q)
      PROVE  \/ ForStep(r, p, k) /\ action'[r].number = action[r].number
             \/ action'[r].number \in {0, made + 1}
  <2>1. CASE r # q
    BY <1>2, <2>1, ServeOthers DEF OthersKept, ForStep, Made
  <2>2. CASE r = q
    BY <1>2, <2>2, ServeEffect DEF ForStep, Made, RequestInv
  <2> QED
    BY <2>1, <2>2
<1> QED
  BY <1>1, <1>2, RequestStepKinds

\* A row of Actions is for step k of plan p.
RowFor(a, p, k) == a.status # "Absent" /\ a.plan = p /\ a.step = k

LEMMA ChoiceStep ==
  TypeOK /\ PlanInv /\ RequestInv /\ StepInv /\ ChoiceInv /\ [Next]_vars => ChoiceInv'
<1> SUFFICES ASSUME TypeOK, PlanInv, RequestInv, StepInv, ChoiceInv, [Next]_vars,
                    NEW q \in Schedules, Chosen(q)'
             PROVE  /\ \A j \in Steps(read'[q].plan) :
                         j < read'[q].step /\ Offered[read'[q].plan][j] \in Open =>
                           \E r \in Requests : RowFor(action'[r], read'[q].plan, j)
                    /\ \A r \in Requests :
                         RowFor(action'[r], read'[q].plan, read'[q].step) =>
                           \/ action'[r].number = 0
                           \/ action'[r].number > since'[q]
                           \/ action'[r].number + Limit <= since'[q]
  BY DEF ChoiceInv, ForStep, Made, RowFor
<1>0. /\ q \in Requests /\ made \in Nat /\ Limit \in Nat
      /\ read[q].plan \in Plans /\ since[q] \in Nat /\ since[q] <= made
  BY ScheduleAssumption DEF TypeOK, Requests, RequestInv
<1>1. CASE /\ Chosen(q) /\ read'[q].plan = read[q].plan /\ read'[q].step = read[q].step
           /\ since'[q] = since[q]
  <2>1. ASSUME NEW j \in Steps(read[q].plan), NEW r \in Requests,
               ForStep(r, read[q].plan, j)
        PROVE  RowFor(action'[r], read[q].plan, j)
    <3>1. \A p \in Plans : \A i \in Steps(p) :
            ForStep(r, p, i) => RowFor(action'[r], p, i)
      BY RowsGrow DEF ForStep, Made, RowFor
    <3> QED
      BY <1>0, <2>1, <3>1
  <2>2. ASSUME NEW r \in Requests, RowFor(action'[r], read[q].plan, read[q].step)
        PROVE  \/ action'[r].number = 0 \/ action'[r].number > since[q]
               \/ action'[r].number + Limit <= since[q]
    <3>1. \/ /\ ForStep(r, read[q].plan, read[q].step)
             /\ action'[r].number = action[r].number
          \/ action'[r].number \in {0, made + 1}
      BY <2>2, NewActions DEF RowFor, Made
    <3>2. CASE /\ ForStep(r, read[q].plan, read[q].step)
               /\ action'[r].number = action[r].number
      BY <1>1, <3>2 DEF ChoiceInv
    <3>3. CASE action'[r].number \in {0, made + 1}
      BY <1>0, <3>3
    <3> QED
      BY <3>1, <3>2, <3>3
  <2>3. \A j \in Steps(read[q].plan) :
          j < read[q].step /\ Offered[read[q].plan][j] \in Open =>
            \E r \in Requests : ForStep(r, read[q].plan, j)
    BY <1>1 DEF ChoiceInv
  <2> QED
    BY <1>1, <2>1, <2>2, <2>3
<1>2. CASE ChooseStep(q) /\ at'[q] = "creating"
  <2>1. /\ at[q] = "listing" /\ since' = [since EXCEPT ![q] = made]
        /\ UNCHANGED <<action, made>>
    BY <1>2 DEF ChooseStep
  <2>2. PICK k \in Untaken(read[q]) :
          /\ \A j \in Untaken(read[q]) : k <= j
          /\ read' = [read EXCEPT ![q].step = k]
    BY <1>0, <1>2 DEF ChooseStep, Goto, TypeOK
  <2>3. read'[q].plan = read[q].plan /\ read'[q].step = k /\ since'[q] = made
    BY <1>0, <2>1, <2>2 DEF TypeOK
  <2>4. k \in Steps(read[q].plan) /\ ~Taken(read[q].plan, k) /\ k \in Nat
    BY <1>0, OfferedSteps DEF Untaken
  <2>5. ASSUME NEW j \in Steps(read[q].plan), j < k, Offered[read[q].plan][j] \in Open
        PROVE  \E r \in Requests : ForStep(r, read[q].plan, j)
    <3>1. j \notin Untaken(read[q])
      BY <1>0, <2>2, <2>4, <2>5, OfferedSteps
    <3>2. CASE read[q].steps[j] = "Issued"
      <4>1. rows[read[q].plan][j] = "Issued" /\ Offered[read[q].plan][j] # "Issued"
        BY <1>0, <2>5, <3>2 DEF StepInv, Behind, Open
      <4> QED
        BY <1>0, <4>1 DEF StepInv, IssuedStepsHaveCommands
    <3>3. CASE Taken(read[q].plan, j)
      BY <3>3 DEF Taken, Listed, ForStep, RequestInv
    <3>4. read[q].steps[j] = Offered[read[q].plan][j] \/ read[q].steps[j] = "Issued"
      BY <1>0 DEF StepInv, Behind
    <3> QED
      BY <2>5, <3>1, <3>2, <3>3, <3>4 DEF Untaken
  <2>6. ASSUME NEW r \in Requests, RowFor(action[r], read[q].plan, k)
        PROVE  action[r].number = 0 \/ action[r].number + Limit <= made
    <3>1. action[r].number \in Nat
      BY DEF TypeOK, ActionRows
    <3>2. action[r].number = 0 \/ ~(action[r].number + Limit > made)
      BY <2>4, <2>6, <3>1 DEF Taken, Listed, RowFor
    <3> QED
      BY <1>0, <3>1, <3>2
  <2>7. \A r \in Requests : \A j \in Steps(read[q].plan) :
          ForStep(r, read[q].plan, j) => RowFor(action[r], read[q].plan, j)
    BY DEF ForStep, Made, RowFor
  <2> QED
    BY <2>1, <2>3, <2>5, <2>6, <2>7
<1> QED
  BY <1>1, <1>2, ChoiceKept

AllInv == TypeOK /\ PlanInv /\ RequestInv /\ StepInv /\ ChoiceInv

LEMMA AllStart == Init => AllInv
BY TypeStart, PlanStart, RequestStart, StepStart, ChoiceStart DEF AllInv

LEMMA AllStep == AllInv /\ [Next]_vars => AllInv'
BY TypeStep, PlanStep, RequestStep, StepStep, ChoiceStep DEF AllInv

\* Steps of a plan get their Actions in order, for any number of requests at once.
THEOREM OrderCorrect == Spec => []NoStepSkipped
<1>1. AllInv => NoStepSkipped
  BY DEF AllInv, ChoiceInv, RequestInv, Chosen, NoStepSkipped, Requests
<1> QED
  BY <1>1, AllStart, AllStep, PTL DEF Spec

\* A second Action for a step comes of overlapping requests, of the limit of the list, or
\* of an Action that named the step without its task.
THEOREM SecondCorrect == Spec => []SecondActionHasCause
<1>1. AllInv => SecondActionHasCause
  BY DEF AllInv, ChoiceInv, RequestInv, Chosen, SecondActionHasCause, Requests
<1> QED
  BY <1>1, AllStart, AllStep, PTL DEF Spec

-----------------------------------------------------------------------------
\* Two copies of the steps

AgreeInv ==
  /\ StepsAgree
  /\ \A p \in Plans : plan[p].version = 0 => plan[p].steps = Offered[p] /\ rows[p] = Offered[p]

LEMMA AgreeStart == Init => AgreeInv
<1> SUFFICES ASSUME Init
             PROVE  AgreeInv
  OBVIOUS
<1>1. \A p \in Plans : plan[p].steps = Offered[p] /\ rows[p] = Offered[p]
  BY DEF Init
<1> QED
  BY <1>1 DEF AgreeInv, StepsAgree

LEMMA AgreeStep == AllInv /\ AgreeInv /\ [Next]_vars => AgreeInv'
<1> SUFFICES ASSUME TypeOK, PlanInv, RequestInv, StepInv, AgreeInv, [Next]_vars
             PROVE  AgreeInv'
  BY DEF AllInv
<1>1. CASE Quiet
  BY <1>1 DEF Quiet, AgreeInv, StepsAgree
<1>2. ASSUME NEW q \in Requests, Serve(q), ~StoreSteps(q)
      PROVE  AgreeInv'
  <2>1. UNCHANGED <<plan, rows, torn>>
    BY <1>2 DEF Serve, ReadTask, ChooseStep, CreateAction, CreateDirect, IssueCommand, LoadSteps,
                history
  <2> QED
    BY <2>1 DEF AgreeInv, StepsAgree
<1>3. ASSUME NEW q \in Requests, StoreSteps(q), NEW p \in Plans
      PROVE  /\ p \notin torn' => plan'[p].steps = rows'[p]
             /\ plan'[p].version = 0 => plan'[p].steps = Offered[p] /\ rows'[p] = Offered[p]
  <2> DEFINE k == read[q].step
  <2>1. CASE p # read[q].plan
    BY <1>3, <2>1, StoreEffect DEF AgreeInv, StepsAgree
  <2>2. CASE p = read[q].plan
    <3>1. plan'[p].version # 0
      BY <1>3, <2>2, StoreEffect DEF RequestInv
    <3>2. ASSUME p \notin torn'
          PROVE  plan'[p].steps = rows'[p]
      <4>1. plan[p].steps = rows[p] /\ rows'[p] = Marked(rows[p], k)
        BY <1>3, <2>2, <3>2, StoreEffect DEF AgreeInv, StepsAgree
      <4>2. CASE plan'[p].steps = Marked(plan[p].steps, k)
        BY <4>1, <4>2
      <4>3. CASE Marked(read[q].steps, k) = read[q].steps /\ plan'[p].steps = plan[p].steps
        <5>1. /\ k \in Steps(p) /\ read[q].steps \in StepLists(p) /\ rows[p] \in StepLists(p)
              /\ Behind(read[q].steps, p, rows[p])
          BY <1>3, <2>2, StoreEffect DEF TypeOK, StepInv
        <5>2. read[q].steps[k] = "Issued"
          BY <4>3, <5>1, MarkedSteps
        <5>3. rows[p][k] = "Issued"
          BY <5>1, <5>2 DEF Behind
        <5>4. Marked(rows[p], k) = rows[p]
          BY <5>1, <5>3 DEF Marked, StepLists
        <5> QED
          BY <4>1, <4>3, <5>4
      <4> QED
        BY <1>3, <2>2, <3>2, <4>2, <4>3, StoreEffect
    <3> QED
      BY <3>1, <3>2
  <2> QED
    BY <2>1, <2>2
<1> QED
  BY <1>1, <1>2, <1>3, RequestStepKinds DEF AgreeInv, StepsAgree

\* The plan's list of steps and their rows agree while no commit overwrites what it has not
\* read.
THEOREM AgreeCorrect == Spec => []StepsAgree
<1>1. AgreeInv => StepsAgree
  BY DEF AgreeInv
<1> QED
  BY <1>1, AllStart, AllStep, AgreeStart, AgreeStep, PTL DEF Spec
=============================================================================
