---------------------------- MODULE RuleScheduler ----------------------------
(***************************************************************************)
(* How the steps of a task's plans become Actions: requests to the rule    *)
(* scheduler (src/backend/app/main.py, schedule_simulation_run), Actions   *)
(* created for a step directly, and replanning, all in handlers of their   *)
(* own that meet in the tables of plans, plan steps and Actions            *)
(* (database_store.py).                                                    *)
(*                                                                         *)
(* The database is PostgreSQL at READ COMMITTED: a transaction is an       *)
(* action here, or two when it reads a row first and writes it at its      *)
(* commit.  One task.  Schedulers of other tasks do not touch its plans,   *)
(* but POST /actions does: nothing ties the plan and the step that an      *)
(* Action names to the task it names, if it names one at all.              *)
(*                                                                         *)
(* Abstracted: which robot is picked, commands and their parameters, the   *)
(* messages that record commands and decisions, traces, and CurrentState   *)
(* (which see); what the robot reports changes no status of a plan step.   *)
(* Actions are numbered, and listed, in the order of their commits: their  *)
(* created_at is a moment earlier.  Actions that name no step of the       *)
(* task's plans are left out: they only take up room in the list.          *)
(***************************************************************************)
EXTENDS Naturals, Sequences

CONSTANTS
  Schedules,  \* requests POST /simulation-runs/{run}/schedule for the task
  Directs,    \* requests POST /actions that name a step of a plan
  Planners,   \* requests POST /tasks/{task}/plans or /replan; each names its plan
  First,      \* the plan the task was created with
  Offered,    \* Offered[p]: the statuses the steps of plan p come with
  Limit       \* Actions that list_actions returns (1000 in the code)

Requests == Schedules \cup Directs
Plans == Planners \cup {First}

\* A step may be offered with any status; the two of Open can be scheduled.
Open == {"Pending", "Ready"}
StepStatuses == Open \cup {"Issued", "Skipped"}

ASSUME ScheduleAssumption ==
  /\ Requests \cap Planners = {} /\ Schedules \cap Directs = {}
  /\ First \notin Planners
  /\ Offered \in [Plans -> Seq(StepStatuses)]
  /\ Limit \in Nat \ {0}

VARIABLES
  plan,    \* plan[p]: a row of simulation_plans, Absent before it is there
  rows,    \* rows[p][k]: the status of step k in simulation_plan_steps
  action,  \* action[q]: the row of the Action of request q, Absent like plans
  made,    \* Actions made for the task so far; numbers them
  at,      \* at[x]: the next step of a request or planner
  read,    \* read[q]: a plan as request q has read it, and the step it deals with
  known,   \* known[w]: the plans planner w has found in the database
  active,  \* active[w]: the active ones it has found after that
  since,   \* history: since[q]: Actions made when q listed them
  extant,  \* history: extant[q]: the plans there when q read the active one
  torn     \* history: plans whose steps were overwritten unread

vars == <<plan, rows, action, made, at, read, known, active, since, extant, torn>>
planning == <<known, active>>
history == <<since, extant, torn>>

Steps(p) == DOMAIN Offered[p]
StepLists(p) == [Steps(p) -> StepStatuses]

SomeSteps == UNION {StepLists(p) : p \in Plans}
PlanRows ==
  [version : Nat, status : {"Absent", "Ready", "Active", "Superseded"}, steps : SomeSteps]

\* An Action that is not made for the task has number 0.
ActionRows ==
  [plan : Plans, step : Nat, number : Nat, status : {"Absent", "Pending", "Issued"}]

TypeOK ==
  /\ plan \in [Plans -> PlanRows] /\ rows \in [Plans -> SomeSteps]
  /\ \A p \in Plans :
       /\ plan[p].steps \in StepLists(p) /\ rows[p] \in StepLists(p)
       /\ plan[p].version = 0 <=> plan[p].status = "Absent"
  /\ action \in [Requests -> ActionRows]
  /\ made \in Nat
  /\ at \in [Requests \cup Planners -> {"idle", "listing", "creating", "issuing", "marking",
                                        "storing", "over"}]
  /\ read \in [Requests -> [plan : Plans, steps : SomeSteps, step : Nat]]
  /\ \A q \in Requests :
       /\ read[q].steps \in StepLists(read[q].plan)
       /\ at[q] \in {"creating", "issuing", "marking", "storing"} =>
            read[q].step \in Steps(read[q].plan)
  /\ known \in [Planners -> SUBSET Plans] /\ active \in [Planners -> SUBSET Plans]
  /\ \A w \in Planners : \A p \in known[w] \cup active[w] : plan[p].version # 0
  /\ since \in [Requests -> Nat] /\ extant \in [Requests -> SUBSET Plans]
  /\ torn \subseteq Plans

\* create_simulation_task has made the task and its first plan.
Init ==
  /\ plan = [p \in Plans |-> [version |-> IF p = First THEN 1 ELSE 0,
                              status |-> IF p = First THEN "Active" ELSE "Absent",
                              steps |-> Offered[p]]]
  /\ rows = Offered
  /\ action = [q \in Requests |-> [plan |-> First, step |-> 0, number |-> 0,
                                   status |-> "Absent"]]
  /\ made = 0
  /\ at = [x \in Requests \cup Planners |-> "idle"]
  /\ read = [q \in Requests |-> [plan |-> First, steps |-> Offered[First], step |-> 0]]
  /\ known = [w \in Planners |-> {}] /\ active = [w \in Planners |-> {}]
  /\ since = [q \in Requests |-> 0] /\ extant = [q \in Requests |-> {}]
  /\ torn = {}

Extant == {p \in Plans : plan[p].status # "Absent"}
ActivePlans == {p \in Plans : plan[p].status = "Active"}
Goto(x, place) == at' = [at EXCEPT ![x] = place]

-----------------------------------------------------------------------------
\* POST /api/v1/tasks/{id}/plans: store.create_task_plan

\* The query for the highest version.
ReadVersions(w) ==
  /\ at[w] = "idle"
  /\ known' = [known EXCEPT ![w] = Extant]
  /\ Goto(w, "listing")
  /\ UNCHANGED <<plan, rows, action, made, read, active, history>>

\* The query for the plans to supersede.
ReadActive(w) ==
  /\ at[w] = "listing"
  /\ active' = [active EXCEPT ![w] = ActivePlans]
  /\ Goto(w, "creating")
  /\ UNCHANGED <<plan, rows, action, made, read, known, history>>

\* Mutant: the plans to supersede are not.
CreatePlanBeside(w) ==
  /\ at[w] = "creating"
  /\ \E last \in known[w], status \in {"Active", "Ready"} :
       /\ \A p \in known[w] : plan[p].version <= plan[last].version
       /\ plan' = [plan EXCEPT ![w].version = plan[last].version + 1, ![w].status = status]
  /\ Goto(w, "over")
  /\ UNCHANGED <<rows, action, made, read, planning, history>>

\* The row of plan p after the commit of plan w.
Beside(w, p, status) ==
  [version |-> plan[p].version,
   status |-> IF status = "Active" /\ p \in active[w] THEN "Superseded" ELSE plan[p].status,
   steps |-> plan[p].steps]

\* The commit.  A plan that is not to be active at once supersedes none.
CreatePlan(w) ==
  /\ at[w] = "creating"
  /\ \E last \in known[w], status \in {"Active", "Ready"} :
       /\ \A p \in known[w] : plan[p].version <= plan[last].version
       /\ plan' = [p \in Plans |->
                    IF p = w THEN [version |-> plan[last].version + 1, status |-> status,
                                   steps |-> Offered[w]]
                             ELSE Beside(w, p, status)]
  /\ Goto(w, "over")
  /\ UNCHANGED <<rows, action, made, read, planning, history>>

-----------------------------------------------------------------------------
\* POST /api/v1/simulation-runs/{id}/schedule

\* Mutant: an old plan that is active no more will do.
AnyPlan == Extant

\* _active_plan_row: the newest of the active plans, or of all plans if none is active.
\* Two plans of the same version may be found in either order.
ActivePlan ==
  LET candidates == IF ActivePlans # {} THEN ActivePlans ELSE Extant
  IN {p \in candidates : \A o \in candidates : plan[o].version <= plan[p].version}

\* The request ends here with the decision "failed" or "wait" when it names no task of the
\* run, or when no enabled robot, or not the one it names, can be picked.
ReadTask(q) ==
  /\ at[q] = "idle" /\ q \in Schedules
  /\ \/ Goto(q, "over") /\ UNCHANGED <<read, extant>>
     \/ \E p \in ActivePlan :
          /\ read' = [read EXCEPT ![q] = [plan |-> p, steps |-> plan[p].steps, step |-> 0]]
          /\ extant' = [extant EXCEPT ![q] = Extant]
          /\ Goto(q, "listing")
  /\ UNCHANGED <<plan, rows, action, made, planning, since, torn>>

\* list_actions returns the newest Actions of the task only.
Listed(a) == a.number # 0 /\ a.number + Limit > made

\* existing_plan_step_ids
Taken(p, k) ==
  \E q \in Requests : Listed(action[q]) /\ action[q].plan = p /\ action[q].step = k

\* Mutant: Actions are not looked at.
UntakenByStatus(r) == {k \in Steps(r.plan) : r.steps[k] \in Open}

\* Mutant: only pending steps.
UntakenPending(r) ==
  {k \in Steps(r.plan) : r.steps[k] = "Pending" /\ ~Taken(r.plan, k)}

\* The steps that can be scheduled: dependsOn, and how earlier Actions ended, are not
\* looked at.
Untaken(r) == {k \in Steps(r.plan) : r.steps[k] \in Open /\ ~Taken(r.plan, k)}

\* The first of them; or the end, with the decision "wait", or without autoIssue.
ChooseStep(q) ==
  /\ at[q] = "listing"
  /\ since' = [since EXCEPT ![q] = made]
  /\ \/ Goto(q, "over") /\ UNCHANGED read
     \/ \E k \in Untaken(read[q]) :
          /\ \A j \in Untaken(read[q]) : k <= j
          /\ read' = [read EXCEPT ![q].step = k]
          /\ Goto(q, "creating")
  /\ UNCHANGED <<plan, rows, action, made, planning, extant, torn>>

-----------------------------------------------------------------------------
\* Both kinds of request: store.create_action, _issue_command, store.mark_action_issued

Insert(q, p, k, number) ==
  /\ action' = [action EXCEPT ![q] = [plan |-> p, step |-> k, number |-> number,
                                      status |-> "Pending"]]
  /\ Goto(q, "issuing")

\* The row names the task; or, of a direct request, another task of the run or none.
InsertOwn(q, p, k) == made' = made + 1 /\ Insert(q, p, k, made + 1)
InsertForeign(q, p, k) == made' = made /\ Insert(q, p, k, 0)

\* The Action's row, which may be refused (ValueError, HTTP 400).
CreateAction(q) ==
  /\ at[q] = "creating"
  /\ \/ InsertOwn(q, read[q].plan, read[q].step)
     \/ Goto(q, "over") /\ UNCHANGED <<made, action>>
  /\ UNCHANGED <<plan, rows, read, planning, history>>

\* POST /api/v1/actions, for a step of any plan.  The request is not asked for the task of
\* that plan.
CreateDirect(q) ==
  /\ at[q] = "idle" /\ q \in Directs
  /\ \E p \in Extant : \E k \in Steps(p) :
       /\ InsertOwn(q, p, k) \/ InsertForeign(q, p, k)
       /\ read' = [read EXCEPT ![q] = [plan |-> p, steps |-> plan[p].steps, step |-> k]]
  /\ UNCHANGED <<plan, rows, planning, history>>

\* The command may be refused as well; the Action stays as it is, its step taken.
IssueCommand(q) ==
  /\ at[q] = "issuing"
  /\ \E place \in {"marking", "over"} : Goto(q, place)
  /\ UNCHANGED <<plan, rows, action, made, read, planning, history>>

\* mark_action_issued, and with it _update_plan_step_status, reads the plan.
LoadSteps(q) ==
  /\ at[q] = "marking"
  /\ read' = [read EXCEPT ![q].steps = plan[read[q].plan].steps]
  /\ Goto(q, "storing")
  /\ UNCHANGED <<plan, rows, action, made, planning, history>>

\* The steps with step k issued.
Marked(steps, k) == [steps EXCEPT ![k] = "Issued"]

\* Mutant: the step's own row is forgotten.
StoreListOnly(q) ==
  LET p == read[q].plan
      k == read[q].step
  IN /\ at[q] = "storing"
     /\ action' = [action EXCEPT ![q].status = "Issued"]
     /\ plan' = [plan EXCEPT ![p].steps = Marked(read[q].steps, k)]
     /\ Goto(q, "over")
     /\ UNCHANGED <<rows, made, read, planning, history>>

\* Its commit: all steps of the plan are written when one has changed.
StoreSteps(q) ==
  LET p == read[q].plan
      k == read[q].step
      written == Marked(read[q].steps, k)
  IN /\ at[q] = "storing"
     /\ action' = [action EXCEPT ![q].status = "Issued"]
     /\ rows' = [rows EXCEPT ![p] = Marked(rows[p], k)]
     /\ IF written = read[q].steps
        THEN UNCHANGED <<plan, torn>>
        ELSE /\ plan' = [plan EXCEPT ![p].steps = written]
             /\ torn' = IF plan[p].steps = read[q].steps THEN torn ELSE torn \cup {p}
     /\ Goto(q, "over")
     /\ UNCHANGED <<made, read, planning, since, extant>>

\* The process ends, or the database fails the transaction.
Crash(x) ==
  /\ at[x] \notin {"idle", "over"}
  /\ Goto(x, "over")
  /\ UNCHANGED <<plan, rows, action, made, read, planning, history>>

-----------------------------------------------------------------------------
Plan(w) == ReadVersions(w) \/ ReadActive(w) \/ CreatePlan(w)

Serve(q) ==
  ReadTask(q) \/ ChooseStep(q) \/ CreateAction(q) \/ CreateDirect(q) \/ IssueCommand(q)
    \/ LoadSteps(q) \/ StoreSteps(q)

Next ==
  \/ \E w \in Planners : Plan(w)
  \/ \E q \in Requests : Serve(q)
  \/ \E x \in Requests \cup Planners : Crash(x)

Spec == Init /\ [][Next]_vars

-----------------------------------------------------------------------------
\* Properties

Made(q) == action[q].status # "Absent"
ForStep(q, p, k) == Made(q) /\ action[q].plan = p /\ action[q].step = k

\* schedule_simulation_run goes through a plan in order: a step gets an Action by the
\* scheduler only when every earlier step that could be scheduled has had one, however
\* requests overlap, whatever is lost, and however few Actions are listed.
NoStepSkipped ==
  \A q \in Schedules : Made(q) =>
    \A j \in Steps(action[q].plan) :
      j < action[q].step /\ Offered[action[q].plan][j] \in Open =>
        \E r \in Requests : ForStep(r, action[q].plan, j)

\* A step is scheduled although it has an Action only when that one was not made for the
\* task (create_action lets it name the step all the same), by a request that listed
\* Actions before that one was made, or when the limit of the list had cut it off.
SecondActionHasCause ==
  \A q \in Schedules, r \in Requests :
    q # r /\ Made(q) /\ ForStep(r, action[q].plan, action[q].step) =>
      \/ action[r].number = 0
      \/ action[r].number > since[q]
      \/ action[r].number + Limit <= since[q]

\* A step that is shown as Issued has an Action whose command was issued, unless it was
\* offered so, and the plan never runs ahead of the step's own row.
IssuedStepsHaveCommands ==
  \A p \in Plans : \A k \in Steps(p) :
    /\ plan[p].steps[k] = "Issued" => rows[p][k] = "Issued"
    /\ rows[p][k] = "Issued" /\ Offered[p][k] # "Issued" =>
         \E q \in Requests : ForStep(q, p, k) /\ action[q].status = "Issued"

\* The two copies of the steps' statuses, steps_json and simulation_plan_steps, agree
\* until a commit overwrites steps that it has not read.
StepsAgree == \A p \in Plans \ torn : plan[p].steps = rows[p]

\* A plan that was active at once and may be superseded by now.
Activated(w) == plan[w].status \in {"Active", "Superseded"}

\* Replanning: some plan is active, and a plan is newer than those its planner found,
\* and supersedes them if it is to be active.
PlansSucceed ==
  /\ ActivePlans # {}
  /\ \A w \in Planners \cap Extant : \A p \in known[w] :
       /\ plan[p].version < plan[w].version
       /\ Activated(w) => plan[p].status # "Active"

\* The scheduler works on no plan that one of the plans it could have read has replaced.
ReplacedPlanUnused ==
  \A q \in Schedules : Made(q) =>
    \A w \in extant[q] \cap Planners : Activated(w) => action[q].plan \notin known[w]

=============================================================================
