------------------------------- MODULE Sweeps -------------------------------
(***************************************************************************)
(* The due sweep of an organization: services/operations/service.py.  A    *)
(* sweep, started by a request or by a job that may be retried, emits an   *)
(* event for every reviewed deadline that is due soon, whose workflow      *)
(* creates a task and a notification, and escalates every overdue task by  *)
(* one level.  It is one transaction.  Sweeps may run at the same time:    *)
(* the dedupe keys of the events and of the notifications are unique in    *)
(* the database, the level of an escalation is not.                        *)
(***************************************************************************)
EXTENDS Sessions, Naturals

CONSTANTS
    Sweepers,   \* sweeps open at the same time
    Deadlines,  \* reviewed deadlines; each stands for the task of its event as well
    ManualTasks,
    MaxLevel    \* bound on escalation_level

ASSUME SweepsAssumption == MaxLevel \in Nat /\ Deadlines \cap ManualTasks = {}

Tasks == Deadlines \cup ManualTasks
Levels == 1..MaxLevel
TaskStatuses == {"absent", "todo", "in_progress", "done", "cancelled"}

VARIABLES
    event,       \* the deadlines with a workflow_events row
    made,        \* how many tasks the workflow runs of a deadline have created
    task,        \* workflow_tasks: status and escalation_level
    escalations, \* how many workflow_escalations rows there are of a task and a level
    partner,     \* whether every sweep finds a recipient, or none does
    sweep        \* open sweeps: the deadlines and the levels they are about to insert

sweepsVars == <<event, made, task, escalations, partner, sweep>>

-----------------------------------------------------------------------------
NoTask == [status |-> "absent", level |-> 0]
NewTask == [status |-> "todo", level |-> 0]
NoSweep == [open |-> FALSE, events |-> {}, levels |-> [t \in Tasks |-> 0]]

SweepsInit ==
    /\ event = {}
    /\ made = [d \in Deadlines |-> 0]
    /\ task = [t \in Tasks |-> NoTask]
    /\ escalations = [p \in Tasks \X Levels |-> 0]
    /\ partner \in BOOLEAN
    /\ sweep = [s \in Sweepers |-> NoSweep]

NobodySweeps == overlap \/ \A s \in Sweepers : sweep[s] = NoSweep

create_task(t) ==
    /\ NobodySweeps
    /\ task[t] = NoTask
    /\ task' = [task EXCEPT ![t] = NewTask]
    /\ UNCHANGED <<event, made, escalations, partner, sweep, overlap>>

\* The level of a task that is reopened stays.
update_task(t, status) ==
    /\ NobodySweeps
    /\ task[t] # NoTask
    /\ task' = [task EXCEPT ![t].status = status]
    /\ UNCHANGED <<event, made, escalations, partner, sweep, overlap>>

Overdue(t) == task[t].status \in {"todo", "in_progress"} /\ task[t].level < MaxLevel

\* emit_event returns an event that is there; a task of whose next level there is an
\* escalation is passed over.
NextLevel(t, overdue) ==
    IF t \in overdue /\ escalations[<<t, task[t].level + 1>>] = 0 THEN task[t].level + 1 ELSE 0

SweepRead(s, due, overdue) ==
    /\ MayOpen(sweep, NoSweep, s)
    /\ \A t \in overdue : Overdue(t)
    /\ sweep' = [sweep EXCEPT ![s] = [open |-> TRUE, events |-> due \ event,
           levels |-> [t \in Tasks |-> NextLevel(t, overdue)]]]
    /\ UNCHANGED <<event, made, task, escalations, partner, overlap>>

Escalates(s, t, k) == k # 0 /\ sweep[s].levels[t] = k
Notified(t, k) == partner /\ escalations[<<t, k>>] # 0

\* uq_workflow_event_org_dedupe and uq_workflow_notification_org_dedupe.
EventsOnly(s) == sweep[s].events \cap event # {}             \* mutant: notifications may repeat
Clash(s) ==
    \/ sweep[s].events \cap event # {}
    \/ \E t \in Tasks, k \in Levels : Escalates(s, t, k) /\ Notified(t, k)

SweepCommit(s) ==
    LET new == sweep[s].events IN
    /\ sweep[s].open
    /\ ~Clash(s)
    /\ event' = event \cup new
    /\ made' = [d \in Deadlines |-> IF d \in new THEN made[d] + 1 ELSE made[d]]
    /\ task' = [t \in Tasks |->
           CASE t \in new -> NewTask
             [] t \notin new /\ sweep[s].levels[t] # 0 -> [task[t] EXCEPT !.level = sweep[s].levels[t]]
             [] OTHER -> task[t]]
    /\ escalations' = [p \in Tasks \X Levels |->
           IF Escalates(s, p[1], p[2]) THEN escalations[p] + 1 ELSE escalations[p]]
    /\ sweep' = [sweep EXCEPT ![s] = NoSweep]
    /\ UNCHANGED <<partner, overlap>>

\* An insert is refused, or the worker dies: nothing of the sweep is kept.
SweepFails(s) ==
    /\ sweep[s].open
    /\ sweep' = [sweep EXCEPT ![s] = NoSweep]
    /\ UNCHANGED <<event, made, task, escalations, partner, overlap>>

SweepsNext ==
    \/ \E t \in ManualTasks : create_task(t)
    \/ \E t \in Tasks, status \in TaskStatuses \ {"absent"} : update_task(t, status)
    \/ \E s \in Sweepers :
          \/ \E due \in SUBSET Deadlines, overdue \in SUBSET Tasks : SweepRead(s, due, overdue)
          \/ SweepCommit(s)
          \/ SweepFails(s)

SweepsSpec == SessionsInit /\ SweepsInit /\ [][SweepsNext]_<<sweepsVars, overlap>>

-----------------------------------------------------------------------------
SweepsTypeOK ==
    /\ event \subseteq Deadlines
    /\ made \in [Deadlines -> Nat]
    /\ task \in [Tasks -> [status : TaskStatuses, level : 0..MaxLevel]]
    /\ escalations \in [Tasks \X Levels -> Nat]
    /\ partner \in BOOLEAN
    /\ sweep \in [Sweepers -> [open : BOOLEAN, events : SUBSET Deadlines,
                               levels : [Tasks -> 0..MaxLevel]]]

\* However often a sweep is repeated, and whatever sweeps overlap or fail, the event
\* of a deadline creates its task once; and a task is escalated once to each level
\* up to its own, because the sweep that would do it again inserts a notification of
\* that task and level again, which is refused with all that the sweep did.  Without
\* a recipient only sweeps that do not overlap keep to that (run_due_sweep).
SweptOnce ==
    /\ \A d \in Deadlines : made[d] = IF d \in event THEN 1 ELSE 0
    /\ ~overlap \/ partner =>
          \A t \in Tasks, k \in Levels :
              escalations[<<t, k>>] = IF k <= task[t].level THEN 1 ELSE 0
=============================================================================
