--------------------------- MODULE TaskApprovals ---------------------------
(***************************************************************************)
(* The task queue of one contact and the two kinds of approval around it:  *)
(* cancelling a task that a coordinator may not cancel alone, and          *)
(* archiving the contact.                                                  *)
(*                                                                         *)
(* A request handler reads the task first, decides on what it read, and    *)
(* writes later in a transaction whose conditions differ from path to      *)
(* path: the general change compares the version (updated_at), the         *)
(* follow-up outcome the status and owner, the direct cancellation the     *)
(* exact time stamp, the reconciliation after a lead was closed only that  *)
(* the task is open, and the approvals lock the task and read it again.    *)
(* A handler that is refused, fails or dies leaves nothing behind.         *)
(***************************************************************************)
EXTENDS Naturals, FiniteSets, Sequences

CONSTANTS
    Handlers,       \* requests under way at a time
    Coordinators,   \* regular coordinators
    Reviewers,      \* senior coordinators and admins
    Opening,        \* the tasks there are at first: sequence of [kind, owner, fine]
    Changes,        \* changes of a task that requests ask for
    MaxTasks,       \* bound on tasks, successors included
    MaxApprovals,   \* bound on removal approvals
    MaxArchives,    \* bound on archive approvals
    MaxWrites       \* bound on the transactions of a run

\* "inbound": the follow-up automation opens for a new lead.  "follow_up": one
\* an employee scheduled.  "recurring" and "reminder": other manual tasks.
Kinds == {"inbound", "follow_up", "recurring", "reminder"}
Users == Coordinators \cup Reviewers

ASSUME TaskAssumption ==
    /\ MaxTasks \in Nat /\ MaxApprovals \in Nat /\ MaxArchives \in Nat
    /\ MaxWrites \in Nat
    /\ Opening \in Seq([kind : Kinds, owner : Users, fine : BOOLEAN])
    /\ Changes \subseteq {"start", "snooze", "edit", "reopen", "complete", "assign"}
    /\ Len(Opening) <= MaxTasks
    /\ Coordinators \cap Reviewers = {}

VARIABLES
    task,           \* tasks, by number; the approval tasks are apart
    approval,       \* tasks of type task_removal_approval
    told,           \* decision notices to requesters: <<approval, decision>>
    archive,        \* tasks of type archive_approval
    archived,       \* contacts.archived_at is set
    request,        \* what each handler read and means to do
    completed,      \* history: how often each task was completed
    writes          \* transactions so far

taskVars == <<task, approval, told, completed>>
archiveVars == <<archive, archived>>
vars == <<task, approval, told, archive, archived, request, completed, writes>>

TaskIds == 1 .. MaxTasks
ApprovalIds == 1 .. MaxApprovals
ArchiveIds == 1 .. MaxArchives

OpenStatuses == {"open", "in_progress", "snoozed"}
Decisions == {"none", "pending", "approved", "denied", "superseded"}

\* "fine": updated_at is still the one the database made, whose microseconds the
\* handlers' dates cut off.  (One in a thousand happens to have none and is like
\* one that a handler made.)  "from": the task this one succeeds.
NoTask == [kind |-> "none", status |-> "none", owner |-> "none",
           decision |-> "none", approval |-> 0, version |-> 0, fine |-> FALSE,
           from |-> 0]
NoApproval == [status |-> "none", decision |-> "none", target |-> 0]
NoArchive == [status |-> "none", decision |-> "none"]
Idle == [op |-> "idle", task |-> 0, seen |-> NoTask,
         approval |-> 0, holding |-> FALSE, plan |-> {}]

IsOpen(row) == row.status \in OpenStatuses
Pending(row) == IF row.decision = "pending" THEN row.approval ELSE 0

Init ==
    /\ task = [t \in TaskIds |->
                 IF t <= Len(Opening)
                 THEN [NoTask EXCEPT !.kind = Opening[t].kind, !.status = "open",
                                     !.owner = Opening[t].owner, !.fine = Opening[t].fine]
                 ELSE NoTask]
    /\ approval = [a \in ApprovalIds |-> NoApproval]
    /\ told = {}
    /\ archive = [x \in ArchiveIds |-> NoArchive]
    /\ archived = FALSE
    /\ request = [h \in Handlers |-> Idle]
    /\ completed = [t \in TaskIds |-> 0]
    /\ writes = 0

-----------------------------------------------------------------------------
(* Reading the task and choosing the path.                                 *)

\* What a handler keeps of the row it read.
Seen(t) == [task[t] EXCEPT !.fine = FALSE, !.from = 0]

Take(h, r) ==
    /\ request[h] = Idle
    /\ request' = [request EXCEPT ![h] = r]
    /\ UNCHANGED <<taskVars, archiveVars, writes>>

\* taskMutationAccessDecision: a coordinator changes own tasks, and may ask to
\* cancel any.
MayChange(u, row) == u \in Reviewers \/ row.owner = u

\* buildTaskTransition: a closed task can only be reopened.
ReadForChange(h, u, t, op) ==
    /\ task[t] # NoTask
    /\ MayChange(u, task[t])
    /\ IsOpen(task[t]) \/ op = "reopen"
    /\ Take(h, [Idle EXCEPT !.op = op, !.task = t, !.seen = Seen(t)])

\* taskCancellationDecision, for a task that is open: what the user's "cancel"
\* leads to.  The tasks here are of low or medium priority and the manual ones
\* were created by their first owner.
CancellationPath(u, row) ==
    IF Pending(row) # 0
    THEN IF u \in Coordinators THEN "request" ELSE "forbidden"
    ELSE IF u \in Reviewers \/ (row.owner = u /\ row.kind # "inbound")
         THEN "cancel" ELSE "request"

ReadForCancel(h, u, t) ==
    /\ task[t] # NoTask
    /\ IsOpen(task[t])
    /\ CancellationPath(u, task[t]) # "forbidden"
    /\ Take(h, [Idle EXCEPT !.op = CancellationPath(u, task[t]),
                            !.task = t, !.seen = Seen(t)])

ReadApproval(h, u, a, op) ==
    /\ u \in Reviewers
    /\ approval[a].status = "open"
    /\ Take(h, [Idle EXCEPT !.op = op, !.approval = a])

\* The follow-ups a closed lead leaves without purpose, each with the approval
\* its removal waits for when it is read.
Plan(except) ==
    {<<x, Pending(task[x])>> :
        x \in {x \in TaskIds \ {except} : task[x].kind = "inbound" /\ IsOpen(task[x])}}

\* The lead's lifecycle ends by an update of the contact or an enrollment.
ReadForReconcile(h) ==
    /\ Plan(0) # {}
    /\ Take(h, [Idle EXCEPT !.op = "reconcile", !.plan = Plan(0)])

-----------------------------------------------------------------------------
(* Writing.                                                                *)

\* A row that a follow-up outcome has updated and not yet committed.
Held(t, h) == \E g \in Handlers \ {h} : request[g].holding /\ request[g].task = t

Done(h) ==
    /\ writes < MaxWrites
    /\ writes' = writes + 1
    /\ request' = [request EXCEPT ![h] = Idle]

Written(row) == [row EXCEPT !.version = @ + 1, !.fine = FALSE]

\* supersedeOpenTaskRemovalApprovalInTransaction: whoever closes tasks also
\* closes the approvals they were waiting for, as far as it has seen them, and
\* their requesters are told.  "plan" pairs the tasks with those approvals.
Overtaken(plan) == {p \in plan : p[2] # 0 /\ approval[p[2]].status = "open"}

Completes(t) ==
    completed' = [completed EXCEPT ![t] = IF IsOpen(task[t]) THEN @ + 1 ELSE @]

Closing(plan, status) ==
    [t \in TaskIds |->
       IF \E p \in plan : p[1] = t
       THEN LET row == [Written(task[t]) EXCEPT !.status = status] IN
            IF \E p \in Overtaken(plan) : p[1] = t
            THEN [row EXCEPT !.decision = "superseded"] ELSE row
       ELSE task[t]]

\* Mutant of Supersede: nobody is told.
SupersedeSilently(plan) ==
    LET gone == {p[2] : p \in Overtaken(plan)} IN
    /\ approval' = [a \in ApprovalIds |->
                      IF a \in gone
                      THEN [approval[a] EXCEPT !.status = "canceled",
                                               !.decision = "superseded"]
                      ELSE approval[a]]
    /\ UNCHANGED told

Supersede(plan) ==
    LET gone == {p[2] : p \in Overtaken(plan)} IN
    /\ approval' = [a \in ApprovalIds |->
                      IF a \in gone
                      THEN [approval[a] EXCEPT !.status = "canceled",
                                               !.decision = "superseded"]
                      ELSE approval[a]]
    /\ told' = told \cup {<<a, "superseded">> : a \in gone}

\* Mutant of StatusAfter: the name of the action taken for the status.
StatusAfterStarted(op, status) ==
    CASE op = "start" -> "started"
      [] op = "snooze" -> "snoozed"
      [] op = "reopen" -> "open"
      [] op = "complete" -> "completed"
      [] op = "edit" -> status

\* buildTaskTransition
StatusAfter(op, status) ==
    CASE op = "start" -> "in_progress"
      [] op = "snooze" -> "snoozed"
      [] op = "reopen" -> "open"
      [] op = "complete" -> "completed"
      [] op = "edit" -> status

\* The row as a general change leaves it.
Edited(row, op, owner) ==
    [Written(row) EXCEPT !.owner = owner,
                         !.status = IF op = "assign" THEN @ ELSE StatusAfter(op, @)]

\* Mutant of CurrentVersion: the condition on updated_at is forgotten.
AnyVersion(h) == task[request[h].task] # NoTask

\* taskVersionConditions: the row is the one that was read.
CurrentVersion(h) == task[request[h].task].version = request[h].seen.version

FreeTask(n) == task[n] = NoTask /\ \A m \in 1 .. n - 1 : task[m] # NoTask

\* updateTaskWithEvents: a general change of the task, or the completion of a
\* task that neither recurs nor is a follow-up.
UpdateTask(h) ==
    LET r == request[h]  t == r.task IN
    /\ r.op \in Changes
    /\ r.op = "complete" => r.seen.kind = "reminder"
    /\ ~ Held(t, h)
    /\ CurrentVersion(h)
    /\ Done(h)
    /\ IF r.op = "complete"
       THEN LET plan == {<<t, Pending(r.seen)>>} IN
            /\ task' = Closing(plan, "completed")
            /\ Supersede(plan)
            /\ Completes(t)
       ELSE /\ \E owner \in IF r.op = "assign" THEN Users ELSE {task[t].owner} :
                 task' = [task EXCEPT ![t] = Edited(@, r.op, owner)]
            /\ UNCHANGED <<approval, told, completed>>
    /\ UNCHANGED archiveVars

\* The successor of a recurring task is given the metadata of its predecessor
\* as they were read, a pending removal included.
SuccessorMetadata(row) == [decision |-> row.decision, approval |-> row.approval]

\* completeRecurringTaskWithNextTask
CompleteRecurring(h) ==
    LET r == request[h]  t == r.task  plan == {<<t, Pending(r.seen)>>} IN
    /\ r.op = "complete" /\ r.seen.kind = "recurring"
    /\ ~ Held(t, h)
    /\ CurrentVersion(h) /\ task[t].status = r.seen.status
    /\ Done(h)
    /\ \E n \in TaskIds :
         /\ FreeTask(n)
         /\ task' = [Closing(plan, "completed") EXCEPT ![n] =
              [NoTask EXCEPT !.kind = "recurring", !.status = "open",
                 !.owner = r.seen.owner, !.fine = TRUE, !.from = t,
                 !.decision = SuccessorMetadata(r.seen).decision,
                 !.approval = SuccessorMetadata(r.seen).approval]]
    /\ Supersede(plan)
    /\ Completes(t)
    /\ UNCHANGED archiveVars

\* Mutant of StillSelected: the status is not looked at again.
SameOwner(h) == task[request[h].task].owner = request[h].seen.owner

\* The conditions of the follow-up outcome's update; the version is not one.
StillSelected(h) ==
    /\ task[request[h].task].owner = request[h].seen.owner
    /\ task[request[h].task].status = request[h].seen.status

IsFollowUp(r) == r.op = "complete" /\ r.seen.kind \in {"inbound", "follow_up"}

\* The outcome may schedule the next follow-up.
PerhapsNext(tasks, r) ==
    {tasks} \cup
    {[tasks EXCEPT ![n] = [NoTask EXCEPT !.kind = "follow_up", !.status = "open",
                             !.owner = r.seen.owner, !.fine = TRUE, !.from = r.task]] :
       n \in {n \in TaskIds : FreeTask(n)}}

\* completeFollowUpTaskWithActivity
CompleteFollowUp(h) ==
    LET r == request[h]  t == r.task  plan == {<<t, Pending(r.seen)>>} IN
    /\ IsFollowUp(r) /\ ~ r.holding
    /\ ~ Held(t, h)
    /\ StillSelected(h)
    /\ Done(h)
    /\ task' \in PerhapsNext(Closing(plan, "completed"), r)
    /\ Supersede(plan)
    /\ Completes(t)
    /\ UNCHANGED archiveVars

\* The outcome ends the lead: its transaction holds the task and selects the
\* other follow-ups of the lead,
HoldFollowUp(h) ==
    LET r == request[h] IN
    /\ IsFollowUp(r) /\ ~ r.holding
    /\ ~ Held(r.task, h)
    /\ StillSelected(h)
    /\ request' = [request EXCEPT ![h].holding = TRUE, ![h].plan = Plan(r.task)]
    /\ UNCHANGED <<taskVars, archiveVars, writes>>

\* reconcileAutomatedInboundFollowUpTasks: what was selected and is open still.
StillOpen(plan) == {p \in plan : IsOpen(task[p[1]])}

\* and cancels those that are still open.
FinishFollowUp(h) ==
    LET r == request[h]
        own == {<<r.task, Pending(r.seen)>>}
        rest == StillOpen(r.plan) IN
    /\ r.holding
    /\ \A p \in r.plan : ~ Held(p[1], h)
    /\ Done(h)
    /\ task' \in PerhapsNext([Closing(rest, "canceled") EXCEPT
                               ![r.task] = Closing(own, "completed")[r.task]], r)
    /\ Supersede(own \cup rest)
    /\ Completes(r.task)
    /\ UNCHANGED archiveVars

Reconcile(h) ==
    LET rest == StillOpen(request[h].plan) IN
    /\ request[h].op = "reconcile"
    /\ \A p \in request[h].plan : ~ Held(p[1], h)
    /\ rest # {}
    /\ Done(h)
    /\ task' = Closing(rest, "canceled")
    /\ Supersede(rest)
    /\ UNCHANGED <<completed, archiveVars>>

\* The owner of a lead changes, and its automated follow-ups with it.
SyncOwner ==
    /\ writes < MaxWrites
    /\ writes' = writes + 1
    /\ \E owner \in Users :
         LET moved == {p[1] : p \in {p \in Plan(0) : task[p[1]].owner # owner}} IN
         /\ moved # {}
         /\ \A t \in moved, h \in Handlers : ~ (request[h].holding /\ request[h].task = t)
         /\ task' = [t \in TaskIds |-> IF t \in moved
                                       THEN [Written(task[t]) EXCEPT !.owner = owner]
                                       ELSE task[t]]
    /\ UNCHANGED <<approval, told, completed, archiveVars, request>>

\* The conditions of cancelTaskDirectly's update.  A time stamp that the
\* database made does not equal the one that was read.
CancelMatches(h) ==
    LET r == request[h] IN
    /\ task[r.task].status = r.seen.status
    /\ Pending(task[r.task]) = 0
    /\ CurrentVersion(h) /\ ~ task[r.task].fine

CancelTaskDirectly(h) ==
    LET t == request[h].task IN
    /\ request[h].op = "cancel"
    /\ ~ Held(t, h)
    /\ CancelMatches(h)
    /\ Done(h)
    /\ task' = [task EXCEPT ![t] = [Written(@) EXCEPT !.status = "canceled"]]
    /\ UNCHANGED <<approval, told, completed, archiveVars>>

-----------------------------------------------------------------------------
(* Approvals of removals.                                                  *)

OpenApprovals(t) == {a \in ApprovalIds : approval[a].status = "open" /\ approval[a].target = t}

\* Mutant of Requestable: an approval that is open already is not looked for.
RequestableAgain(t) == IsOpen(task[t])

\* With the task locked: it is open, and no approval waits for it.  (When one
\* does it is used again, and nothing but a notice to its reviewer changes.)
Requestable(t) == IsOpen(task[t]) /\ OpenApprovals(t) = {}

\* createOrReuseTaskRemovalApprovalTask
RequestRemoval(h) ==
    LET t == request[h].task IN
    /\ request[h].op = "request"
    /\ ~ Held(t, h)
    /\ Requestable(t)
    /\ Done(h)
    /\ \E a \in ApprovalIds :
         /\ approval[a] = NoApproval /\ \A b \in 1 .. a - 1 : approval[b] # NoApproval
         /\ approval' = [approval EXCEPT ![a] =
              [status |-> "open", decision |-> "pending", target |-> t]]
         /\ task' = [task EXCEPT ![t] =
              [Written(@) EXCEPT !.decision = "pending", !.approval = a]]
    /\ UNCHANGED <<told, completed, archiveVars>>

Decide(a, status, decision) ==
    /\ approval' = [approval EXCEPT ![a].status = status, ![a].decision = decision]
    /\ told' = told \cup {<<a, decision>>}

\* decideTaskRemovalApprovalTask: with the target and then the approval locked.
\* A target that has been closed since supersedes the request whatever the
\* reviewer decides.
DecideRemoval(h) ==
    LET r == request[h]  a == r.approval  t == approval[a].target IN
    /\ r.op \in {"approve", "deny"}
    /\ ~ Held(t, h)
    /\ approval[a].status = "open"
    /\ Done(h)
    /\ \/ /\ ~ IsOpen(task[t])
          /\ Decide(a, "canceled", "superseded")
          /\ task' = [task EXCEPT ![t] = [Written(@) EXCEPT !.decision = "superseded",
                                                           !.approval = a]]
       \/ /\ IsOpen(task[t]) /\ Pending(task[t]) = a
          /\ r.op = "approve"
          /\ Decide(a, "completed", "approved")
          /\ task' = [task EXCEPT ![t] = [Written(@) EXCEPT !.status = "canceled",
                                                           !.decision = "approved"]]
       \/ /\ IsOpen(task[t]) /\ Pending(task[t]) = a
          /\ r.op = "deny"
          /\ Decide(a, "canceled", "denied")
          /\ task' = [task EXCEPT ![t] = [Written(@) EXCEPT !.decision = "denied"]]
    /\ UNCHANGED <<completed, archiveVars>>

-----------------------------------------------------------------------------
(* Archiving the contact.                                                  *)

\* No approval is open when the handler looks, outside of its transaction.
ReadForArchive(h, u) ==
    /\ u \in Coordinators
    /\ \A x \in ArchiveIds : archive[x].status \notin OpenStatuses
    /\ Take(h, [Idle EXCEPT !.op = "archive"])

\* createOrReuseArchiveApprovalTask
RequestArchive(h) ==
    /\ request[h].op = "archive"
    /\ Done(h)
    /\ \E x \in ArchiveIds :
         /\ archive[x] = NoArchive /\ \A y \in 1 .. x - 1 : archive[y] # NoArchive
         /\ archive' = [archive EXCEPT ![x] = [status |-> "open", decision |-> "pending"]]
    /\ UNCHANGED <<taskVars, archived>>

ReadArchiveApproval(h, u, x, op) ==
    /\ u \in Reviewers
    /\ archive[x].status \in OpenStatuses
    /\ Take(h, [Idle EXCEPT !.op = op, !.approval = x,
                            !.seen = [NoTask EXCEPT !.status = archive[x].status]])

\* Mutant of ArchiveContact: the contact is updated apart from the decision,
\* which stands when that fails.
ArchiveContactApart == archived' \in {archived, TRUE}

\* The update finds a contact that is not archived, or else the whole decision
\* is rolled back.
ArchiveContact == ~ archived /\ archived' = TRUE

\* decideArchiveApprovalTask
DecideArchive(h) ==
    LET r == request[h]  x == r.approval IN
    /\ r.op \in {"approve_archive", "deny_archive"}
    /\ archive[x].status = r.seen.status
    /\ Done(h)
    /\ \/ /\ r.op = "approve_archive" /\ ArchiveContact
          /\ archive' = [archive EXCEPT ![x] = [status |-> "completed", decision |-> "approved"]]
       \/ /\ r.op = "deny_archive"
          /\ archive' = [archive EXCEPT ![x] = [status |-> "canceled", decision |-> "denied"]]
          /\ UNCHANGED archived
    /\ UNCHANGED taskVars

\* A reviewer changes the approval task like any other, which its version makes
\* one step; it can be reopened, but not completed or cancelled.
UpdateArchiveApproval ==
    /\ writes < MaxWrites
    /\ writes' = writes + 1
    /\ \E x \in ArchiveIds, op \in Changes \cap {"start", "snooze", "reopen"} :
         /\ archive[x] # NoArchive
         /\ archive[x].status \in OpenStatuses \/ op = "reopen"
         /\ archive[x].status # StatusAfter(op, archive[x].status)
         /\ archive' = [archive EXCEPT ![x].status = StatusAfter(op, @)]
    /\ UNCHANGED <<taskVars, archived, request>>

\* A reviewer's request; for a contact that is archived it changes nothing.
ArchiveDirectly ==
    /\ ~ archived
    /\ writes < MaxWrites
    /\ writes' = writes + 1
    /\ archived' = TRUE
    /\ UNCHANGED <<taskVars, archive, request>>

-----------------------------------------------------------------------------
\* The handler refuses, fails or dies; what its transaction did is undone.
Abandon(h) ==
    /\ request[h] # Idle
    /\ request' = [request EXCEPT ![h] = Idle]
    /\ UNCHANGED <<taskVars, archiveVars, writes>>

Reading(h) ==
    \/ \E u \in Users, t \in TaskIds :
         \/ \E op \in Changes : ReadForChange(h, u, t, op)
         \/ ReadForCancel(h, u, t)
    \/ \E u \in Users, a \in ApprovalIds, op \in {"approve", "deny"} : ReadApproval(h, u, a, op)
    \/ ReadForReconcile(h)
    \/ \E u \in Users : ReadForArchive(h, u)
    \/ \E u \in Users, x \in ArchiveIds, op \in {"approve_archive", "deny_archive"} :
         ReadArchiveApproval(h, u, x, op)

Writing(h) ==
    \/ UpdateTask(h) \/ CompleteRecurring(h)
    \/ CompleteFollowUp(h) \/ HoldFollowUp(h) \/ FinishFollowUp(h)
    \/ Reconcile(h) \/ CancelTaskDirectly(h)
    \/ RequestRemoval(h) \/ DecideRemoval(h)
    \/ RequestArchive(h) \/ DecideArchive(h)
    \/ Abandon(h)

Next ==
    \/ \E h \in Handlers : Reading(h) \/ Writing(h)
    \/ SyncOwner \/ UpdateArchiveApproval \/ ArchiveDirectly

Spec == Init /\ [][Next]_vars

-----------------------------------------------------------------------------
(* Properties.                                                             *)

TaskRows ==
    [kind : Kinds \cup {"none"},
     status : OpenStatuses \cup {"completed", "canceled", "none"},
     owner : Users \cup {"none"}, decision : Decisions,
     approval : 0 .. MaxApprovals, version : Nat, fine : BOOLEAN,
     from : 0 .. MaxTasks]

TypeOK ==
    /\ task \in [TaskIds -> TaskRows]
    /\ approval \in [ApprovalIds ->
         [status : {"none", "open", "completed", "canceled"},
          decision : Decisions, target : 0 .. MaxTasks]]
    /\ told \subseteq ApprovalIds \X {"approved", "denied", "superseded"}
    /\ archive \in [ArchiveIds ->
         [status : OpenStatuses \cup {"completed", "canceled", "none"},
          decision : {"none", "pending", "approved", "denied"}]]
    /\ archived \in BOOLEAN
    /\ completed \in [TaskIds -> Nat]
    /\ writes \in Nat
    /\ \A h \in Handlers :
         /\ request[h].task \in 0 .. MaxTasks /\ request[h].seen \in TaskRows
         /\ request[h].plan \subseteq TaskIds \X (0 .. MaxApprovals)

\* However requests, decisions, completions and cancellations cross, an open
\* approval and the task it is about know of each other: the task says that its
\* removal waits for this approval and no other, and a task that waits for an
\* approval of its own has an open one, so that a reviewer can always decide.
ApprovalIsPaired ==
    /\ \A a \in ApprovalIds :
         LET t == approval[a].target IN
         approval[a].status = "open" => task[t].decision = "pending" /\ task[t].approval = a
    /\ \A t \in TaskIds :
         LET a == Pending(task[t]) IN
         a # 0 /\ approval[a].target = t => approval[a].status = "open"

\* The requester hears how each approval ended, once, and as it ended: also
\* when not a reviewer but the end of the task decided it.
RequesterIsTold ==
    \A a \in ApprovalIds :
      LET heard == {n[2] : n \in {n \in told : n[1] = a}} IN
      heard = IF approval[a].status \in {"none", "open"} THEN {} ELSE {approval[a].decision}

\* A completed or cancelled task stays that way until somebody who saw it closed
\* reopens it: an approval, a reconciliation or a second completion that comes
\* late never turns one into the other.
ClosedStaysClosed ==
    [][\A t \in TaskIds :
         task[t].status \in {"completed", "canceled"} /\ task'[t].status # task[t].status =>
           /\ task'[t].status = "open"
           /\ \E h \in Handlers : request[h].op = "reopen" /\ request[h].task = t
                                  /\ request[h].seen = Seen(t)]_vars

\* A task completed twice at once, by two clicks or two people, is followed by
\* one next task: no task has more successors than times it was completed.
OneSuccessorEach ==
    \A t \in TaskIds : Cardinality({n \in TaskIds : task[n].from = t}) <= completed[t]

\* An approval that says the contact was archived is right, also after it was
\* reopened, decided again, or overtaken by another.
ApprovedIsArchived ==
    \A x \in ArchiveIds : archive[x].decision = "approved" => archived

\* removal-approvals.js:105: "This task already has a pending cancellation
\* approval."  So there is an approval that somebody can decide.
PendingCanBeDecided ==
    \A t \in TaskIds :
      IsOpen(task[t]) /\ Pending(task[t]) # 0 => approval[Pending(task[t])].status = "open"

=============================================================================
