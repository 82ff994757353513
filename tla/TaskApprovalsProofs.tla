------------------------- MODULE TaskApprovalsProofs -------------------------
(***************************************************************************)
(* Proofs about TaskApprovals, for any handlers, users, tasks at first and *)
(* changes, and for any bounds.                                            *)
(***************************************************************************)
EXTENDS TaskApprovals, FiniteSetTheorems, TLAPS

(* What the invariant says besides the types.                              *)

TaskOps == Changes \cup {"cancel", "request"}
AllOps == TaskOps \cup {"idle", "approve", "deny", "reconcile", "archive",
                        "approve_archive", "deny_archive"}
Plans == SUBSET (TaskIds \X (0 .. MaxApprovals))
Requests == [op : AllOps, task : 0 .. MaxTasks, seen : TaskRows, approval : Nat,
             holding : BOOLEAN, plan : Plans]
ApprovalRows == [status : {"none", "open", "completed", "canceled"},
                 decision : Decisions, target : 0 .. MaxTasks]

\* What a handler read is older than the task, or it is the task; whoever holds
\* a task is alone with it.
HandlerOK(h) ==
    LET r == request[h] IN
    /\ r.op \in TaskOps => r.task \in TaskIds
    /\ r.op \in TaskOps /\ r.op # "reopen" => IsOpen(r.seen)
    /\ r.op \in {"approve", "deny"} => r.approval \in ApprovalIds
    /\ r.task \in TaskIds =>
         /\ task[r.task].status # "none"
         /\ r.seen.version <= task[r.task].version
         /\ r.seen.version = task[r.task].version => r.seen = Seen(r.task)
    /\ r.holding =>
         /\ r.op = "complete" /\ task[r.task].status = r.seen.status
         /\ \A p \in r.plan : p[1] # r.task
         /\ \A g \in Handlers \ {h} : request[g].holding => request[g].task # r.task

HandlersOK ==
    /\ request \in [Handlers -> Requests]
    /\ \A h \in Handlers : HandlerOK(h)

\* Tasks and approvals do not vanish, and an approval is of a task.
RowsOK ==
    /\ \A t \in TaskIds : task[t].status = "none" => task[t] = NoTask
    /\ \A a \in ApprovalIds : approval[a].status # "none" =>
         approval[a].target \in TaskIds /\ task[approval[a].target].status # "none"

\* Who names an approval beside a task names one that there is, and that is of
\* this task as long as it is open.
RefOK(t, a) ==
    a # 0 => /\ a \in ApprovalIds /\ approval[a].status # "none"
             /\ approval[a].status = "open" => approval[a].target = t

RefsOK ==
    /\ \A t \in TaskIds : RefOK(t, Pending(task[t]))
    /\ \A h \in Handlers :
         /\ RefOK(request[h].task, Pending(request[h].seen))
         /\ \A p \in request[h].plan : RefOK(p[1], p[2])

Inv == /\ TypeOK /\ HandlersOK /\ RowsOK /\ RefsOK /\ ApprovalIsPaired
       /\ RequesterIsTold /\ OneSuccessorEach /\ ApprovedIsArchived

-----------------------------------------------------------------------------
(* Rows.                                                                   *)

LEMMA Blank ==
    /\ NoTask.status = "none" /\ NoTask.decision = "none" /\ NoTask.from = 0
    /\ NoTask.version = 0 /\ NoTask.approval = 0
    /\ NoTask \in TaskRows /\ Pending(NoTask) = 0
    /\ NoApproval.status = "none"
    /\ Idle \in Requests /\ Idle.op = "idle" /\ Idle.task = 0 /\ ~ Idle.holding
    /\ Idle.plan = {} /\ Idle.seen = NoTask
<1>1. NoTask \in TaskRows
  BY TaskAssumption DEF NoTask, TaskRows, Decisions
<1>2. Idle \in Requests
  BY <1>1, TaskAssumption DEF Idle, Requests, AllOps, Plans
<1>3. Pending(NoTask) = 0
  BY DEF Pending, NoTask
<1> QED
  BY <1>1, <1>2, <1>3 DEF NoTask, NoApproval, Idle

LEMMA RowTyped ==
    ASSUME TypeOK, NEW t \in TaskIds
    PROVE  /\ task[t] \in TaskRows /\ task[t].version \in Nat
           /\ Pending(task[t]) \in 0 .. MaxApprovals
<1>1. task[t] \in TaskRows
  BY DEF TypeOK
<1> QED
  BY <1>1, TaskAssumption DEF TaskRows, Pending

LEMMA PendingTyped ==
    ASSUME NEW row \in TaskRows
    PROVE  Pending(row) \in 0 .. MaxApprovals
  BY TaskAssumption DEF TaskRows, Pending

LEMMA SeenTyped ==
    ASSUME TypeOK, NEW t \in TaskIds
    PROVE  /\ Seen(t) \in TaskRows
           /\ Seen(t).status = task[t].status /\ Seen(t).version = task[t].version
           /\ Seen(t).owner = task[t].owner /\ Seen(t).kind = task[t].kind
           /\ Pending(Seen(t)) = Pending(task[t])
<1> DEFINE row == task[t]
<1>1. row \in TaskRows
  BY RowTyped
<1>2. Seen(t) = [row EXCEPT !.fine = FALSE, !.from = 0]
  BY DEF Seen
<1>0. 0 \in 0 .. MaxTasks
  BY TaskAssumption
<1> HIDE DEF row
<1>3. [row EXCEPT !.fine = FALSE, !.from = 0] \in TaskRows
  BY <1>0, <1>1 DEF TaskRows
<1>4. /\ Seen(t).status = row.status /\ Seen(t).version = row.version
      /\ Seen(t).owner = row.owner /\ Seen(t).kind = row.kind
      /\ Seen(t).decision = row.decision /\ Seen(t).approval = row.approval
  BY <1>1, <1>2 DEF TaskRows
<1> QED
  BY <1>2, <1>3, <1>4 DEF row, Pending

LEMMA WrittenRow ==
    ASSUME NEW row \in TaskRows
    PROVE  LET w == Written(row) IN
           /\ w \in TaskRows /\ w.version = row.version + 1
           /\ w.kind = row.kind /\ w.status = row.status /\ w.owner = row.owner
           /\ w.decision = row.decision /\ w.approval = row.approval /\ w.from = row.from
<1> DEFINE v == row.version + 1
<1>1. Written(row) = [row EXCEPT !.version = v, !.fine = FALSE]
  BY DEF Written
<1>2. v \in Nat
  BY DEF TaskRows
<1> HIDE DEF v
<1>3. [row EXCEPT !.version = v, !.fine = FALSE] \in TaskRows
  BY <1>2 DEF TaskRows
<1>4. LET w == [row EXCEPT !.version = v, !.fine = FALSE] IN
      /\ w.version = v
      /\ w.kind = row.kind /\ w.status = row.status /\ w.owner = row.owner
      /\ w.decision = row.decision /\ w.approval = row.approval /\ w.from = row.from
  BY DEF TaskRows
<1> QED
  BY <1>1, <1>3, <1>4 DEF v

\* The row of a task that is closed with others.
ClosedRow(plan, status, t) ==
    LET row == [Written(task[t]) EXCEPT !.status = status] IN
    IF \E p \in Overtaken(plan) : p[1] = t THEN [row EXCEPT !.decision = "superseded"] ELSE row

LEMMA ClosedRowFields ==
    ASSUME TypeOK, NEW t \in TaskIds, NEW plan, NEW status \in {"completed", "canceled"}
    PROVE  LET w == ClosedRow(plan, status, t) IN
           /\ w \in TaskRows /\ w.version = task[t].version + 1 /\ w.status = status
           /\ w.approval = task[t].approval /\ w.from = task[t].from
           /\ (\E p \in Overtaken(plan) : p[1] = t) => w.decision = "superseded"
           /\ ~ (\E p \in Overtaken(plan) : p[1] = t) => w.decision = task[t].decision
<1> DEFINE row == [Written(task[t]) EXCEPT !.status = status]
<1>1. /\ Written(task[t]) \in TaskRows /\ Written(task[t]).version = task[t].version + 1
      /\ Written(task[t]).decision = task[t].decision
      /\ Written(task[t]).approval = task[t].approval /\ Written(task[t]).from = task[t].from
  BY RowTyped, WrittenRow
<1>2. /\ row \in TaskRows /\ row.version = task[t].version + 1 /\ row.status = status
      /\ row.approval = task[t].approval /\ row.from = task[t].from
      /\ row.decision = task[t].decision
  BY <1>1 DEF TaskRows
<1>3. CASE \E p \in Overtaken(plan) : p[1] = t
  <2>1. ClosedRow(plan, status, t) = [row EXCEPT !.decision = "superseded"]
    BY <1>3 DEF ClosedRow
  <2> HIDE DEF row
  <2>2. [row EXCEPT !.decision = "superseded"] \in TaskRows
    BY <1>2 DEF TaskRows, Decisions
  <2> QED
    BY <1>2, <1>3, <2>1, <2>2 DEF TaskRows
<1>4. CASE ~ \E p \in Overtaken(plan) : p[1] = t
  <2>1. ClosedRow(plan, status, t) = row
    BY <1>4 DEF ClosedRow
  <2> QED
    BY <1>2, <1>4, <2>1
<1> QED
  BY <1>3, <1>4

LEMMA ClosingIs ==
    ASSUME NEW plan, NEW status, NEW t \in TaskIds
    PROVE  /\ (\E p \in plan : p[1] = t) => Closing(plan, status)[t] = ClosedRow(plan, status, t)
           /\ ~ (\E p \in plan : p[1] = t) => Closing(plan, status)[t] = task[t]
  BY DEF Closing, ClosedRow

LEMMA ClosingFunction ==
    ASSUME NEW plan, NEW status
    PROVE  Closing(plan, status) = [u \in TaskIds |-> Closing(plan, status)[u]]
  BY DEF Closing

-----------------------------------------------------------------------------
(* What the writing actions do to tasks and approvals.                     *)

\* The row of a task that a plan closes, and that of a successor.
RowCloses(new, t, plan) ==
    /\ \E p \in plan : p[1] = t
    /\ IsOpen(task[t])
    /\ new \in TaskRows /\ new.version = task[t].version + 1
    /\ new.status \in {"completed", "canceled"}
    /\ new.approval = task[t].approval /\ new.from = task[t].from
    /\ (\E p \in Overtaken(plan) : p[1] = t) => new.decision = "superseded"
    /\ ~ (\E p \in Overtaken(plan) : p[1] = t) => new.decision = task[t].decision

RowMade(new, n, plan) ==
    /\ task[n] = NoTask
    /\ new \in TaskRows /\ new.version = 0 /\ new.status = "open"
    /\ Pending(new) = 0 \/ \E p \in plan : p[2] = Pending(new)

RowKept(new, t, plan) == new = task[t] /\ ~ \E p \in plan : p[1] = t

ClosesTo(tasks, plan) ==
    /\ tasks \in [TaskIds -> TaskRows]
    /\ \A t \in TaskIds : \/ RowKept(tasks[t], t, plan)
                          \/ RowCloses(tasks[t], t, plan)
                          \/ RowMade(tasks[t], t, plan)

\* Handler h closes the tasks of a plan.
ClosingStep(h, plan) ==
    /\ plan \in Plans
    /\ \A p \in plan : RefOK(p[1], p[2]) /\ IsOpen(task[p[1]]) /\ ~ Held(p[1], h)
    /\ Supersede(plan)
    /\ ClosesTo(task', plan)
    /\ request' = [request EXCEPT ![h] = Idle]

LEMMA ClosingCloses ==
    ASSUME TypeOK, NEW plan \in Plans, NEW status \in {"completed", "canceled"},
           \A p \in plan : IsOpen(task[p[1]])
    PROVE  /\ ClosesTo(Closing(plan, status), plan)
           /\ \A t \in TaskIds : \/ RowKept(Closing(plan, status)[t], t, plan)
                                 \/ RowCloses(Closing(plan, status)[t], t, plan)
<1> DEFINE C == Closing(plan, status)
<1>1. ASSUME NEW t \in TaskIds
      PROVE  /\ C[t] \in TaskRows
             /\ RowKept(C[t], t, plan) \/ RowCloses(C[t], t, plan)
  <2>1. CASE \E p \in plan : p[1] = t
    <3>1. C[t] = ClosedRow(plan, status, t) /\ IsOpen(task[t])
      BY <2>1, ClosingIs
    <3> HIDE DEF C
    <3> QED
      BY <2>1, <3>1, ClosedRowFields DEF RowCloses
  <2>2. CASE ~ \E p \in plan : p[1] = t
    BY <2>2, ClosingIs, RowTyped DEF RowKept
  <2> QED
    BY <2>1, <2>2
<1>2. C \in [TaskIds -> TaskRows]
  <2>1. C = [u \in TaskIds |-> C[u]]
    BY ClosingFunction
  <2> HIDE DEF C
  <2> QED
    BY <1>1, <2>1
<1> HIDE DEF C
<1>3. ClosesTo(C, plan)
  BY <1>1, <1>2 DEF ClosesTo
<1> QED
  BY <1>1, <1>3 DEF C

\* One more task, in a free row.
LEMMA OneMore ==
    ASSUME NEW tasks, NEW plan, ClosesTo(tasks, plan), NEW n \in TaskIds, NEW new,
           RowMade(new, n, plan)
    PROVE  ClosesTo([tasks EXCEPT ![n] = new], plan)
<1>1. [tasks EXCEPT ![n] = new] \in [TaskIds -> TaskRows]
  BY DEF ClosesTo, RowMade
<1>2. /\ [tasks EXCEPT ![n] = new][n] = new
      /\ \A t \in TaskIds : t # n => [tasks EXCEPT ![n] = new][t] = tasks[t]
  BY DEF ClosesTo
<1> QED
  BY <1>1, <1>2 DEF ClosesTo

NextFollowUp(r) ==
    [NoTask EXCEPT !.kind = "follow_up", !.status = "open", !.owner = r.seen.owner,
                   !.fine = TRUE, !.from = r.task]

LEMMA NextFollowUpMade ==
    ASSUME NEW r \in Requests, NEW n \in TaskIds, FreeTask(n), NEW plan
    PROVE  RowMade(NextFollowUp(r), n, plan) /\ NextFollowUp(r).from = r.task
<1>1. r.task \in 0 .. MaxTasks /\ r.seen \in TaskRows /\ NoTask \in TaskRows
  BY Blank DEF Requests
<1>2. r.seen.owner \in Users \cup {"none"}
  BY <1>1 DEF TaskRows
<1>3. NextFollowUp(r) \in TaskRows
  BY <1>1, <1>2 DEF TaskRows, NextFollowUp, Kinds, OpenStatuses
<1>4. /\ NextFollowUp(r).version = 0 /\ NextFollowUp(r).status = "open"
      /\ NextFollowUp(r).decision = "none" /\ NextFollowUp(r).from = r.task
  BY DEF NextFollowUp, NoTask
<1>5. Pending(NextFollowUp(r)) = 0
  BY <1>4 DEF Pending
<1> QED
  BY <1>3, <1>4, <1>5 DEF RowMade, FreeTask

LEMMA PerhapsNextIs ==
    ASSUME NEW tasks, NEW r, NEW new \in PerhapsNext(tasks, r)
    PROVE  \/ new = tasks
           \/ \E n \in TaskIds : FreeTask(n) /\ new = [tasks EXCEPT ![n] = NextFollowUp(r)]
  BY DEF PerhapsNext, NextFollowUp

Successor(r, t) ==
    [NoTask EXCEPT !.kind = "recurring", !.status = "open", !.owner = r.seen.owner,
                   !.fine = TRUE, !.from = t,
                   !.decision = SuccessorMetadata(r.seen).decision,
                   !.approval = SuccessorMetadata(r.seen).approval]

LEMMA SuccessorMade ==
    ASSUME NEW r \in Requests, NEW t \in TaskIds, NEW n \in TaskIds, FreeTask(n)
    PROVE  RowMade(Successor(r, t), n, {<<t, Pending(r.seen)>>}) /\ Successor(r, t).from = t
<1>1. r.seen \in TaskRows /\ NoTask \in TaskRows /\ t \in 0 .. MaxTasks
  BY Blank, TaskAssumption DEF Requests, TaskIds
<1>2. r.seen.owner \in Users \cup {"none"} /\ r.seen.decision \in Decisions
      /\ r.seen.approval \in 0 .. MaxApprovals
  BY <1>1 DEF TaskRows
<1>3. Successor(r, t) = [NoTask EXCEPT !.kind = "recurring", !.status = "open",
                           !.owner = r.seen.owner, !.fine = TRUE, !.from = t,
                           !.decision = r.seen.decision, !.approval = r.seen.approval]
  BY DEF Successor, SuccessorMetadata
<1>4. Successor(r, t) \in TaskRows
  BY <1>1, <1>2, <1>3 DEF TaskRows, Kinds, OpenStatuses
<1>5. /\ Successor(r, t).version = 0 /\ Successor(r, t).status = "open"
      /\ Successor(r, t).decision = r.seen.decision
      /\ Successor(r, t).approval = r.seen.approval /\ Successor(r, t).from = t
  BY <1>3 DEF NoTask
<1>6. Pending(Successor(r, t)) = Pending(r.seen)
  BY <1>5 DEF Pending
<1> QED
  BY <1>4, <1>5, <1>6 DEF RowMade, FreeTask

-----------------------------------------------------------------------------
(* The actions that close tasks.                                           *)

LEMMA Bounds ==
    /\ MaxTasks \in Nat /\ MaxApprovals \in Nat /\ 0 \notin TaskIds /\ 0 \notin ApprovalIds
    /\ TaskIds \subseteq 0 .. MaxTasks /\ ApprovalIds \subseteq 0 .. MaxApprovals
    /\ \A a \in 0 .. MaxApprovals : a # 0 => a \in ApprovalIds
    /\ TaskOps \subseteq AllOps /\ TaskOps \cap {"approve", "deny", "idle", "reconcile", "archive",
                                                "approve_archive", "deny_archive"} = {}
<1>1. MaxTasks \in Nat /\ MaxApprovals \in Nat
  BY TaskAssumption
<1>2. Changes \subseteq {"start", "snooze", "edit", "reopen", "complete", "assign"}
  BY TaskAssumption
<1> QED
  BY <1>1, <1>2 DEF TaskIds, ApprovalIds, TaskOps, AllOps

\* What a handler of a task op holds.
LEMMA TaskRequest ==
    ASSUME TypeOK, HandlersOK, RefsOK, NEW h \in Handlers, request[h].op \in TaskOps
    PROVE  LET r == request[h]
               plan == {<<r.task, Pending(r.seen)>>}
           IN  /\ r \in Requests /\ r.task \in TaskIds /\ r.seen \in TaskRows
               /\ plan \in Plans /\ RefOK(r.task, Pending(r.seen))
               /\ \A p \in plan : p = <<r.task, Pending(r.seen)>>
               /\ task[r.task].status # "none"
               /\ r.op # "reopen" => IsOpen(r.seen)
               /\ CurrentVersion(h) => r.seen = Seen(r.task)
<1> DEFINE r == request[h]
<1>1. r \in Requests /\ HandlerOK(h) /\ RefOK(r.task, Pending(r.seen))
  BY DEF HandlersOK, RefsOK
<1>2. r.task \in TaskIds /\ r.seen \in TaskRows
  BY <1>1 DEF HandlerOK, Requests
<1>3. Pending(r.seen) \in 0 .. MaxApprovals
  BY <1>2, PendingTyped
<1>4. /\ task[r.task].status # "none" /\ (r.op # "reopen" => IsOpen(r.seen))
      /\ CurrentVersion(h) => r.seen = Seen(r.task)
  BY <1>1, <1>2 DEF HandlerOK, CurrentVersion
<1> QED
  BY <1>1, <1>2, <1>3, <1>4 DEF Plans

LEMMA CompleteOp ==
    ASSUME HandlersOK, NEW h \in Handlers, request[h].op = "complete"
    PROVE  request[h].op \in TaskOps
  BY DEF HandlersOK, Requests, AllOps, TaskOps

LEMMA UpdateCloses ==
    ASSUME TypeOK, HandlersOK, RefsOK, NEW h \in Handlers, UpdateTask(h),
           request[h].op = "complete"
    PROVE  ClosingStep(h, {<<request[h].task, Pending(request[h].seen)>>})
<1> DEFINE r == request[h]
           plan == {<<r.task, Pending(r.seen)>>}
<1>1. /\ r.op \in TaskOps /\ ~ Held(r.task, h) /\ CurrentVersion(h) /\ Done(h)
      /\ task' = Closing(plan, "completed") /\ Supersede(plan)
  BY DEF UpdateTask, TaskOps
<1>2. /\ plan \in Plans /\ RefOK(r.task, Pending(r.seen)) /\ r.task \in TaskIds
      /\ \A p \in plan : p = <<r.task, Pending(r.seen)>>
      /\ IsOpen(r.seen) /\ r.seen = Seen(r.task)
  BY <1>1, TaskRequest
<1>3. IsOpen(task[r.task])
  BY <1>2, SeenTyped DEF IsOpen
<1> HIDE DEF plan, r
<1>4. \A p \in plan : RefOK(p[1], p[2]) /\ IsOpen(task[p[1]]) /\ ~ Held(p[1], h)
  BY <1>1, <1>2, <1>3
<1>5. ClosesTo(Closing(plan, "completed"), plan)
  BY <1>2, <1>4, ClosingCloses
<1>6. ClosingStep(h, plan)
  BY <1>1, <1>2, <1>4, <1>5 DEF ClosingStep, Done
<1> QED
  BY <1>6 DEF plan, r

LEMMA RecurringCloses ==
    ASSUME TypeOK, HandlersOK, RefsOK, NEW h \in Handlers, CompleteRecurring(h)
    PROVE  /\ ClosingStep(h, {<<request[h].task, Pending(request[h].seen)>>})
           /\ request[h].op = "complete" /\ request[h].task \in TaskIds
           /\ IsOpen(task[request[h].task])
<1> DEFINE r == request[h]
           plan == {<<r.task, Pending(r.seen)>>}
<1>1. /\ r.op = "complete" /\ ~ Held(r.task, h) /\ task[r.task].status = r.seen.status
      /\ Done(h) /\ Supersede(plan)
  BY DEF CompleteRecurring
<1>2. PICK n \in TaskIds : FreeTask(n)
                           /\ task' = [Closing(plan, "completed") EXCEPT ![n] = Successor(r, r.task)]
  BY DEF CompleteRecurring, Successor
<1>3. /\ plan \in Plans /\ RefOK(r.task, Pending(r.seen)) /\ r.task \in TaskIds
      /\ \A p \in plan : p = <<r.task, Pending(r.seen)>>
      /\ IsOpen(r.seen) /\ r \in Requests
  BY <1>1, CompleteOp, TaskRequest
<1>4. IsOpen(task[r.task])
  BY <1>1, <1>3 DEF IsOpen
<1>5. RowMade(Successor(r, r.task), n, plan)
  BY <1>2, <1>3, SuccessorMade
<1> HIDE DEF plan, r
<1>6. \A p \in plan : RefOK(p[1], p[2]) /\ IsOpen(task[p[1]]) /\ ~ Held(p[1], h)
  BY <1>1, <1>3, <1>4
<1>7. ClosesTo(Closing(plan, "completed"), plan)
  BY <1>3, <1>6, ClosingCloses
<1>8. ClosesTo(task', plan)
  BY <1>2, <1>5, <1>7, OneMore
<1>9. ClosingStep(h, plan)
  BY <1>1, <1>3, <1>6, <1>8 DEF ClosingStep, Done
<1> QED
  BY <1>1, <1>3, <1>4, <1>9 DEF plan, r

LEMMA FollowUpCloses ==
    ASSUME TypeOK, HandlersOK, RefsOK, NEW h \in Handlers, CompleteFollowUp(h)
    PROVE  /\ ClosingStep(h, {<<request[h].task, Pending(request[h].seen)>>})
           /\ request[h].op = "complete" /\ request[h].task \in TaskIds
           /\ IsOpen(task[request[h].task])
<1> DEFINE r == request[h]
           plan == {<<r.task, Pending(r.seen)>>}
           C == Closing(plan, "completed")
<1>1. /\ r.op = "complete" /\ ~ Held(r.task, h) /\ task[r.task].status = r.seen.status
      /\ Done(h) /\ Supersede(plan) /\ task' \in PerhapsNext(C, r)
  BY DEF CompleteFollowUp, IsFollowUp, StillSelected
<1>2. /\ plan \in Plans /\ RefOK(r.task, Pending(r.seen)) /\ r.task \in TaskIds
      /\ \A p \in plan : p = <<r.task, Pending(r.seen)>>
      /\ IsOpen(r.seen) /\ r \in Requests
  BY <1>1, CompleteOp, TaskRequest
<1>3. IsOpen(task[r.task])
  BY <1>1, <1>2 DEF IsOpen
<1> HIDE DEF plan, r, C
<1>4. \A p \in plan : RefOK(p[1], p[2]) /\ IsOpen(task[p[1]]) /\ ~ Held(p[1], h)
  BY <1>1, <1>2, <1>3
<1>5. ClosesTo(C, plan)
  BY <1>2, <1>4, ClosingCloses DEF C
<1>6. ClosesTo(task', plan)
  BY <1>1, <1>2, <1>5, PerhapsNextIs, NextFollowUpMade, OneMore
<1>7. ClosingStep(h, plan)
  BY <1>1, <1>2, <1>4, <1>6 DEF ClosingStep, Done
<1> QED
  BY <1>1, <1>2, <1>3, <1>7 DEF plan, r

\* A task is closed alike in a plan that has more about other tasks.
LEMMA Widen ==
    ASSUME NEW plan, NEW wide, NEW t, NEW new, plan \subseteq wide,
           \A p \in wide : p[1] = t => p \in plan
    PROVE  /\ RowKept(new, t, plan) => RowKept(new, t, wide)
           /\ RowCloses(new, t, plan) => RowCloses(new, t, wide)
<1>1. (\E p \in plan : p[1] = t) <=> \E p \in wide : p[1] = t
  OBVIOUS
<1>2. (\E p \in Overtaken(plan) : p[1] = t) <=> \E p \in Overtaken(wide) : p[1] = t
  BY DEF Overtaken
<1>3. RowKept(new, t, plan) => RowKept(new, t, wide)
  BY <1>1 DEF RowKept
<1>4. RowCloses(new, t, plan) => RowCloses(new, t, wide)
  BY <1>1, <1>2 DEF RowCloses
<1> QED
  BY <1>3, <1>4

\* What is left of a plan.
LEMMA RestOfPlan ==
    ASSUME RefsOK, HandlersOK, NEW h \in Handlers,
           \A p \in request[h].plan : ~ Held(p[1], h)
    PROVE  LET rest == StillOpen(request[h].plan) IN
           /\ rest \in Plans
           /\ \A p \in rest : RefOK(p[1], p[2]) /\ IsOpen(task[p[1]]) /\ ~ Held(p[1], h)
<1>1. request[h].plan \in Plans
  BY DEF HandlersOK, Requests
<1> QED
  BY <1>1 DEF StillOpen, RefsOK, Plans

LEMMA FinishCloses ==
    ASSUME TypeOK, HandlersOK, RefsOK, NEW h \in Handlers, FinishFollowUp(h)
    PROVE  /\ ClosingStep(h, {<<request[h].task, Pending(request[h].seen)>>}
                               \cup StillOpen(request[h].plan))
           /\ request[h].op = "complete" /\ request[h].task \in TaskIds
           /\ IsOpen(task[request[h].task])
<1> DEFINE r == request[h]
           own == {<<r.task, Pending(r.seen)>>}
           rest == StillOpen(r.plan)
           plan == own \cup rest
           C == Closing(own, "completed")
           R == Closing(rest, "canceled")
           F == [R EXCEPT ![r.task] = C[r.task]]
<1>1. /\ r.holding /\ Done(h) /\ Supersede(plan) /\ task' \in PerhapsNext(F, r)
      /\ \A p \in r.plan : ~ Held(p[1], h)
  BY DEF FinishFollowUp
<1>2. /\ r.op = "complete" /\ task[r.task].status = r.seen.status
      /\ \A p \in r.plan : p[1] # r.task
      /\ \A g \in Handlers \ {h} : request[g].holding => request[g].task # r.task
  BY <1>1 DEF HandlersOK, HandlerOK
<1>3. /\ own \in Plans /\ RefOK(r.task, Pending(r.seen)) /\ r.task \in TaskIds
      /\ \A p \in own : p = <<r.task, Pending(r.seen)>>
      /\ IsOpen(r.seen) /\ r \in Requests
  BY <1>2, CompleteOp, TaskRequest
<1>4. IsOpen(task[r.task]) /\ ~ Held(r.task, h)
  BY <1>2, <1>3 DEF IsOpen, Held
<1>5. /\ rest \in Plans
      /\ \A p \in rest : RefOK(p[1], p[2]) /\ IsOpen(task[p[1]]) /\ ~ Held(p[1], h)
  BY <1>1, RestOfPlan
<1>6. \A p \in rest : p[1] # r.task
  BY <1>2 DEF StillOpen
<1> HIDE DEF own, rest, r, F, C, R
<1>7. \A p \in own : RefOK(p[1], p[2]) /\ IsOpen(task[p[1]]) /\ ~ Held(p[1], h) /\ p[1] = r.task
  BY <1>3, <1>4
<1>8. /\ C \in [TaskIds -> TaskRows] /\ R \in [TaskIds -> TaskRows]
      /\ \A t \in TaskIds : /\ RowKept(C[t], t, own) \/ RowCloses(C[t], t, own)
                            /\ RowKept(R[t], t, rest) \/ RowCloses(R[t], t, rest)
  BY <1>3, <1>5, <1>7, ClosingCloses DEF ClosesTo, C, R
<1>9. /\ F \in [TaskIds -> TaskRows] /\ F[r.task] = C[r.task]
      /\ \A t \in TaskIds : t # r.task => F[t] = R[t]
  BY <1>3, <1>8 DEF F
<1>10. ASSUME NEW t \in TaskIds
       PROVE  RowKept(F[t], t, plan) \/ RowCloses(F[t], t, plan)
  <2>1. CASE t = r.task
    <3>1. \A p \in plan : p[1] = t => p \in own
      BY <1>6, <2>1
    <3>2. own \subseteq plan
      OBVIOUS
    <3> HIDE DEF plan
    <3> QED
      BY <1>8, <1>9, <2>1, <3>1, <3>2, Widen
  <2>2. CASE t # r.task
    <3>1. \A p \in plan : p[1] = t => p \in rest
      BY <1>7, <2>2
    <3>2. rest \subseteq plan
      OBVIOUS
    <3> HIDE DEF plan
    <3> QED
      BY <1>8, <1>9, <2>2, <3>1, <3>2, Widen
  <2> QED
    BY <2>1, <2>2
<1>11. /\ plan \in Plans
       /\ \A p \in plan : RefOK(p[1], p[2]) /\ IsOpen(task[p[1]]) /\ ~ Held(p[1], h)
  BY <1>3, <1>5, <1>7 DEF Plans
<1> HIDE DEF plan
<1>12. ClosesTo(F, plan)
  BY <1>9, <1>10 DEF ClosesTo
<1>13. ClosesTo(task', plan)
  BY <1>1, <1>3, <1>12, PerhapsNextIs, NextFollowUpMade, OneMore
<1>14. ClosingStep(h, plan)
  BY <1>1, <1>11, <1>13 DEF ClosingStep, Done
<1> QED
  BY <1>2, <1>3, <1>4, <1>14 DEF own, rest, r, plan

LEMMA ReconcileCloses ==
    ASSUME TypeOK, HandlersOK, RefsOK, NEW h \in Handlers, Reconcile(h)
    PROVE  ClosingStep(h, StillOpen(request[h].plan))
<1> DEFINE rest == StillOpen(request[h].plan)
<1>1. /\ Done(h) /\ Supersede(rest) /\ task' = Closing(rest, "canceled")
      /\ \A p \in request[h].plan : ~ Held(p[1], h)
  BY DEF Reconcile
<1>2. /\ rest \in Plans
      /\ \A p \in rest : RefOK(p[1], p[2]) /\ IsOpen(task[p[1]]) /\ ~ Held(p[1], h)
  BY <1>1, RestOfPlan
<1> HIDE DEF rest
<1>3. ClosesTo(Closing(rest, "canceled"), rest)
  BY <1>2, ClosingCloses
<1>4. ClosingStep(h, rest)
  BY <1>1, <1>2, <1>3 DEF ClosingStep, Done
<1> QED
  BY <1>4 DEF rest

-----------------------------------------------------------------------------
(* The actions that change one task at a time, and no approval.            *)

\* A closed task changes its status by a reopening of who saw it.
RowEdited(new, t) ==
    /\ task[t].status # "none" /\ new.status # "none"
    /\ new \in TaskRows /\ new.version = task[t].version + 1
    /\ new.decision = task[t].decision /\ new.approval = task[t].approval
    /\ new.from = task[t].from
    /\ \/ new.status = task[t].status \/ IsOpen(task[t])
       \/ /\ new.status = "open"
          /\ \E h \in Handlers : request[h].op = "reopen" /\ request[h].task = t
                                 /\ request[h].seen = Seen(t)

\* Handlers go on as they are, or are done, and who goes on does not hold t.
NobodyGoesOnWith(t) == \A g \in Handlers : request'[g].holding => request'[g].task # t

HandlersEnd ==
    /\ request' \in [Handlers -> Requests]
    /\ \A g \in Handlers : request'[g] \in {request[g], Idle}

EditStep ==
    /\ UNCHANGED <<approval, told, completed>>
    /\ HandlersEnd
    /\ task' \in [TaskIds -> TaskRows]
    /\ \A t \in TaskIds : task'[t] = task[t] \/ (RowEdited(task'[t], t) /\ NobodyGoesOnWith(t))

LEMMA OneEnds ==
    ASSUME HandlersOK, NEW h \in Handlers, request' = [request EXCEPT ![h] = Idle]
    PROVE  /\ HandlersEnd
           /\ request'[h] = Idle /\ \A g \in Handlers \ {h} : request'[g] = request[g]
           /\ \A t \in TaskIds : ~ Held(t, h) => NobodyGoesOnWith(t)
<1>1. request' \in [Handlers -> Requests]
  BY Blank DEF HandlersOK
<1>2. request'[h] = Idle /\ \A g \in Handlers \ {h} : request'[g] = request[g]
  BY DEF HandlersOK
<1> QED
  BY <1>1, <1>2, Blank DEF HandlersEnd, NobodyGoesOnWith, Held

LEMMA EditedRow ==
    ASSUME NEW row \in TaskRows, NEW op \in Changes \ {"complete"}, NEW owner \in Users \cup {"none"},
           row.status # "none"
    PROVE  LET new == Edited(row, op, owner) IN
           /\ new \in TaskRows /\ new.version = row.version + 1 /\ new.status # "none"
           /\ new.decision = row.decision /\ new.approval = row.approval /\ new.from = row.from
           /\ op = "reopen" => new.status = "open"
           /\ op = "assign" => new.status = row.status
<1> DEFINE w == Written(row)
           status == IF op = "assign" THEN w.status ELSE StatusAfter(op, w.status)
<1>1. /\ w \in TaskRows /\ w.version = row.version + 1 /\ w.status = row.status
      /\ w.decision = row.decision /\ w.approval = row.approval /\ w.from = row.from
  BY WrittenRow
<1>2. op \in {"start", "snooze", "edit", "reopen", "assign"}
  BY TaskAssumption
<1>3. /\ status \in OpenStatuses \cup {"completed", "canceled"}
      /\ op = "reopen" => status = "open"
      /\ op = "assign" => status = row.status
  <2>1. row.status \in OpenStatuses \cup {"completed", "canceled"}
    BY DEF TaskRows
  <2>2. /\ StatusAfter("start", row.status) = "in_progress"
        /\ StatusAfter("snooze", row.status) = "snoozed"
        /\ StatusAfter("edit", row.status) = row.status
        /\ StatusAfter("reopen", row.status) = "open"
    BY DEF StatusAfter
  <2> QED
    BY <1>1, <1>2, <2>1, <2>2 DEF OpenStatuses
<1>4. Edited(row, op, owner) = [w EXCEPT !.owner = owner, !.status = status]
  BY DEF Edited
<1> HIDE DEF w, status
<1>5. [w EXCEPT !.owner = owner, !.status = status] \in TaskRows
  BY <1>1, <1>3 DEF TaskRows
<1>6. LET new == [w EXCEPT !.owner = owner, !.status = status] IN
      /\ new.version = w.version /\ new.status = status /\ new.decision = w.decision
      /\ new.approval = w.approval /\ new.from = w.from
  BY <1>1 DEF TaskRows
<1>7. status # "none"
  BY <1>3 DEF OpenStatuses
<1> QED
  BY <1>1, <1>3, <1>4, <1>5, <1>6, <1>7

LEMMA UpdateEdits ==
    ASSUME TypeOK, HandlersOK, RefsOK, NEW h \in Handlers, UpdateTask(h),
           request[h].op # "complete"
    PROVE  EditStep
<1> DEFINE r == request[h]
           t == r.task
<1>1. /\ r.op \in TaskOps /\ r.op \in Changes \ {"complete"} /\ ~ Held(t, h)
      /\ CurrentVersion(h) /\ Done(h) /\ UNCHANGED <<approval, told, completed>>
  BY DEF UpdateTask, TaskOps
<1>2. PICK owner \in IF r.op = "assign" THEN Users ELSE {task[t].owner} :
           task' = [task EXCEPT ![t] = Edited(task[t], r.op, owner)]
  BY <1>1 DEF UpdateTask
<1>3. /\ t \in TaskIds /\ task[t].status # "none"
      /\ r.op # "reopen" => IsOpen(r.seen)
      /\ r.seen = Seen(t)
  BY <1>1, TaskRequest
<1>4. task[t] \in TaskRows /\ task \in [TaskIds -> TaskRows]
      /\ Seen(t).status = task[t].status
  BY <1>3, SeenTyped DEF TypeOK
<1>5. owner \in Users \cup {"none"}
  BY <1>2, <1>4 DEF TaskRows
<1> DEFINE new == Edited(task[t], r.op, owner)
<1>6. RowEdited(new, t)
  <2>1. /\ new \in TaskRows /\ new.version = task[t].version + 1 /\ new.status # "none"
        /\ new.decision = task[t].decision /\ new.approval = task[t].approval
        /\ new.from = task[t].from
        /\ r.op = "reopen" => new.status = "open"
        /\ r.op = "assign" => new.status = task[t].status
    BY <1>1, <1>3, <1>4, <1>5, EditedRow
  <2>2. r.op = "reopen" \/ IsOpen(task[t])
    BY <1>3, <1>4 DEF IsOpen
  <2> HIDE DEF new
  <2> QED
    BY <1>3, <2>1, <2>2 DEF RowEdited
<1>7. /\ task' \in [TaskIds -> TaskRows] /\ task'[t] = new
      /\ \A u \in TaskIds : u # t => task'[u] = task[u]
  <2>1. new \in TaskRows /\ task' = [task EXCEPT ![t] = new]
    BY <1>2, <1>6 DEF RowEdited
  <2> HIDE DEF new
  <2> QED
    BY <1>3, <1>4, <2>1
<1>8. HandlersEnd /\ NobodyGoesOnWith(t)
  BY <1>1, <1>3, OneEnds DEF Done
<1> QED
  BY <1>1, <1>6, <1>7, <1>8 DEF EditStep

LEMMA CancelEdits ==
    ASSUME TypeOK, HandlersOK, RefsOK, NEW h \in Handlers, CancelTaskDirectly(h)
    PROVE  EditStep
<1> DEFINE r == request[h]
           t == r.task
           new == [Written(task[t]) EXCEPT !.status = "canceled"]
<1>1. /\ r.op = "cancel" /\ r.op \in TaskOps /\ ~ Held(t, h) /\ CancelMatches(h) /\ Done(h)
      /\ task' = [task EXCEPT ![t] = new] /\ UNCHANGED <<approval, told, completed>>
  BY DEF CancelTaskDirectly, TaskOps
<1>2. t \in TaskIds /\ task[t].status # "none" /\ IsOpen(r.seen)
  BY <1>1, TaskRequest
<1>3. IsOpen(task[t])
  BY <1>1, <1>2 DEF CancelMatches, IsOpen
<1>4. task[t] \in TaskRows /\ task \in [TaskIds -> TaskRows]
  BY <1>2 DEF TypeOK
<1>5. RowEdited(new, t)
  <2>1. /\ Written(task[t]) \in TaskRows /\ Written(task[t]).version = task[t].version + 1
        /\ Written(task[t]).decision = task[t].decision
        /\ Written(task[t]).approval = task[t].approval
        /\ Written(task[t]).from = task[t].from
    BY <1>4, WrittenRow
  <2>2. /\ new \in TaskRows /\ new.version = task[t].version + 1 /\ new.status = "canceled"
        /\ new.decision = task[t].decision /\ new.approval = task[t].approval
        /\ new.from = task[t].from
    BY <2>1 DEF TaskRows
  <2> HIDE DEF new
  <2> QED
    BY <1>2, <1>3, <2>2 DEF RowEdited
<1>6. /\ task' \in [TaskIds -> TaskRows] /\ task'[t] = new
      /\ \A u \in TaskIds : u # t => task'[u] = task[u]
  <2>1. new \in TaskRows
    BY <1>5 DEF RowEdited
  <2> HIDE DEF new
  <2> QED
    BY <1>1, <1>2, <1>4, <2>1
<1>7. HandlersEnd /\ NobodyGoesOnWith(t)
  BY <1>1, <1>2, OneEnds DEF Done
<1> QED
  BY <1>1, <1>5, <1>6, <1>7 DEF EditStep

LEMMA SyncEdits ==
    ASSUME TypeOK, HandlersOK, SyncOwner
    PROVE  EditStep
<1>1. PICK owner \in Users :
        LET moved == {p[1] : p \in {p \in Plan(0) : task[p[1]].owner # owner}} IN
        /\ \A t \in moved, h \in Handlers : ~ (request[h].holding /\ request[h].task = t)
        /\ task' = [t \in TaskIds |-> IF t \in moved
                                      THEN [Written(task[t]) EXCEPT !.owner = owner]
                                      ELSE task[t]]
  BY DEF SyncOwner
<1> DEFINE moved == {p[1] : p \in {p \in Plan(0) : task[p[1]].owner # owner}}
<1>2. UNCHANGED <<approval, told, completed, request>>
  BY DEF SyncOwner
<1>3. \A t \in moved : t \in TaskIds /\ IsOpen(task[t])
  BY DEF Plan
<1> HIDE DEF moved
<1>4. ASSUME NEW t \in TaskIds
      PROVE  /\ task'[t] \in TaskRows
             /\ task'[t] = task[t] \/ (RowEdited(task'[t], t) /\ NobodyGoesOnWith(t))
  <2>1. CASE t \in moved
    <3> DEFINE new == [Written(task[t]) EXCEPT !.owner = owner]
    <3>1. /\ Written(task[t]) \in TaskRows /\ Written(task[t]).version = task[t].version + 1
          /\ Written(task[t]).decision = task[t].decision
          /\ Written(task[t]).approval = task[t].approval
          /\ Written(task[t]).from = task[t].from
          /\ Written(task[t]).status = task[t].status
      BY RowTyped, WrittenRow
    <3>2. /\ new \in TaskRows /\ new.version = task[t].version + 1
          /\ new.status = task[t].status
          /\ new.decision = task[t].decision /\ new.approval = task[t].approval
          /\ new.from = task[t].from
      BY <3>1 DEF TaskRows
    <3>3. task'[t] = new
      BY <1>1, <2>1 DEF moved
    <3>4. task[t].status # "none"
      BY <1>3, <2>1 DEF IsOpen, OpenStatuses
    <3>5. NobodyGoesOnWith(t)
      BY <1>1, <1>2, <2>1 DEF NobodyGoesOnWith, moved
    <3> HIDE DEF new
    <3> QED
      BY <3>2, <3>3, <3>4, <3>5 DEF RowEdited
  <2>2. CASE t \notin moved
    <3>1. task'[t] = task[t]
      BY <1>1, <2>2 DEF moved
    <3> QED
      BY <3>1, RowTyped
  <2> QED
    BY <2>1, <2>2
<1>5. task' \in [TaskIds -> TaskRows]
  <2>1. task' = [t \in TaskIds |-> task'[t]]
    BY <1>1
  <2> QED
    BY <1>4, <2>1
<1>6. HandlersEnd
  BY <1>2 DEF HandlersEnd, HandlersOK
<1> QED
  BY <1>2, <1>4, <1>5, <1>6 DEF EditStep

-----------------------------------------------------------------------------
(* The approvals.                                                          *)

\* One row is written, under its lock.
OneRow(t, new) ==
    /\ t \in TaskIds /\ task[t].status # "none"
    /\ new \in TaskRows /\ new.version = task[t].version + 1
    /\ new.status # "none" /\ new.from = task[t].from
    /\ task' = [task EXCEPT ![t] = new]
    /\ HandlersEnd /\ NobodyGoesOnWith(t)

RequestStep ==
    \E t \in TaskIds, a \in ApprovalIds, new \in TaskRows :
      /\ OneRow(t, new) /\ new.status = task[t].status
      /\ new.decision = "pending" /\ new.approval = a
      /\ IsOpen(task[t]) /\ OpenApprovals(t) = {}
      /\ approval[a] = NoApproval
      /\ approval' = [approval EXCEPT ![a] =
           [status |-> "open", decision |-> "pending", target |-> t]]
      /\ UNCHANGED told

DecideStep ==
    \E t \in TaskIds, a \in ApprovalIds, new \in TaskRows,
       status \in {"completed", "canceled"}, decision \in {"approved", "denied", "superseded"} :
      /\ OneRow(t, new)
      /\ new.status = task[t].status \/ IsOpen(task[t])
      /\ new.decision = decision
      /\ approval[a].status = "open" /\ approval[a].target = t
      /\ Decide(a, status, decision)

LEMMA RequestSteps ==
    ASSUME TypeOK, HandlersOK, RefsOK, NEW h \in Handlers, RequestRemoval(h)
    PROVE  RequestStep
<1> DEFINE t == request[h].task
<1>1. /\ request[h].op = "request" /\ request[h].op \in TaskOps /\ ~ Held(t, h)
      /\ IsOpen(task[t]) /\ OpenApprovals(t) = {} /\ Done(h) /\ UNCHANGED told
  BY DEF RequestRemoval, Requestable, TaskOps
<1>2. PICK a \in ApprovalIds :
        /\ approval[a] = NoApproval
        /\ approval' = [approval EXCEPT ![a] =
             [status |-> "open", decision |-> "pending", target |-> t]]
        /\ task' = [task EXCEPT ![t] =
             [Written(task[t]) EXCEPT !.decision = "pending", !.approval = a]]
  BY DEF RequestRemoval
<1> DEFINE new == [Written(task[t]) EXCEPT !.decision = "pending", !.approval = a]
<1>3. t \in TaskIds /\ task[t].status # "none"
  BY <1>1, TaskRequest
<1>4. /\ new \in TaskRows /\ new.version = task[t].version + 1
      /\ new.status = task[t].status /\ new.from = task[t].from
      /\ new.decision = "pending" /\ new.approval = a
  <2> DEFINE w == Written(task[t])
  <2>1. /\ w \in TaskRows /\ w.version = task[t].version + 1
        /\ w.status = task[t].status /\ w.from = task[t].from
    BY <1>3, RowTyped, WrittenRow
  <2>2. a \in 0 .. MaxApprovals
    BY Bounds
  <2> HIDE DEF w
  <2>3. [w EXCEPT !.decision = "pending", !.approval = a] \in TaskRows
    BY <2>1, <2>2 DEF TaskRows, Decisions
  <2>4. LET n == [w EXCEPT !.decision = "pending", !.approval = a] IN
        /\ n.version = w.version /\ n.status = w.status /\ n.from = w.from
        /\ n.decision = "pending" /\ n.approval = a
    BY <2>1 DEF TaskRows
  <2> QED
    BY <2>1, <2>3, <2>4 DEF w
<1>5. HandlersEnd /\ NobodyGoesOnWith(t)
  BY <1>1, <1>3, OneEnds DEF Done
<1> HIDE DEF new
<1>6. OneRow(t, new)
  BY <1>2, <1>3, <1>4, <1>5 DEF OneRow, new
<1> QED
  BY <1>1, <1>2, <1>3, <1>4, <1>6 DEF RequestStep

\* What a decision makes of the row.
Decided(row, a, decision, new) ==
    \/ new = [Written(row) EXCEPT !.decision = decision, !.approval = a]
    \/ new = [Written(row) EXCEPT !.decision = decision]
    \/ /\ new = [Written(row) EXCEPT !.status = "canceled", !.decision = decision]
       /\ IsOpen(row)

LEMMA DecidedRow ==
    ASSUME NEW row \in TaskRows, NEW a \in ApprovalIds, row.status # "none",
           NEW decision \in {"approved", "denied", "superseded"}, NEW new,
           Decided(row, a, decision, new)
    PROVE  /\ new \in TaskRows /\ new.version = row.version + 1 /\ new.status # "none"
           /\ new.from = row.from /\ new.decision = decision
           /\ new.status = row.status \/ IsOpen(row)
<1> DEFINE w == Written(row)
<1>1. /\ w \in TaskRows /\ w.version = row.version + 1
      /\ w.status = row.status /\ w.from = row.from
  BY WrittenRow
<1>2. a \in 0 .. MaxApprovals
  BY Bounds
<1>3. decision \in Decisions
  BY DEF Decisions
<1> HIDE DEF w
<1> DEFINE one == [w EXCEPT !.decision = decision, !.approval = a]
           two == [w EXCEPT !.decision = decision]
           three == [w EXCEPT !.status = "canceled", !.decision = decision]
<1>4. one \in TaskRows /\ two \in TaskRows /\ three \in TaskRows
  BY <1>1, <1>2, <1>3 DEF TaskRows
<1>5. /\ one.version = w.version /\ two.version = w.version /\ three.version = w.version
      /\ one.from = w.from /\ two.from = w.from /\ three.from = w.from
      /\ one.decision = decision /\ two.decision = decision /\ three.decision = decision
      /\ one.status = w.status /\ two.status = w.status /\ three.status = "canceled"
  BY <1>1 DEF TaskRows
<1>6. new = one \/ new = two \/ (new = three /\ IsOpen(row))
  BY DEF Decided, w
<1> HIDE DEF one, two, three
<1> QED
  BY <1>1, <1>4, <1>5, <1>6

Decides(t, a, new, status, decision) ==
    /\ Decide(a, status, decision)
    /\ task' = [task EXCEPT ![t] = new]
    /\ Decided(task[t], a, decision, new)

LEMMA DecideSteps ==
    ASSUME TypeOK, HandlersOK, RowsOK, NEW h \in Handlers, DecideRemoval(h)
    PROVE  DecideStep
<1> DEFINE a == request[h].approval
           t == approval[a].target
<1>1. /\ request[h].op \in {"approve", "deny"} /\ ~ Held(t, h)
      /\ approval[a].status = "open" /\ Done(h)
  BY DEF DecideRemoval
<1>2. a \in ApprovalIds
  BY <1>1 DEF HandlersOK, HandlerOK
<1>3. t \in TaskIds /\ task[t].status # "none"
  BY <1>1, <1>2 DEF RowsOK
<1>4. task[t] \in TaskRows
  BY <1>3, RowTyped
<1>5. HandlersEnd /\ NobodyGoesOnWith(t)
  BY <1>1, <1>3, OneEnds DEF Done
<1>6. \E new : \E status \in {"completed", "canceled"},
                    decision \in {"approved", "denied", "superseded"} :
         Decides(t, a, new, status, decision)
  <2>1. CASE ~ IsOpen(task[t])
    <3> DEFINE new == [Written(task[t]) EXCEPT !.decision = "superseded", !.approval = a]
    <3>1. Decides(t, a, new, "canceled", "superseded")
      BY <2>1 DEF DecideRemoval, Decides, Decided
    <3> HIDE DEF new
    <3> QED
      BY <3>1
  <2>2. CASE IsOpen(task[t]) /\ request[h].op = "approve"
    <3> DEFINE new == [Written(task[t]) EXCEPT !.status = "canceled", !.decision = "approved"]
    <3>1. Decides(t, a, new, "completed", "approved")
      BY <2>2 DEF DecideRemoval, Decides, Decided
    <3> HIDE DEF new
    <3> QED
      BY <3>1
  <2>3. CASE IsOpen(task[t]) /\ request[h].op = "deny"
    <3> DEFINE new == [Written(task[t]) EXCEPT !.decision = "denied"]
    <3>1. Decides(t, a, new, "canceled", "denied")
      BY <2>3 DEF DecideRemoval, Decides, Decided
    <3> HIDE DEF new
    <3> QED
      BY <3>1
  <2> QED
    BY <1>1, <2>1, <2>2, <2>3
<1> HIDE DEF a, t
<1>7. PICK new : \E status \in {"completed", "canceled"},
                      decision \in {"approved", "denied", "superseded"} :
           Decides(t, a, new, status, decision)
  BY <1>6
<1>8. PICK status \in {"completed", "canceled"},
            decision \in {"approved", "denied", "superseded"} :
           Decides(t, a, new, status, decision)
  BY <1>7
<1>9. /\ new \in TaskRows /\ new.version = task[t].version + 1 /\ new.status # "none"
      /\ new.from = task[t].from /\ new.decision = decision
      /\ new.status = task[t].status \/ IsOpen(task[t])
  <2>1. Decided(task[t], a, decision, new)
    BY <1>8 DEF Decides
  <2> QED
    BY <1>2, <1>3, <1>4, <2>1, DecidedRow
<1>10. task' = [task EXCEPT ![t] = new] /\ Decide(a, status, decision)
  BY <1>8 DEF Decides
<1>11. OneRow(t, new)
  BY <1>3, <1>5, <1>9, <1>10 DEF OneRow
<1>12. approval[a].target = t
  BY DEF t
<1>13. approval[a].status = "open"
  BY <1>1 DEF a
<1> QED
  BY <1>2, <1>3, <1>9, <1>10, <1>11, <1>12, <1>13 DEF DecideStep

-----------------------------------------------------------------------------
(* How a row, an approval and a handler may go on.                         *)

RowGoesOn(t) ==
    \/ task'[t] = task[t]
    \/ task[t] = NoTask /\ task'[t].status # "none"
    \/ /\ task[t].status # "none" /\ task'[t].status # "none"
       /\ task'[t].version = task[t].version + 1 /\ NobodyGoesOnWith(t)

ApprovalGoesOn(a) ==
    /\ approval[a].status # "none" =>
         /\ approval'[a].status # "none" /\ approval'[a].target = approval[a].target
         /\ approval'[a].status = "open" => approval[a].status = "open"
    /\ approval[a].status = "none" /\ approval'[a].status # "none" =>
         approval'[a].target \in TaskIds /\ task[approval'[a].target].status # "none"

GoesOn ==
    /\ HandlersEnd
    /\ task' \in [TaskIds -> TaskRows] /\ approval' \in [ApprovalIds -> ApprovalRows]
    /\ \A t \in TaskIds : RowGoesOn(t)
    /\ \A a \in ApprovalIds : ApprovalGoesOn(a)

Gone(plan) == {p[2] : p \in Overtaken(plan)}

LEMMA GoneAre ==
    ASSUME NEW plan, \A p \in plan : RefOK(p[1], p[2])
    PROVE  /\ Gone(plan) \subseteq ApprovalIds
           /\ \A p \in Overtaken(plan) :
                p \in plan /\ p[2] \in Gone(plan) /\ approval[p[2]].target = p[1]
                /\ approval[p[2]].status = "open"
           /\ \A a \in Gone(plan) : \E p \in Overtaken(plan) : p[2] = a
<1>1. \A p \in Overtaken(plan) : p \in plan /\ p[2] # 0 /\ approval[p[2]].status = "open"
  BY DEF Overtaken
<1>2. \A p \in Overtaken(plan) : p[2] \in ApprovalIds /\ approval[p[2]].target = p[1]
  BY <1>1 DEF RefOK
<1> QED
  BY <1>1, <1>2 DEF Gone

LEMMA Superseding ==
    ASSUME TypeOK, NEW plan, \A p \in plan : RefOK(p[1], p[2]), Supersede(plan)
    PROVE  /\ approval' \in [ApprovalIds -> ApprovalRows]
           /\ \A a \in Gone(plan) :
                /\ approval[a].status = "open" /\ approval'[a].status = "canceled"
                /\ approval'[a].decision = "superseded"
                /\ approval'[a].target = approval[a].target
           /\ \A a \in ApprovalIds \ Gone(plan) : approval'[a] = approval[a]
           /\ told' = told \cup {<<a, "superseded">> : a \in Gone(plan)}
<1>1. /\ approval' = [a \in ApprovalIds |->
           IF a \in Gone(plan)
           THEN [approval[a] EXCEPT !.status = "canceled", !.decision = "superseded"]
           ELSE approval[a]]
      /\ told' = told \cup {<<a, "superseded">> : a \in Gone(plan)}
  BY DEF Supersede, Gone
<1>2. approval \in [ApprovalIds -> ApprovalRows]
  BY DEF TypeOK, ApprovalRows
<1>3. ASSUME NEW a \in ApprovalIds
      PROVE  LET row == [approval[a] EXCEPT !.status = "canceled", !.decision = "superseded"] IN
             /\ row \in ApprovalRows /\ row.status = "canceled"
             /\ row.decision = "superseded" /\ row.target = approval[a].target
  BY <1>2 DEF ApprovalRows, Decisions
<1>4. approval' \in [ApprovalIds -> ApprovalRows]
  BY <1>1, <1>2, <1>3
<1>5. \A a \in Gone(plan) : a \in ApprovalIds /\ approval[a].status = "open"
  BY GoneAre
<1> HIDE DEF Gone
<1> QED
  BY <1>1, <1>3, <1>4, <1>5

LEMMA ClosingGoesOn ==
    ASSUME TypeOK, HandlersOK, NEW h \in Handlers, NEW plan, ClosingStep(h, plan)
    PROVE  GoesOn
<1>1. /\ \A p \in plan : RefOK(p[1], p[2]) /\ ~ Held(p[1], h)
      /\ Supersede(plan) /\ ClosesTo(task', plan)
      /\ request' = [request EXCEPT ![h] = Idle]
  BY DEF ClosingStep
<1>2. HandlersEnd /\ \A t \in TaskIds : ~ Held(t, h) => NobodyGoesOnWith(t)
  BY <1>1, OneEnds
<1>3. ASSUME NEW t \in TaskIds PROVE RowGoesOn(t)
  <2>1. CASE RowKept(task'[t], t, plan)
    BY <2>1 DEF RowKept, RowGoesOn
  <2>2. CASE RowCloses(task'[t], t, plan)
    <3>1. ~ Held(t, h)
      BY <1>1, <2>2 DEF RowCloses
    <3>2. task[t].status # "none" /\ task'[t].status # "none"
      BY <2>2 DEF RowCloses, IsOpen, OpenStatuses
    <3> QED
      BY <1>2, <2>2, <3>1, <3>2 DEF RowCloses, RowGoesOn
  <2>3. CASE RowMade(task'[t], t, plan)
    BY <2>3 DEF RowMade, RowGoesOn
  <2> QED
    BY <1>1, <2>1, <2>2, <2>3 DEF ClosesTo
<1>4. /\ approval' \in [ApprovalIds -> ApprovalRows]
      /\ \A a \in ApprovalIds : ApprovalGoesOn(a)
  BY <1>1, Superseding DEF ApprovalGoesOn
<1> QED
  BY <1>1, <1>2, <1>3, <1>4 DEF GoesOn, ClosesTo

LEMMA EditGoesOn ==
    ASSUME TypeOK, EditStep
    PROVE  GoesOn
<1>1. approval' \in [ApprovalIds -> ApprovalRows] /\ approval' = approval
  BY DEF EditStep, TypeOK, ApprovalRows
<1>2. \A a \in ApprovalIds : ApprovalGoesOn(a)
  BY <1>1 DEF ApprovalGoesOn
<1>3. \A t \in TaskIds : RowGoesOn(t)
  BY DEF EditStep, RowGoesOn, RowEdited
<1> QED
  BY <1>1, <1>2, <1>3 DEF GoesOn, EditStep

LEMMA OneRowGoesOn ==
    ASSUME TypeOK, NEW t, NEW new, OneRow(t, new)
    PROVE  /\ HandlersEnd /\ task' \in [TaskIds -> TaskRows]
           /\ task'[t] = new /\ \A u \in TaskIds \ {t} : task'[u] = task[u]
           /\ \A u \in TaskIds : RowGoesOn(u)
<1>1. task \in [TaskIds -> TaskRows] /\ t \in TaskIds /\ new \in TaskRows
      /\ task' = [task EXCEPT ![t] = new]
  BY DEF TypeOK, OneRow
<1>2. /\ task' \in [TaskIds -> TaskRows] /\ task'[t] = new
      /\ \A u \in TaskIds \ {t} : task'[u] = task[u]
  BY <1>1
<1> QED
  BY <1>1, <1>2 DEF OneRow, RowGoesOn

LEMMA RequestGoesOn ==
    ASSUME TypeOK, RequestStep
    PROVE  GoesOn
<1>1. PICK t \in TaskIds, a \in ApprovalIds, new \in TaskRows :
        /\ OneRow(t, new)
        /\ approval[a] = NoApproval
        /\ approval' = [approval EXCEPT ![a] =
             [status |-> "open", decision |-> "pending", target |-> t]]
  BY DEF RequestStep
<1>2. approval \in [ApprovalIds -> ApprovalRows]
  BY DEF TypeOK, ApprovalRows
<1> DEFINE row == [status |-> "open", decision |-> "pending", target |-> t]
<1>3. row \in ApprovalRows /\ row.status = "open" /\ row.target = t
  BY Bounds DEF ApprovalRows, Decisions
<1>4. approval' = [approval EXCEPT ![a] = row]
  BY <1>1
<1> HIDE DEF row
<1>5. /\ approval' \in [ApprovalIds -> ApprovalRows] /\ approval'[a] = row
      /\ \A b \in ApprovalIds \ {a} : approval'[b] = approval[b]
  BY <1>2, <1>3, <1>4
<1>6. task[t].status # "none" /\ approval[a].status = "none"
  BY <1>1, Blank DEF OneRow
<1>7. \A b \in ApprovalIds : ApprovalGoesOn(b)
  BY <1>3, <1>5, <1>6 DEF ApprovalGoesOn
<1>8. /\ HandlersEnd /\ task' \in [TaskIds -> TaskRows]
      /\ \A u \in TaskIds : RowGoesOn(u)
  BY <1>1, OneRowGoesOn
<1> QED
  BY <1>5, <1>7, <1>8 DEF GoesOn

LEMMA Deciding ==
    ASSUME TypeOK, NEW a \in ApprovalIds, NEW status \in {"completed", "canceled"},
           NEW decision \in {"approved", "denied", "superseded"}, Decide(a, status, decision)
    PROVE  /\ approval' \in [ApprovalIds -> ApprovalRows]
           /\ approval'[a].status = status /\ approval'[a].decision = decision
           /\ approval'[a].target = approval[a].target
           /\ \A b \in ApprovalIds \ {a} : approval'[b] = approval[b]
           /\ told' = told \cup {<<a, decision>>}
<1>1. approval \in [ApprovalIds -> ApprovalRows]
  BY DEF TypeOK, ApprovalRows
<1> DEFINE row == [approval[a] EXCEPT !.status = status, !.decision = decision]
<1>2. /\ row \in ApprovalRows /\ row.status = status /\ row.decision = decision
      /\ row.target = approval[a].target
  BY <1>1 DEF ApprovalRows, Decisions
<1>3. approval' = [approval EXCEPT ![a] = row]
  BY <1>1 DEF Decide
<1> HIDE DEF row
<1> QED
  BY <1>1, <1>2, <1>3 DEF Decide

LEMMA DecideGoesOn ==
    ASSUME TypeOK, DecideStep
    PROVE  GoesOn
<1>1. PICK t \in TaskIds, a \in ApprovalIds, new \in TaskRows,
           status \in {"completed", "canceled"}, decision \in {"approved", "denied", "superseded"} :
        /\ OneRow(t, new) /\ approval[a].status = "open" /\ Decide(a, status, decision)
  BY DEF DecideStep
<1>2. /\ approval' \in [ApprovalIds -> ApprovalRows]
      /\ approval'[a].status = status /\ approval'[a].target = approval[a].target
      /\ \A b \in ApprovalIds \ {a} : approval'[b] = approval[b]
  BY <1>1, Deciding
<1>3. \A b \in ApprovalIds : ApprovalGoesOn(b)
  BY <1>1, <1>2 DEF ApprovalGoesOn
<1>4. /\ HandlersEnd /\ task' \in [TaskIds -> TaskRows]
      /\ \A u \in TaskIds : RowGoesOn(u)
  BY <1>1, OneRowGoesOn
<1> QED
  BY <1>2, <1>3, <1>4 DEF GoesOn

-----------------------------------------------------------------------------
(* Handlers, rows and references after such a step.                        *)

SeenNext(t) == [task'[t] EXCEPT !.fine = FALSE, !.from = 0]

LEMMA HandlersAfter ==
    ASSUME TypeOK, HandlersOK, GoesOn
    PROVE  HandlersOK'
<1>1. ASSUME NEW h \in Handlers PROVE HandlerOK(h)'
  <2> DEFINE r == request[h]
             s == request'[h]
             t == r.task
  <2>1. s \in {r, Idle} /\ HandlerOK(h)
    BY DEF GoesOn, HandlersEnd, HandlersOK
  <2>2. CASE s = Idle
    <3>1. /\ s.op \notin TaskOps /\ s.op \notin {"approve", "deny"} /\ s.task \notin TaskIds
          /\ s.holding = FALSE
      BY <2>2, Blank, Bounds
    <3> HIDE DEF s
    <3>2. request'[h] = s
      BY DEF s
    <3> QED
      BY <3>1, <3>2 DEF HandlerOK
  <2>3. CASE s = r
    <3>1. ASSUME t \in TaskIds
          PROVE  /\ task'[t].status # "none" /\ r.seen.version <= task'[t].version
                 /\ r.seen.version = task'[t].version => r.seen = SeenNext(t)
                 /\ r.holding => task'[t] = task[t]
      <4>1. /\ task[t].status # "none" /\ r.seen.version <= task[t].version
            /\ r.seen.version = task[t].version => r.seen = Seen(t)
        BY <2>1, <3>1 DEF HandlerOK
      <4>2. r.seen.version \in Nat /\ task[t].version \in Nat
        <5>1. r \in Requests
          BY DEF HandlersOK
        <5> QED
          BY <3>1, <5>1, RowTyped DEF Requests, TaskRows
      <4>3. RowGoesOn(t)
        BY <3>1 DEF GoesOn
      <4>4. CASE task'[t] = task[t]
        BY <4>1, <4>4 DEF Seen, SeenNext
      <4>5. CASE task[t] = NoTask
        BY <4>1, <4>5, Blank
      <4>6. CASE /\ task'[t].status # "none" /\ task'[t].version = task[t].version + 1
                 /\ NobodyGoesOnWith(t)
        <5>1. ~ r.holding
          BY <2>3, <4>6 DEF NobodyGoesOnWith
        <5>2. task[t].version < task'[t].version
          BY <4>2, <4>6
        <5>3. r.seen.version # task'[t].version /\ r.seen.version <= task'[t].version
          BY <4>1, <4>2, <4>6
        <5> QED
          BY <4>6, <5>1, <5>3
      <4> QED
        BY <4>3, <4>4, <4>5, <4>6 DEF RowGoesOn
    <3>2. ASSUME r.holding
          PROVE  /\ r.op = "complete" /\ task'[t].status = r.seen.status
                 /\ \A p \in r.plan : p[1] # t
                 /\ \A g \in Handlers \ {h} : request'[g].holding => request'[g].task # t
      <4>1. /\ r.op = "complete" /\ task[t].status = r.seen.status
            /\ \A p \in r.plan : p[1] # t
            /\ \A g \in Handlers \ {h} : request[g].holding => request[g].task # t
        BY <2>1, <3>2 DEF HandlerOK
      <4>2. t \in TaskIds
        BY <2>1, <3>2, <4>1, CompleteOp DEF HandlerOK
      <4>3. \A g \in Handlers : request'[g] = request[g] \/ (request'[g] = Idle /\ ~ Idle.holding)
        BY Blank DEF GoesOn, HandlersEnd
      <4>4. \A g \in Handlers \ {h} : request'[g].holding => request'[g].task # t
        BY <4>1, <4>3
      <4> QED
        BY <3>1, <3>2, <4>1, <4>2, <4>4
    <3>3. /\ r.op \in TaskOps => t \in TaskIds
          /\ r.op \in TaskOps /\ r.op # "reopen" => IsOpen(r.seen)
          /\ r.op \in {"approve", "deny"} => r.approval \in ApprovalIds
      BY <2>1 DEF HandlerOK
    <3> HIDE DEF r
    <3>4. request'[h] = r
      BY <2>3
    <3>5. /\ r.op \in TaskOps /\ r.op # "reopen" => r.seen.status \in OpenStatuses
          /\ r.task \in TaskIds /\ r.seen.version = task'[r.task].version => r.seen = SeenNext(r.task)
      BY <3>1, <3>3 DEF IsOpen
    <3> QED
      BY <3>1, <3>2, <3>3, <3>4, <3>5 DEF HandlerOK, IsOpen, Seen, SeenNext
  <2> QED
    BY <2>1, <2>2, <2>3
<1> QED
  BY <1>1 DEF HandlersOK, GoesOn, HandlersEnd

LEMMA RowsAfter ==
    ASSUME TypeOK, RowsOK, GoesOn
    PROVE  RowsOK'
<1>1. ASSUME NEW t \in TaskIds
      PROVE  /\ task'[t].status = "none" => task'[t] = NoTask
             /\ task[t].status # "none" => task'[t].status # "none"
  <2>1. RowGoesOn(t)
    BY DEF GoesOn
  <2> QED
    BY <2>1, Blank DEF RowsOK, RowGoesOn
<1>2. ASSUME NEW a \in ApprovalIds, approval'[a].status # "none"
      PROVE  approval'[a].target \in TaskIds /\ task'[approval'[a].target].status # "none"
  <2>1. ApprovalGoesOn(a)
    BY DEF GoesOn
  <2>2. approval'[a].target \in TaskIds /\ task[approval'[a].target].status # "none"
    BY <1>2, <2>1 DEF ApprovalGoesOn, RowsOK
  <2> QED
    BY <1>1, <2>2
<1> QED
  BY <1>1, <1>2 DEF RowsOK

RefNext(t, a) ==
    a # 0 => /\ a \in ApprovalIds /\ approval'[a].status # "none"
             /\ approval'[a].status = "open" => approval'[a].target = t

LEMMA RefAfter ==
    ASSUME GoesOn, NEW t, NEW a, RefOK(t, a)
    PROVE  RefNext(t, a)
<1>1. CASE a = 0
  BY <1>1 DEF RefNext
<1>2. CASE a # 0
  <2>1. /\ a \in ApprovalIds /\ approval[a].status # "none"
        /\ approval[a].status = "open" => approval[a].target = t
    BY <1>2 DEF RefOK
  <2>2. ApprovalGoesOn(a)
    BY <2>1 DEF GoesOn
  <2> QED
    BY <2>1, <2>2 DEF RefNext, ApprovalGoesOn
<1> QED
  BY <1>1, <1>2

\* What is left for a step to show is that the tasks' references are right.
LEMMA RefsAfter ==
    ASSUME RefsOK, HandlersOK, GoesOn, \A t \in TaskIds : RefNext(t, Pending(task'[t]))
    PROVE  RefsOK'
<1>1. ASSUME NEW h \in Handlers
      PROVE  /\ RefNext(request'[h].task, Pending(request'[h].seen))
             /\ \A p \in request'[h].plan : RefNext(p[1], p[2])
  <2>1. CASE request'[h] = request[h]
    <3> DEFINE t == request[h].task
               a == Pending(request[h].seen)
               plan == request[h].plan
    <3>1. RefOK(t, a) /\ \A p \in plan : RefOK(p[1], p[2])
      BY DEF RefsOK
    <3>2. RefNext(t, a) /\ \A p \in plan : RefNext(p[1], p[2])
      BY <3>1, RefAfter
    <3> QED
      BY <2>1, <3>2
  <2>2. CASE request'[h] = Idle
    <3>1. Pending(request'[h].seen) = 0 /\ request'[h].plan = {}
      BY <2>2, Blank
    <3> QED
      BY <3>1 DEF RefNext
  <2> QED
    BY <2>1, <2>2 DEF GoesOn, HandlersEnd
<1> QED
  BY <1>1 DEF RefsOK, RefOK, RefNext, Pending

-----------------------------------------------------------------------------
(* A plan is carried out: references, pairs and notices.                   *)

LEMMA PendingIs ==
    ASSUME NEW row, NEW new, new.decision = row.decision, new.approval = row.approval
    PROVE  Pending(new) = Pending(row)
  BY DEF Pending

LEMMA NotPending ==
    ASSUME NEW row, row.decision # "pending"
    PROVE  Pending(row) = 0
  BY DEF Pending

\* What a row that is closed waits for afterwards.
LEMMA ClosedWaits ==
    ASSUME NEW t, NEW plan, NEW new, RowCloses(new, t, plan)
    PROVE  \/ Pending(new) = 0
           \/ /\ Pending(new) = Pending(task[t])
              /\ ~ \E p \in Overtaken(plan) : p[1] = t
<1>1. CASE \E p \in Overtaken(plan) : p[1] = t
  <2>1. new.decision = "superseded"
    BY <1>1 DEF RowCloses
  <2> QED
    BY <2>1, NotPending
<1>2. CASE ~ \E p \in Overtaken(plan) : p[1] = t
  <2>1. new.decision = task[t].decision /\ new.approval = task[t].approval
    BY <1>2 DEF RowCloses
  <2> QED
    BY <1>2, <2>1, PendingIs
<1> QED
  BY <1>1, <1>2

LEMMA ClosingRefs ==
    ASSUME TypeOK, HandlersOK, RefsOK, NEW h \in Handlers, NEW plan, ClosingStep(h, plan)
    PROVE  RefsOK'
<1>1. GoesOn
  BY ClosingGoesOn
<1>2. /\ \A p \in plan : RefOK(p[1], p[2]) /\ IsOpen(task[p[1]])
      /\ Supersede(plan) /\ ClosesTo(task', plan) /\ plan \in Plans
  BY DEF ClosingStep
<1>3. /\ \A a \in Gone(plan) : approval'[a].status = "canceled"
      /\ \A a \in ApprovalIds \ Gone(plan) : approval'[a] = approval[a]
  BY <1>2, Superseding
<1>4. ASSUME NEW t \in TaskIds PROVE RefNext(t, Pending(task'[t]))
  <2>1. RefNext(t, Pending(task[t]))
    BY <1>1, RefAfter DEF RefsOK
  <2>2. CASE RowKept(task'[t], t, plan)
    BY <2>1, <2>2 DEF RowKept
  <2>3. CASE RowCloses(task'[t], t, plan)
    BY <2>1, <2>3, ClosedWaits DEF RefNext
  <2>4. CASE RowMade(task'[t], t, plan)
    <3>1. CASE Pending(task'[t]) = 0
      BY <3>1 DEF RefNext
    <3>2. CASE \E p \in plan : p[2] = Pending(task'[t])
      <4>1. PICK p \in plan : p[2] = Pending(task'[t])
        BY <3>2
      <4>2. RefNext(p[1], p[2])
        BY <1>1, <1>2, RefAfter
      <4>3. p[2] # 0 => approval'[p[2]].status # "open"
        <5>1. ASSUME p[2] # 0, approval'[p[2]].status = "open"
              PROVE  FALSE
          <6>1. p[2] \in ApprovalIds /\ approval'[p[2]].status = "open"
            BY <4>2, <5>1 DEF RefNext
          <6>2. p[2] \notin Gone(plan) /\ approval[p[2]].status = "open"
            BY <1>3, <6>1
          <6>3. p \in Overtaken(plan)
            BY <5>1, <6>2 DEF Overtaken
          <6> QED
            BY <6>2, <6>3 DEF Gone
        <5> QED
          BY <5>1
      <4> QED
        BY <4>1, <4>2, <4>3 DEF RefNext
    <3> QED
      BY <2>4, <3>1, <3>2 DEF RowMade
  <2> QED
    BY <1>2, <2>2, <2>3, <2>4 DEF ClosesTo
<1> QED
  BY <1>1, <1>4, RefsAfter

\* The pairs, from the task's side and from the approval's.
PairA(a) == LET t == approval[a].target IN
            approval[a].status = "open" => task[t].decision = "pending" /\ task[t].approval = a
PairT(t) == LET a == Pending(task[t]) IN
            a # 0 /\ approval[a].target = t => approval[a].status = "open"

LEMMA PairsAre ==
    ApprovalIsPaired <=> (\A a \in ApprovalIds : PairA(a)) /\ \A t \in TaskIds : PairT(t)
  BY DEF ApprovalIsPaired, PairA, PairT

LEMMA OpenIsNamed ==
    ASSUME ApprovalIsPaired, NEW a \in ApprovalIds, approval[a].status = "open"
    PROVE  /\ task[approval[a].target].decision = "pending"
           /\ task[approval[a].target].approval = a
           /\ Pending(task[approval[a].target]) = a
  BY DEF ApprovalIsPaired, Pending

LEMMA ClosingPairs ==
    ASSUME TypeOK, RowsOK, RefsOK, ApprovalIsPaired, NEW h \in Handlers, NEW plan,
           ClosingStep(h, plan)
    PROVE  ApprovalIsPaired'
<1>1. /\ \A p \in plan : RefOK(p[1], p[2]) /\ IsOpen(task[p[1]])
      /\ Supersede(plan) /\ ClosesTo(task', plan)
  BY DEF ClosingStep
<1>2. /\ \A a \in Gone(plan) :
           /\ approval[a].status = "open" /\ approval'[a].status = "canceled"
           /\ approval'[a].target = approval[a].target
      /\ \A a \in ApprovalIds \ Gone(plan) : approval'[a] = approval[a]
  BY <1>1, Superseding
<1>3. /\ Gone(plan) \subseteq ApprovalIds
      /\ \A p \in Overtaken(plan) :
           p \in plan /\ p[2] \in Gone(plan) /\ approval[p[2]].target = p[1]
           /\ approval[p[2]].status = "open"
      /\ \A a \in Gone(plan) : \E p \in Overtaken(plan) : p[2] = a
  BY <1>1, GoneAre
<1>4. ASSUME NEW t \in TaskIds
      PROVE  RowKept(task'[t], t, plan) \/ RowCloses(task'[t], t, plan) \/ RowMade(task'[t], t, plan)
  BY <1>1 DEF ClosesTo
<1>5. ASSUME NEW a \in ApprovalIds, approval'[a].status = "open"
      PROVE  task'[approval'[a].target].decision = "pending" /\ task'[approval'[a].target].approval = a
  <2> DEFINE t == approval[a].target
  <2>1. a \notin Gone(plan) /\ approval'[a] = approval[a]
    BY <1>2, <1>5
  <2>2. approval[a].status = "open" /\ t \in TaskIds
    BY <1>5, <2>1 DEF RowsOK
  <2>3. task[t].decision = "pending" /\ task[t].approval = a
    BY <2>2, OpenIsNamed
  <2>4. ~ \E p \in Overtaken(plan) : p[1] = t
    <3>1. ASSUME NEW p \in Overtaken(plan), p[1] = t PROVE FALSE
      <4>1. p[2] \in ApprovalIds /\ p[2] \in Gone(plan) /\ approval[p[2]].target = t
            /\ approval[p[2]].status = "open"
        BY <1>3, <3>1
      <4>2. task[t].approval = p[2]
        BY <4>1, OpenIsNamed
      <4> QED
        BY <2>1, <2>3, <4>1, <4>2
    <3> QED
      BY <3>1
  <2>5. ~ RowMade(task'[t], t, plan)
    BY <2>3, Blank DEF RowMade
  <2>6. task'[t].decision = "pending" /\ task'[t].approval = a
    BY <1>4, <2>2, <2>3, <2>4, <2>5 DEF RowKept, RowCloses
  <2> QED
    BY <2>1, <2>6
<1>6. ASSUME NEW t \in TaskIds, Pending(task'[t]) # 0, approval'[Pending(task'[t])].target = t
      PROVE  approval'[Pending(task'[t])].status = "open"
  <2> DEFINE a == Pending(task'[t])
  <2>1. CASE Pending(task'[t]) = Pending(task[t]) /\ ~ \E p \in Overtaken(plan) : p[1] = t
    <3>1. RefOK(t, Pending(task[t]))
      BY DEF RefsOK
    <3>2. a \in ApprovalIds /\ a = Pending(task[t])
      BY <1>6, <2>1, <3>1 DEF RefOK
    <3>3. approval[a].target = t
      BY <1>2, <1>6, <3>2
    <3>4. approval[a].status = "open"
      <4>1. PairT(t)
        BY PairsAre
      <4> QED
        BY <1>6, <3>2, <3>3, <4>1 DEF PairT
    <3>5. a \notin Gone(plan)
      BY <1>3, <2>1, <3>3
    <3> QED
      BY <1>2, <3>2, <3>4, <3>5
  <2>2. CASE RowMade(task'[t], t, plan)
    <3>1. PICK p \in plan : p[2] = a
      BY <1>6, <2>2 DEF RowMade
    <3>2. a \in ApprovalIds /\ approval[a].status # "none"
      BY <1>1, <1>6, <3>1 DEF RefOK
    <3>3. approval[a].target = t
      BY <1>2, <1>6, <3>2
    <3>4. task[t].status # "none"
      BY <3>2, <3>3 DEF RowsOK
    <3> QED
      BY <2>2, <3>4, Blank DEF RowMade
  <2>3. CASE RowKept(task'[t], t, plan)
    BY <1>3, <2>1, <2>3 DEF RowKept
  <2>4. CASE RowCloses(task'[t], t, plan)
    BY <1>6, <2>1, <2>4, ClosedWaits
  <2> QED
    BY <1>4, <2>2, <2>3, <2>4
<1>7. \A a \in ApprovalIds : PairA(a)'
  BY <1>5 DEF PairA
<1>8. \A t \in TaskIds : PairT(t)'
  BY <1>6 DEF PairT, Pending
<1> QED
  BY <1>7, <1>8 DEF ApprovalIsPaired, PairA, PairT, Pending

\* Notices: what is told of an approval is what ought to be.
Ought(row) == IF row.status \in {"none", "open"} THEN {} ELSE {row.decision}
Tells(notices, rows) ==
    \A a \in ApprovalIds : \A d : <<a, d>> \in notices <=> d \in Ought(rows[a])
Notices == ApprovalIds \X {"approved", "denied", "superseded"}

Heard(S, a) == {n[2] : n \in {n \in S : n[1] = a}}

LEMMA HeardIs ==
    ASSUME NEW S \in SUBSET Notices, NEW a, NEW R
    PROVE  (Heard(S, a) = R) <=> \A d : <<a, d>> \in S <=> d \in R
<1> DEFINE H == Heard(S, a)
<1>1. \A n \in S : n = <<n[1], n[2]>>
  BY DEF Notices
<1>2. \A d : d \in H <=> <<a, d>> \in S
  BY <1>1 DEF Heard
<1> HIDE DEF H
<1>3. (H = R) <=> \A d : d \in H <=> d \in R
  OBVIOUS
<1>4. (H = R) <=> \A d : <<a, d>> \in S <=> d \in R
  BY <1>2, <1>3
<1> QED
  BY <1>4 DEF H

LEMMA TellsIs ==
    ASSUME told \in SUBSET Notices
    PROVE  RequesterIsTold <=> Tells(told, approval)
<1>1. ASSUME NEW a \in ApprovalIds
      PROVE  (Heard(told, a) = Ought(approval[a])) <=> \A d : <<a, d>> \in told <=> d \in Ought(approval[a])
  <2> DEFINE R == Ought(approval[a])
  <2> HIDE DEF R
  <2>1. (Heard(told, a) = R) <=> \A d : <<a, d>> \in told <=> d \in R
    BY HeardIs
  <2> QED
    BY <2>1 DEF R
<1>2. RequesterIsTold <=> \A a \in ApprovalIds : Heard(told, a) = Ought(approval[a])
  BY DEF RequesterIsTold, Ought, Heard
<1> QED
  BY <1>1, <1>2 DEF Tells

LEMMA TellsNext ==
    ASSUME told' \in SUBSET Notices, Tells(told', approval')
    PROVE  RequesterIsTold'
<1>1. ASSUME NEW a \in ApprovalIds
      PROVE  (Heard(told', a) = Ought(approval'[a]))
               <=> \A d : <<a, d>> \in told' <=> d \in Ought(approval'[a])
  <2> DEFINE R == Ought(approval'[a])
  <2> HIDE DEF R
  <2>1. (Heard(told', a) = R) <=> \A d : <<a, d>> \in told' <=> d \in R
    BY HeardIs
  <2> QED
    BY <2>1 DEF R
<1>2. RequesterIsTold' <=> \A a \in ApprovalIds : Heard(told', a) = Ought(approval'[a])
  BY DEF RequesterIsTold, Ought, Heard
<1> QED
  BY <1>1, <1>2 DEF Tells

LEMMA ClosingTold ==
    ASSUME TypeOK, RequesterIsTold, NEW h \in Handlers, NEW plan, ClosingStep(h, plan)
    PROVE  told' \in SUBSET Notices /\ RequesterIsTold'
<1>1. /\ \A p \in plan : RefOK(p[1], p[2])
      /\ Supersede(plan)
  BY DEF ClosingStep
<1>2. /\ \A a \in Gone(plan) :
           /\ approval[a].status = "open" /\ approval'[a].status = "canceled"
           /\ approval'[a].decision = "superseded"
      /\ \A a \in ApprovalIds \ Gone(plan) : approval'[a] = approval[a]
      /\ told' = told \cup {<<a, "superseded">> : a \in Gone(plan)}
  BY <1>1, Superseding
<1>3. Gone(plan) \subseteq ApprovalIds
  BY <1>1, GoneAre
<1>4. told \in SUBSET Notices
  BY DEF TypeOK, Notices
<1>5. told' \in SUBSET Notices
  BY <1>2, <1>3, <1>4 DEF Notices
<1>6. Tells(told, approval)
  BY <1>4, TellsIs
<1>7. ASSUME NEW a \in ApprovalIds, NEW d
      PROVE  <<a, d>> \in told' <=> d \in Ought(approval'[a])
  <2>1. <<a, d>> \in told' <=> <<a, d>> \in told \/ (a \in Gone(plan) /\ d = "superseded")
    BY <1>2
  <2>2. <<a, d>> \in told <=> d \in Ought(approval[a])
    BY <1>6 DEF Tells
  <2>3. CASE a \in Gone(plan)
    <3>1. Ought(approval[a]) = {} /\ Ought(approval'[a]) = {"superseded"}
      BY <1>2, <2>3 DEF Ought
    <3> QED
      BY <2>1, <2>2, <2>3, <3>1
  <2>4. CASE a \notin Gone(plan)
    <3>1. approval'[a] = approval[a]
      BY <1>2, <2>4
    <3> QED
      BY <2>1, <2>2, <2>4, <3>1
  <2> QED
    BY <2>3, <2>4
<1>8. Tells(told', approval')
  BY <1>7 DEF Tells
<1> QED
  BY <1>5, <1>8, TellsNext

-----------------------------------------------------------------------------
(* One task is changed: references, pairs and notices.                     *)

LEMMA EditKeeps ==
    ASSUME TypeOK, HandlersOK, RowsOK, RefsOK, ApprovalIsPaired, RequesterIsTold, EditStep
    PROVE  /\ RefsOK' /\ ApprovalIsPaired'
           /\ told' \in SUBSET Notices /\ RequesterIsTold'
<1>1. GoesOn
  BY EditGoesOn
<1>2. approval' = approval /\ told' = told
  BY DEF EditStep
<1>3. ASSUME NEW t \in TaskIds
      PROVE  /\ task'[t].decision = task[t].decision /\ task'[t].approval = task[t].approval
             /\ Pending(task'[t]) = Pending(task[t])
  <2>1. task'[t] = task[t] \/ RowEdited(task'[t], t)
    BY DEF EditStep
  <2>2. task'[t].decision = task[t].decision /\ task'[t].approval = task[t].approval
    BY <2>1 DEF RowEdited
  <2> QED
    BY <2>2, PendingIs
<1>4. \A t \in TaskIds : RefNext(t, Pending(task'[t]))
  BY <1>1, <1>3, RefAfter DEF RefsOK
<1>5. RefsOK'
  BY <1>1, <1>4, RefsAfter
<1>6. told \in SUBSET Notices
  BY DEF TypeOK, Notices
<1>7. Tells(told, approval)
  BY <1>6, TellsIs
<1>8. told' \in SUBSET Notices /\ RequesterIsTold'
  BY <1>2, <1>6, <1>7, TellsNext
<1>9. ASSUME NEW a \in ApprovalIds, approval[a].status = "open"
      PROVE  /\ task'[approval[a].target].decision = "pending"
             /\ task'[approval[a].target].approval = a
  <2>1. approval[a].target \in TaskIds
    BY <1>9 DEF RowsOK
  <2> QED
    BY <1>3, <1>9, <2>1, OpenIsNamed
<1>10. \A t \in TaskIds : PairT(t)
  BY PairsAre
<1>11. ApprovalIsPaired'
  <2>1. \A a \in ApprovalIds : PairA(a)'
    BY <1>2, <1>9 DEF PairA
  <2>2. \A t \in TaskIds : PairT(t)'
    <3> DEFINE Waits(t) == Pending(task'[t])
    <3>1. ASSUME NEW t \in TaskIds, Waits(t) # 0, approval'[Waits(t)].target = t
          PROVE  approval'[Waits(t)].status = "open"
      BY <1>2, <1>3, <1>10, <3>1 DEF PairT
    <3> QED
      BY <3>1 DEF PairT, Pending
  <2> QED
    BY <2>1, <2>2 DEF ApprovalIsPaired, PairA, PairT
<1> QED
  BY <1>5, <1>8, <1>11

LEMMA RequestKeeps ==
    ASSUME TypeOK, HandlersOK, RowsOK, RefsOK, ApprovalIsPaired, RequesterIsTold, RequestStep
    PROVE  /\ RefsOK' /\ ApprovalIsPaired'
           /\ told' \in SUBSET Notices /\ RequesterIsTold'
<1>1. GoesOn
  BY RequestGoesOn
<1>2. PICK t \in TaskIds, a \in ApprovalIds, new \in TaskRows :
        /\ OneRow(t, new)
        /\ new.decision = "pending" /\ new.approval = a
        /\ OpenApprovals(t) = {} /\ approval[a] = NoApproval
        /\ approval' = [approval EXCEPT ![a] =
             [status |-> "open", decision |-> "pending", target |-> t]]
        /\ UNCHANGED told
  BY DEF RequestStep
<1>3. approval \in [ApprovalIds -> ApprovalRows] /\ told \in SUBSET Notices
  BY DEF TypeOK, ApprovalRows, Notices
<1>4. /\ approval'[a].status = "open" /\ approval'[a].target = t
      /\ \A b \in ApprovalIds \ {a} : approval'[b] = approval[b]
  BY <1>2, <1>3
<1>5. task'[t] = new /\ \A u \in TaskIds \ {t} : task'[u] = task[u]
  BY <1>2, OneRowGoesOn
<1>6. a # 0 /\ Pending(task'[t]) = a
  BY <1>2, <1>5, Bounds DEF Pending
<1>7. ASSUME NEW u \in TaskIds PROVE RefNext(u, Pending(task'[u]))
  <2>1. CASE u = t
    BY <1>4, <1>6, <2>1 DEF RefNext
  <2>2. CASE u # t
    BY <1>1, <1>5, <2>2, RefAfter DEF RefsOK
  <2> QED
    BY <2>1, <2>2
<1>8. RefsOK'
  BY <1>1, <1>7, RefsAfter
<1>9. ASSUME NEW b \in ApprovalIds, approval'[b].status = "open"
      PROVE  /\ task'[approval'[b].target].decision = "pending"
             /\ task'[approval'[b].target].approval = b
  <2>1. CASE b = a
    BY <1>2, <1>4, <1>5, <2>1
  <2>2. CASE b # a
    <3>1. approval'[b] = approval[b] /\ approval[b].status = "open"
      BY <1>4, <1>9, <2>2
    <3>2. approval[b].target # t
      BY <1>2, <3>1 DEF OpenApprovals
    <3>3. approval[b].target \in TaskIds
      BY <3>1 DEF RowsOK
    <3> QED
      BY <1>5, <3>1, <3>2, <3>3, OpenIsNamed
  <2> QED
    BY <2>1, <2>2
<1> DEFINE Waits(u) == Pending(task'[u])
<1>10. ASSUME NEW u \in TaskIds, Waits(u) # 0, approval'[Waits(u)].target = u
       PROVE  approval'[Waits(u)].status = "open"
  <2>1. CASE u = t
    BY <1>4, <1>6, <2>1
  <2>2. CASE u # t
    <3>1. task'[u] = task[u] /\ PairT(u) /\ RefOK(u, Pending(task[u]))
      BY <1>5, <2>2, PairsAre DEF RefsOK
    <3>2. Waits(u) # a /\ Waits(u) \in ApprovalIds
      BY <1>4, <1>10, <2>2, <3>1 DEF RefOK
    <3>3. approval'[Waits(u)] = approval[Waits(u)]
      BY <1>4, <3>2
    <3> QED
      BY <1>10, <3>1, <3>3 DEF PairT
  <2> QED
    BY <2>1, <2>2
<1>11. ApprovalIsPaired'
  <2>1. \A b \in ApprovalIds : PairA(b)'
    BY <1>9 DEF PairA
  <2>2. \A u \in TaskIds : PairT(u)'
    BY <1>10 DEF PairT, Pending
  <2> QED
    BY <2>1, <2>2 DEF ApprovalIsPaired, PairA, PairT
<1>12. Tells(told, approval)
  BY <1>3, TellsIs
<1>13. ASSUME NEW b \in ApprovalIds PROVE Ought(approval'[b]) = Ought(approval[b])
  <2>1. CASE b = a
    BY <1>2, <1>4, <2>1, Blank DEF Ought
  <2>2. CASE b # a
    BY <1>4, <2>2
  <2> QED
    BY <2>1, <2>2
<1>14. told' \in SUBSET Notices /\ RequesterIsTold'
  <2>1. told' = told
    BY <1>2
  <2>2. Tells(told', approval')
    BY <1>12, <1>13, <2>1 DEF Tells
  <2> QED
    BY <1>3, <2>1, <2>2, TellsNext
<1> QED
  BY <1>8, <1>11, <1>14

LEMMA DecideKeeps ==
    ASSUME TypeOK, HandlersOK, RowsOK, RefsOK, ApprovalIsPaired, RequesterIsTold, DecideStep
    PROVE  /\ RefsOK' /\ ApprovalIsPaired'
           /\ told' \in SUBSET Notices /\ RequesterIsTold'
<1>1. GoesOn
  BY DecideGoesOn
<1>2. PICK t \in TaskIds, a \in ApprovalIds, new \in TaskRows,
           status \in {"completed", "canceled"}, decision \in {"approved", "denied", "superseded"} :
        /\ OneRow(t, new) /\ new.decision = decision
        /\ approval[a].status = "open" /\ approval[a].target = t
        /\ Decide(a, status, decision)
  BY DEF DecideStep
<1>3. /\ approval'[a].status = status /\ approval'[a].decision = decision
      /\ approval'[a].target = t
      /\ \A b \in ApprovalIds \ {a} : approval'[b] = approval[b]
      /\ told' = told \cup {<<a, decision>>}
  BY <1>2, Deciding
<1>4. told \in SUBSET Notices /\ told' \in SUBSET Notices
  BY <1>2, <1>3 DEF TypeOK, Notices
<1>5. task'[t] = new /\ \A u \in TaskIds \ {t} : task'[u] = task[u]
  BY <1>2, OneRowGoesOn
<1>6. Pending(task'[t]) = 0
  BY <1>2, <1>5, NotPending
<1>7. ASSUME NEW u \in TaskIds PROVE RefNext(u, Pending(task'[u]))
  <2>1. CASE u = t
    BY <1>6, <2>1 DEF RefNext
  <2>2. CASE u # t
    BY <1>1, <1>5, <2>2, RefAfter DEF RefsOK
  <2> QED
    BY <2>1, <2>2
<1>8. RefsOK'
  BY <1>1, <1>7, RefsAfter
<1>9. ASSUME NEW b \in ApprovalIds, approval'[b].status = "open"
      PROVE  /\ task'[approval'[b].target].decision = "pending"
             /\ task'[approval'[b].target].approval = b
  <2>1. b # a /\ approval'[b] = approval[b] /\ approval[b].status = "open"
    BY <1>3, <1>9
  <2>2. approval[b].target # t
    BY <1>2, <2>1, OpenIsNamed
  <2>3. approval[b].target \in TaskIds
    BY <2>1 DEF RowsOK
  <2> QED
    BY <1>5, <2>1, <2>2, <2>3, OpenIsNamed
<1> DEFINE Waits(u) == Pending(task'[u])
<1>10. ASSUME NEW u \in TaskIds, Waits(u) # 0, approval'[Waits(u)].target = u
       PROVE  approval'[Waits(u)].status = "open"
  <2>1. u # t
    BY <1>6, <1>10
  <2>2. task'[u] = task[u] /\ PairT(u) /\ RefOK(u, Pending(task[u]))
    BY <1>5, <2>1, PairsAre DEF RefsOK
  <2>3. Waits(u) # a /\ Waits(u) \in ApprovalIds
    BY <1>3, <1>10, <2>1, <2>2 DEF RefOK
  <2>4. approval'[Waits(u)] = approval[Waits(u)]
    BY <1>3, <2>3
  <2> QED
    BY <1>10, <2>2, <2>4 DEF PairT
<1>11. ApprovalIsPaired'
  <2>1. \A b \in ApprovalIds : PairA(b)'
    BY <1>9 DEF PairA
  <2>2. \A u \in TaskIds : PairT(u)'
    BY <1>10 DEF PairT, Pending
  <2> QED
    BY <2>1, <2>2 DEF ApprovalIsPaired, PairA, PairT
<1>12. Tells(told, approval)
  BY <1>4, TellsIs
<1>13. ASSUME NEW b \in ApprovalIds, NEW d
       PROVE  <<b, d>> \in told' <=> d \in Ought(approval'[b])
  <2>1. <<b, d>> \in told' <=> <<b, d>> \in told \/ (b = a /\ d = decision)
    BY <1>3
  <2>2. <<b, d>> \in told <=> d \in Ought(approval[b])
    BY <1>12 DEF Tells
  <2>3. CASE b = a
    <3>1. Ought(approval[b]) = {} /\ Ought(approval'[b]) = {decision}
      BY <1>2, <1>3, <2>3 DEF Ought
    <3> QED
      BY <2>1, <2>2, <2>3, <3>1
  <2>4. CASE b # a
    BY <1>3, <2>1, <2>2, <2>4
  <2> QED
    BY <2>3, <2>4
<1>14. RequesterIsTold'
  <2>1. Tells(told', approval')
    BY <1>13 DEF Tells
  <2> QED
    BY <1>4, <2>1, TellsNext
<1> QED
  BY <1>4, <1>8, <1>11, <1>14

-----------------------------------------------------------------------------
(* Successors.                                                             *)

Followed(tasks, t) == {n \in TaskIds : tasks[n].from = t}

\* Nothing succeeds more tasks, or one task more succeeds one that was completed.
NoneMore ==
    /\ \A n \in TaskIds : task'[n].from = task[n].from
    /\ \A t \in TaskIds : completed'[t] \in Nat /\ completed[t] <= completed'[t]
OneMoreOf(t, n) ==
    /\ \A m \in TaskIds \ {n} : task'[m].from = task[m].from
    /\ task'[n].from = t
    /\ completed'[t] = completed[t] + 1
    /\ \A u \in TaskIds \ {t} : completed'[u] = completed[u]

LEMMA Completing ==
    ASSUME TypeOK, NEW t \in TaskIds, Completes(t)
    PROVE  /\ completed' \in [TaskIds -> Nat]
           /\ \A u \in TaskIds : completed[u] <= completed'[u]
           /\ \A u \in TaskIds \ {t} : completed'[u] = completed[u]
           /\ IsOpen(task[t]) => completed'[t] = completed[t] + 1
<1> DEFINE k == IF IsOpen(task[t]) THEN completed[t] + 1 ELSE completed[t]
<1>1. completed \in [TaskIds -> Nat] /\ completed' = [completed EXCEPT ![t] = k]
  BY DEF TypeOK, Completes
<1>2. k \in Nat /\ completed[t] <= k /\ (IsOpen(task[t]) => k = completed[t] + 1)
  BY <1>1
<1> HIDE DEF k
<1> QED
  BY <1>1, <1>2

LEMMA ClosingFroms ==
    ASSUME TypeOK, NEW plan, NEW status \in {"completed", "canceled"}, NEW t \in TaskIds
    PROVE  Closing(plan, status)[t].from = task[t].from
<1>1. CASE \E p \in plan : p[1] = t
  <2>1. Closing(plan, status)[t] = ClosedRow(plan, status, t)
    BY <1>1, ClosingIs
  <2> QED
    BY <2>1, ClosedRowFields
<1>2. CASE ~ \E p \in plan : p[1] = t
  BY <1>2, ClosingIs
<1> QED
  BY <1>1, <1>2

LEMMA Growing ==
    ASSUME TypeOK, OneSuccessorEach, completed' \in [TaskIds -> Nat],
           NoneMore \/ \E t, n \in TaskIds : OneMoreOf(t, n)
    PROVE  OneSuccessorEach'
<1>1. ASSUME NEW t \in TaskIds
      PROVE  IsFiniteSet(Followed(task, t)) /\ Cardinality(Followed(task, t)) \in Nat
             /\ Cardinality(Followed(task, t)) <= completed[t]
  <2>1. IsFiniteSet(TaskIds)
    BY Bounds, FS_Interval DEF TaskIds
  <2>2. IsFiniteSet(Followed(task, t))
    BY <2>1, FS_Subset DEF Followed
  <2> QED
    BY <2>2, FS_CardinalityType DEF OneSuccessorEach, Followed
<1>2. CASE NoneMore
  <2>1. ASSUME NEW t \in TaskIds PROVE Cardinality(Followed(task', t)) <= completed'[t]
    <3>1. Followed(task', t) = Followed(task, t)
      BY <1>2 DEF NoneMore, Followed
    <3>2. completed'[t] \in Nat /\ completed[t] \in Nat /\ completed[t] <= completed'[t]
      BY <1>2 DEF NoneMore, TypeOK
    <3> QED
      BY <1>1, <3>1, <3>2
  <2> QED
    BY <2>1 DEF OneSuccessorEach, Followed
<1>3. CASE \E t, n \in TaskIds : OneMoreOf(t, n)
  <2>1. PICK t \in TaskIds, n \in TaskIds : OneMoreOf(t, n)
    BY <1>3
  <2>2. ASSUME NEW u \in TaskIds PROVE Cardinality(Followed(task', u)) <= completed'[u]
    <3>1. completed[u] \in Nat
      BY DEF TypeOK
    <3>2. CASE u = t
      <4>1. Followed(task', u) \subseteq Followed(task, u) \cup {n}
        BY <2>1 DEF OneMoreOf, Followed
      <4>2. /\ IsFiniteSet(Followed(task, u) \cup {n})
            /\ Cardinality(Followed(task, u) \cup {n}) <= Cardinality(Followed(task, u)) + 1
            /\ Cardinality(Followed(task, u) \cup {n}) \in Nat
        <5> DEFINE F == Followed(task, u)
        <5>1. IsFiniteSet(F) /\ Cardinality(F) \in Nat
          BY <1>1
        <5> HIDE DEF F
        <5>2. /\ IsFiniteSet(F \cup {n})
              /\ Cardinality(F \cup {n}) = IF n \in F THEN Cardinality(F) ELSE Cardinality(F) + 1
          BY <5>1, FS_AddElement
        <5>3. /\ Cardinality(F \cup {n}) <= Cardinality(F) + 1
              /\ Cardinality(F \cup {n}) \in Nat
          BY <5>1, <5>2
        <5> QED
          BY <5>2, <5>3 DEF F
      <4>3. /\ Cardinality(Followed(task', u)) <= Cardinality(Followed(task, u) \cup {n})
            /\ Cardinality(Followed(task', u)) \in Nat
        BY <4>1, <4>2, FS_Subset, FS_CardinalityType
      <4>4. completed'[u] = completed[u] + 1
        BY <2>1, <3>2 DEF OneMoreOf
      <4> QED
        BY <1>1, <3>1, <4>2, <4>3, <4>4
    <3>3. CASE u # t
      <4>1. Followed(task', u) \subseteq Followed(task, u)
        BY <2>1, <3>3 DEF OneMoreOf, Followed
      <4>2. /\ Cardinality(Followed(task', u)) <= Cardinality(Followed(task, u))
            /\ Cardinality(Followed(task', u)) \in Nat
        BY <1>1, <4>1, FS_Subset, FS_CardinalityType
      <4>3. completed'[u] = completed[u]
        BY <2>1, <3>3 DEF OneMoreOf
      <4> QED
        BY <1>1, <3>1, <4>2, <4>3
    <3> QED
      BY <3>2, <3>3
  <2> QED
    BY <2>2 DEF OneSuccessorEach, Followed
<1> QED
  BY <1>2, <1>3

\* An outcome that may schedule the next follow-up of a task it completes.
LEMMA MayAddOne ==
    ASSUME TypeOK, NEW t \in TaskIds, IsOpen(task[t]), Completes(t),
           NEW r, r \in Requests, r.task = t, NEW tasks \in [TaskIds -> TaskRows],
           \A n \in TaskIds : tasks[n].from = task[n].from, task' \in PerhapsNext(tasks, r)
    PROVE  /\ completed' \in [TaskIds -> Nat]
           /\ NoneMore \/ \E u, n \in TaskIds : OneMoreOf(u, n)
<1>1. /\ completed' \in [TaskIds -> Nat]
      /\ \A u \in TaskIds : completed[u] <= completed'[u]
      /\ \A u \in TaskIds \ {t} : completed'[u] = completed[u]
      /\ completed'[t] = completed[t] + 1
  BY Completing
<1>2. CASE task' = tasks
  BY <1>1, <1>2 DEF NoneMore
<1>3. CASE \E n \in TaskIds : FreeTask(n) /\ task' = [tasks EXCEPT ![n] = NextFollowUp(r)]
  <2>1. PICK n \in TaskIds : FreeTask(n) /\ task' = [tasks EXCEPT ![n] = NextFollowUp(r)]
    BY <1>3
  <2>2. NextFollowUp(r).from = t
    BY <2>1, NextFollowUpMade
  <2>3. task'[n] = NextFollowUp(r) /\ \A m \in TaskIds \ {n} : task'[m] = tasks[m]
    BY <2>1
  <2>4. OneMoreOf(t, n)
    BY <1>1, <2>2, <2>3 DEF OneMoreOf
  <2> QED
    BY <1>1, <2>4
<1> QED
  BY <1>2, <1>3, PerhapsNextIs

SuccessorsGrow ==
    /\ completed' \in [TaskIds -> Nat]
    /\ NoneMore \/ \E t, n \in TaskIds : OneMoreOf(t, n)

LEMMA SameCompleted ==
    ASSUME TypeOK, UNCHANGED completed, \A n \in TaskIds : task'[n].from = task[n].from
    PROVE  SuccessorsGrow
  BY DEF TypeOK, NoneMore, SuccessorsGrow

LEMMA UpdateGrows ==
    ASSUME TypeOK, HandlersOK, RefsOK, NEW h \in Handlers, UpdateTask(h),
           request[h].op = "complete"
    PROVE  SuccessorsGrow
<1> DEFINE t == request[h].task
           plan == {<<t, Pending(request[h].seen)>>}
<1>1. task' = Closing(plan, "completed") /\ Completes(t) /\ request[h].op \in TaskOps
  BY DEF UpdateTask, TaskOps
<1>2. t \in TaskIds
  BY <1>1, TaskRequest
<1>3. \A n \in TaskIds : task'[n].from = task[n].from
  BY <1>1, ClosingFroms
<1> HIDE DEF t
<1>4. /\ completed' \in [TaskIds -> Nat]
      /\ \A u \in TaskIds : completed[u] <= completed'[u]
  BY <1>1, <1>2, Completing
<1> QED
  BY <1>3, <1>4 DEF NoneMore, SuccessorsGrow

LEMMA RecurringGrows ==
    ASSUME TypeOK, HandlersOK, RefsOK, NEW h \in Handlers, CompleteRecurring(h)
    PROVE  SuccessorsGrow
<1> DEFINE r == request[h]
           t == r.task
           C == Closing({<<t, Pending(r.seen)>>}, "completed")
<1>1. /\ ClosingStep(h, {<<t, Pending(r.seen)>>})
      /\ t \in TaskIds /\ IsOpen(task[t]) /\ r.op = "complete"
  BY RecurringCloses
<1>2. PICK n \in TaskIds : FreeTask(n) /\ task' = [C EXCEPT ![n] = Successor(r, t)]
  BY DEF CompleteRecurring, Successor
<1>3. Completes(t)
  BY DEF CompleteRecurring
<1>4. r \in Requests
  BY DEF HandlersOK
<1>5. Successor(r, t).from = t
  BY <1>1, <1>2, <1>4, SuccessorMade
<1>6. C = [u \in TaskIds |-> C[u]] /\ \A m \in TaskIds : C[m].from = task[m].from
  BY ClosingFunction, ClosingFroms
<1> HIDE DEF C, r, t
<1>7. task'[n] = Successor(r, t) /\ \A m \in TaskIds \ {n} : task'[m] = C[m]
  BY <1>2, <1>6
<1>8. completed' \in [TaskIds -> Nat] /\ completed'[t] = completed[t] + 1
      /\ \A u \in TaskIds \ {t} : completed'[u] = completed[u]
  BY <1>1, <1>3, Completing
<1>9. OneMoreOf(t, n)
  BY <1>5, <1>6, <1>7, <1>8 DEF OneMoreOf
<1> QED
  BY <1>1, <1>8, <1>9 DEF SuccessorsGrow

LEMMA FollowUpGrows ==
    ASSUME TypeOK, HandlersOK, RefsOK, NEW h \in Handlers, CompleteFollowUp(h)
    PROVE  SuccessorsGrow
<1> DEFINE r == request[h]
           t == r.task
           plan == {<<t, Pending(r.seen)>>}
           C == Closing(plan, "completed")
<1>1. t \in TaskIds /\ IsOpen(task[t]) /\ r.op = "complete"
  BY FollowUpCloses
<1>2. Completes(t) /\ task' \in PerhapsNext(C, r)
  BY DEF CompleteFollowUp
<1>3. r \in Requests
  BY DEF HandlersOK
<1>4. C \in [TaskIds -> TaskRows]
  <2>1. plan \in Plans /\ \A p \in plan : IsOpen(task[p[1]])
    BY <1>1, CompleteOp, TaskRequest
  <2> HIDE DEF plan
  <2> QED
    BY <2>1, ClosingCloses DEF ClosesTo
<1>5. \A m \in TaskIds : C[m].from = task[m].from
  BY ClosingFroms
<1> HIDE DEF C, r
<1> QED
  BY <1>1, <1>2, <1>3, <1>4, <1>5, MayAddOne DEF SuccessorsGrow

LEMMA FinishGrows ==
    ASSUME TypeOK, HandlersOK, RefsOK, NEW h \in Handlers, FinishFollowUp(h)
    PROVE  SuccessorsGrow
<1> DEFINE r == request[h]
           t == r.task
           own == {<<t, Pending(r.seen)>>}
           rest == StillOpen(r.plan)
           C == Closing(own, "completed")
           R == Closing(rest, "canceled")
           F == [R EXCEPT ![t] = C[t]]
<1>1. t \in TaskIds /\ IsOpen(task[t]) /\ r.op = "complete"
  BY FinishCloses
<1>2. /\ Completes(t) /\ task' \in PerhapsNext(F, r)
      /\ \A p \in r.plan : ~ Held(p[1], h)
  BY DEF FinishFollowUp
<1>3. r \in Requests
  BY DEF HandlersOK
<1>4. C \in [TaskIds -> TaskRows] /\ R \in [TaskIds -> TaskRows]
  <2>1. own \in Plans /\ \A p \in own : IsOpen(task[p[1]])
    BY <1>1, CompleteOp, TaskRequest
  <2>2. rest \in Plans /\ \A p \in rest : IsOpen(task[p[1]])
    BY <1>2, RestOfPlan
  <2> HIDE DEF own, rest
  <2> QED
    BY <2>1, <2>2, ClosingCloses DEF ClosesTo
<1>5. \A m \in TaskIds : C[m].from = task[m].from /\ R[m].from = task[m].from
  BY ClosingFroms
<1> HIDE DEF C, R, r
<1>6. F \in [TaskIds -> TaskRows] /\ \A m \in TaskIds : F[m].from = task[m].from
  BY <1>1, <1>4, <1>5
<1> HIDE DEF F
<1> QED
  BY <1>1, <1>2, <1>3, <1>6, MayAddOne DEF SuccessorsGrow

LEMMA ReconcileGrows ==
    ASSUME TypeOK, NEW h \in Handlers, Reconcile(h)
    PROVE  SuccessorsGrow
<1>1. task' = Closing(StillOpen(request[h].plan), "canceled") /\ UNCHANGED completed
  BY DEF Reconcile
<1>2. \A n \in TaskIds : task'[n].from = task[n].from
  BY <1>1, ClosingFroms
<1> QED
  BY <1>1, <1>2, SameCompleted

LEMMA EditGrows ==
    ASSUME TypeOK, EditStep
    PROVE  SuccessorsGrow
<1>1. \A n \in TaskIds : task'[n].from = task[n].from
  BY DEF EditStep, RowEdited
<1> QED
  BY <1>1, SameCompleted DEF EditStep

LEMMA OneRowGrows ==
    ASSUME TypeOK, NEW t, NEW new, OneRow(t, new), UNCHANGED completed
    PROVE  SuccessorsGrow
<1>1. \A n \in TaskIds : task'[n].from = task[n].from
  BY OneRowGoesOn DEF OneRow
<1> QED
  BY <1>1, SameCompleted

-----------------------------------------------------------------------------
(* Reading: a handler takes up a request, holds a task or ends.            *)

Fits(h, r) ==
    /\ r.op \in TaskOps => r.task \in TaskIds
    /\ r.op \in TaskOps /\ r.op # "reopen" => IsOpen(r.seen)
    /\ r.op \in {"approve", "deny"} => r.approval \in ApprovalIds
    /\ r.task \in TaskIds =>
         /\ task[r.task].status # "none"
         /\ r.seen.version <= task[r.task].version
         /\ r.seen.version = task[r.task].version => r.seen = Seen(r.task)
    /\ r.holding =>
         /\ r.op = "complete" /\ task[r.task].status = r.seen.status
         /\ \A p \in r.plan : p[1] # r.task
         /\ ~ Held(r.task, h)
    /\ RefOK(r.task, Pending(r.seen))
    /\ \A p \in r.plan : RefOK(p[1], p[2])

LEMMA NewRequest ==
    ASSUME HandlersOK, RefsOK, NEW h \in Handlers, NEW r \in Requests, Fits(h, r),
           request' = [request EXCEPT ![h] = r], UNCHANGED <<task, approval>>
    PROVE  HandlersOK' /\ RefsOK'
<1>1. /\ request' \in [Handlers -> Requests] /\ request'[h] = r
      /\ \A g \in Handlers \ {h} : request'[g] = request[g]
  BY DEF HandlersOK
<1>2. HandlerOK(h)'
  <2>1. \A g \in Handlers \ {h} : r.holding /\ request'[g].holding => request'[g].task # r.task
    BY <1>1 DEF Fits, Held
  <2> QED
    BY <1>1, <2>1 DEF Fits, HandlerOK, Seen, IsOpen
<1>3. ASSUME NEW g \in Handlers \ {h} PROVE HandlerOK(g)'
  <2> DEFINE s == request[g]
  <2>1. HandlerOK(g)
    BY DEF HandlersOK
  <2>2. s.holding /\ r.holding => r.task # s.task
    BY DEF Fits, Held
  <2>3. ASSUME s.holding
        PROVE  \A f \in Handlers \ {g} : request'[f].holding => request'[f].task # s.task
    <3>1. \A f \in Handlers \ {g} : request[f].holding => request[f].task # s.task
      BY <2>1, <2>3 DEF HandlerOK
    <3> QED
      BY <1>1, <2>2, <2>3, <3>1
  <2>4. request'[g] = request[g]
    BY <1>1
  <2> QED
    BY <2>1, <2>3, <2>4 DEF HandlerOK, Seen, IsOpen
<1>4. HandlersOK'
  BY <1>1, <1>2, <1>3 DEF HandlersOK
<1>5. ASSUME NEW g \in Handlers
      PROVE  /\ RefNext(request'[g].task, Pending(request'[g].seen))
             /\ \A p \in request'[g].plan : RefNext(p[1], p[2])
  <2>1. \A t, a : RefOK(t, a) => RefNext(t, a)
    BY DEF RefOK, RefNext
  <2>2. CASE g = h
    BY <1>1, <2>1, <2>2 DEF Fits
  <2>3. CASE g # h
    BY <1>1, <2>1, <2>3 DEF RefsOK
  <2> QED
    BY <2>2, <2>3
<1>6. ASSUME NEW t \in TaskIds PROVE RefNext(t, Pending(task'[t]))
  BY DEF RefsOK, RefOK, RefNext
<1>7. RefsOK'
  BY <1>5, <1>6 DEF RefsOK, RefOK, RefNext, Pending
<1> QED
  BY <1>4, <1>7

LEMMA PlanFits ==
    ASSUME TypeOK, RefsOK, NEW x
    PROVE  /\ Plan(x) \in Plans
           /\ \A p \in Plan(x) : RefOK(p[1], p[2]) /\ p[1] # x
<1>1. ASSUME NEW p \in Plan(x)
      PROVE  /\ p \in TaskIds \X (0 .. MaxApprovals)
             /\ RefOK(p[1], p[2]) /\ p[1] # x
  <2>1. PICK t \in TaskIds \ {x} : p = <<t, Pending(task[t])>>
    BY DEF Plan
  <2>2. Pending(task[t]) \in 0 .. MaxApprovals /\ RefOK(t, Pending(task[t]))
    BY RowTyped DEF RefsOK
  <2> QED
    BY <2>1, <2>2
<1> QED
  BY <1>1 DEF Plans

LEMMA TaskFits ==
    ASSUME TypeOK, RowsOK, RefsOK, NEW h \in Handlers, NEW t \in TaskIds, NEW op \in TaskOps,
           task[t] # NoTask, IsOpen(task[t]) \/ op = "reopen"
    PROVE  LET r == [Idle EXCEPT !.op = op, !.task = t, !.seen = Seen(t)] IN
           r \in Requests /\ Fits(h, r)
<1> DEFINE seen == Seen(t)
           r == [Idle EXCEPT !.op = op, !.task = t, !.seen = seen]
<1>1. /\ seen \in TaskRows /\ seen.status = task[t].status /\ seen.version = task[t].version
      /\ Pending(seen) = Pending(task[t])
  BY SeenTyped
<1>2. task[t].status # "none" /\ RefOK(t, Pending(task[t])) /\ task[t].version \in Nat
  BY RowTyped DEF RowsOK, RefsOK
<1>3. IsOpen(seen) \/ op = "reopen"
  BY <1>1 DEF IsOpen
<1>4. seen = Seen(t)
  OBVIOUS
<1> HIDE DEF seen
<1>5. t \in 0 .. MaxTasks /\ op \in AllOps /\ op \notin {"approve", "deny"}
  BY Bounds
<1>6. r \in Requests
  BY <1>1, <1>5, Blank DEF Requests
<1>7. /\ r.op = op /\ r.task = t /\ r.seen = seen /\ r.holding = FALSE /\ r.plan = {}
  BY DEF Idle
<1> HIDE DEF r
<1>8. Fits(h, r)
  BY <1>1, <1>2, <1>3, <1>4, <1>5, <1>7 DEF Fits
<1> QED
  BY <1>6, <1>8 DEF r, seen

\* A request that is not about a task.
LEMMA OtherFits ==
    ASSUME NEW h \in Handlers, NEW r \in Requests, r.op \notin TaskOps, r.task = 0,
           r.op \in {"approve", "deny"} => r.approval \in ApprovalIds,
           Pending(r.seen) = 0, r.holding = FALSE, \A p \in r.plan : RefOK(p[1], p[2])
    PROVE  Fits(h, r)
<1>1. 0 \notin TaskIds
  BY Bounds
<1>2. RefOK(0, Pending(r.seen))
  BY DEF RefOK
<1> QED
  BY <1>1, <1>2 DEF Fits

LEMMA ReadingKeeps ==
    ASSUME TypeOK, HandlersOK, RowsOK, RefsOK, NEW h \in Handlers, Reading(h)
    PROVE  UNCHANGED <<taskVars, archiveVars, writes>> /\ HandlersOK' /\ RefsOK'
<1>1. ASSUME NEW r \in Requests, Fits(h, r), Take(h, r)
      PROVE  UNCHANGED <<taskVars, archiveVars, writes>> /\ HandlersOK' /\ RefsOK'
  <2>1. request' = [request EXCEPT ![h] = r] /\ UNCHANGED <<taskVars, archiveVars, writes>>
    BY <1>1 DEF Take
  <2>2. UNCHANGED <<task, approval>>
    BY <2>1 DEF taskVars
  <2> QED
    BY <1>1, <2>1, <2>2, NewRequest
<1>2. ASSUME NEW u \in Users, NEW t \in TaskIds, NEW op \in Changes, ReadForChange(h, u, t, op)
      PROVE  \E r \in Requests : Fits(h, r) /\ Take(h, r)
  <2>1. op \in TaskOps
    BY DEF TaskOps
  <2>2. LET r == [Idle EXCEPT !.op = op, !.task = t, !.seen = Seen(t)] IN
        r \in Requests /\ Fits(h, r)
    BY <1>2, <2>1, TaskFits DEF ReadForChange
  <2> QED
    BY <1>2, <2>2 DEF ReadForChange
<1>3. ASSUME NEW u \in Users, NEW t \in TaskIds, ReadForCancel(h, u, t)
      PROVE  \E r \in Requests : Fits(h, r) /\ Take(h, r)
  <2> DEFINE op == CancellationPath(u, task[t])
  <2>1. op \in TaskOps
    BY <1>3 DEF ReadForCancel, CancellationPath, TaskOps
  <2>2. /\ Take(h, [Idle EXCEPT !.op = op, !.task = t, !.seen = Seen(t)])
        /\ task[t] # NoTask /\ IsOpen(task[t])
    BY <1>3 DEF ReadForCancel
  <2> HIDE DEF op
  <2>3. LET r == [Idle EXCEPT !.op = op, !.task = t, !.seen = Seen(t)] IN
        r \in Requests /\ Fits(h, r)
    BY <2>1, <2>2, TaskFits
  <2> QED
    BY <2>2, <2>3
<1>4. ASSUME NEW u \in Users, NEW a \in ApprovalIds, NEW op \in {"approve", "deny"},
             ReadApproval(h, u, a, op)
      PROVE  \E r \in Requests : Fits(h, r) /\ Take(h, r)
  <2> DEFINE r == [Idle EXCEPT !.op = op, !.approval = a]
  <2>1. Take(h, r)
    BY <1>4 DEF ReadApproval
  <2>2. r \in Requests
    <3>1. a \in Nat
      BY DEF ApprovalIds
    <3> QED
      BY <3>1, Blank DEF Requests, AllOps
  <2>3. /\ r.op = op /\ r.task = 0 /\ r.approval = a /\ r.seen = NoTask
        /\ r.holding = FALSE /\ r.plan = {}
    BY DEF Idle
  <2> HIDE DEF r
  <2>4. Fits(h, r)
    BY <2>2, <2>3, OtherFits, Blank, Bounds
  <2> QED
    BY <2>1, <2>2, <2>4
<1>5. ASSUME ReadForReconcile(h)
      PROVE  \E r \in Requests : Fits(h, r) /\ Take(h, r)
  <2> DEFINE plan == Plan(0)
             r == [Idle EXCEPT !.op = "reconcile", !.plan = plan]
  <2>1. Take(h, r)
    BY <1>5 DEF ReadForReconcile
  <2>2. plan \in Plans /\ \A p \in plan : RefOK(p[1], p[2])
    BY PlanFits
  <2> HIDE DEF plan
  <2>3. r \in Requests
    BY <2>2, Blank DEF Requests, AllOps
  <2>4. /\ r.op = "reconcile" /\ r.task = 0 /\ r.seen = NoTask
        /\ r.holding = FALSE /\ r.plan = plan
    BY DEF Idle
  <2> HIDE DEF r
  <2>5. Fits(h, r)
    BY <2>2, <2>3, <2>4, OtherFits, Blank, Bounds
  <2> QED
    BY <2>1, <2>3, <2>5
<1>6. ASSUME NEW u \in Users, ReadForArchive(h, u)
      PROVE  \E r \in Requests : Fits(h, r) /\ Take(h, r)
  <2> DEFINE r == [Idle EXCEPT !.op = "archive"]
  <2>1. Take(h, r)
    BY <1>6 DEF ReadForArchive
  <2>2. r \in Requests
    BY Blank DEF Requests, AllOps
  <2>3. /\ r.op = "archive" /\ r.task = 0 /\ r.seen = NoTask
        /\ r.holding = FALSE /\ r.plan = {}
    BY DEF Idle
  <2> HIDE DEF r
  <2>4. Fits(h, r)
    BY <2>2, <2>3, OtherFits, Blank, Bounds
  <2> QED
    BY <2>1, <2>2, <2>4
<1>7. ASSUME NEW u \in Users, NEW x \in ArchiveIds, NEW op \in {"approve_archive", "deny_archive"},
             ReadArchiveApproval(h, u, x, op)
      PROVE  \E r \in Requests : Fits(h, r) /\ Take(h, r)
  <2> DEFINE status == archive[x].status
             seen == [NoTask EXCEPT !.status = status]
             r == [Idle EXCEPT !.op = op, !.approval = x, !.seen = seen]
  <2>1. status \in OpenStatuses \cup {"completed", "canceled", "none"}
    BY DEF TypeOK
  <2>2. Take(h, r)
    BY <1>7 DEF ReadArchiveApproval
  <2> HIDE DEF status
  <2>3. seen \in TaskRows /\ seen.decision = "none"
    BY <2>1, Blank DEF TaskRows, NoTask
  <2>4. Pending(seen) = 0
    BY <2>3, NotPending
  <2>5. x \in Nat
    BY TaskAssumption DEF ArchiveIds
  <2> HIDE DEF seen
  <2>6. r \in Requests
    BY <2>3, <2>5, Blank DEF Requests, AllOps
  <2>7. /\ r.op = op /\ r.task = 0 /\ r.seen = seen
        /\ r.holding = FALSE /\ r.plan = {}
    BY DEF Idle
  <2> HIDE DEF r
  <2>8. Fits(h, r)
    BY <2>4, <2>6, <2>7, OtherFits, Bounds
  <2> QED
    BY <2>2, <2>6, <2>8
<1>8. \E r \in Requests : Fits(h, r) /\ Take(h, r)
  BY <1>2, <1>3, <1>4, <1>5, <1>6, <1>7 DEF Reading
<1> QED
  BY <1>1, <1>8

LEMMA EndKeeps ==
    ASSUME HandlersOK, RefsOK, NEW h \in Handlers, request' = [request EXCEPT ![h] = Idle],
           UNCHANGED taskVars
    PROVE  HandlersOK' /\ RefsOK'
<1>1. Idle \in Requests /\ Fits(h, Idle)
  <2>1. /\ Idle \in Requests /\ Idle.op = "idle" /\ Idle.task = 0 /\ Idle.holding = FALSE
        /\ Idle.plan = {} /\ Pending(Idle.seen) = 0
    BY Blank DEF Idle
  <2>2. "idle" \notin TaskOps
    BY Bounds
  <2> QED
    BY <2>1, <2>2, OtherFits
<1>2. UNCHANGED <<task, approval>>
  BY DEF taskVars
<1> QED
  BY <1>1, <1>2, NewRequest

LEMMA HoldKeeps ==
    ASSUME TypeOK, HandlersOK, RefsOK, NEW h \in Handlers, HoldFollowUp(h)
    PROVE  UNCHANGED <<taskVars, archiveVars, writes>> /\ HandlersOK' /\ RefsOK'
<1> DEFINE r == request[h]
           plan == Plan(r.task)
           new == [r EXCEPT !.holding = TRUE, !.plan = plan]
<1>1. /\ r.op = "complete" /\ ~ Held(r.task, h) /\ task[r.task].status = r.seen.status
      /\ UNCHANGED <<taskVars, archiveVars, writes>>
  BY DEF HoldFollowUp, IsFollowUp, StillSelected
<1>2. request' = [request EXCEPT ![h] = new]
  BY DEF HoldFollowUp, HandlersOK
<1>3. /\ r \in Requests /\ HandlerOK(h)
      /\ RefOK(r.task, Pending(r.seen))
  BY DEF HandlersOK, RefsOK
<1>4. plan \in Plans /\ \A p \in plan : RefOK(p[1], p[2]) /\ p[1] # r.task
  BY PlanFits
<1> HIDE DEF plan
<1>5. new \in Requests
  BY <1>3, <1>4 DEF Requests
<1>6. /\ new.op = r.op /\ new.task = r.task /\ new.seen = r.seen /\ new.approval = r.approval
      /\ new.holding = TRUE /\ new.plan = plan
  BY <1>3 DEF Requests
<1> HIDE DEF new
<1>7. Fits(h, new)
  BY <1>1, <1>3, <1>4, <1>6 DEF Fits, HandlerOK
<1>8. UNCHANGED <<task, approval>>
  BY <1>1 DEF taskVars
<1> QED
  BY <1>1, <1>2, <1>5, <1>7, <1>8, NewRequest

-----------------------------------------------------------------------------
(* Every step keeps the invariant.                                         *)

TaskPart ==
    /\ task \in [TaskIds -> TaskRows] /\ approval \in [ApprovalIds -> ApprovalRows]
    /\ told \in SUBSET Notices /\ completed \in [TaskIds -> Nat]
    /\ HandlersOK /\ RowsOK /\ RefsOK
    /\ ApprovalIsPaired /\ RequesterIsTold /\ OneSuccessorEach

ArchivePart ==
    /\ archive \in [ArchiveIds ->
         [status : OpenStatuses \cup {"completed", "canceled", "none"},
          decision : {"none", "pending", "approved", "denied"}]]
    /\ archived \in BOOLEAN
    /\ ApprovedIsArchived

LEMMA Parts ==
    Inv <=> TaskPart /\ ArchivePart /\ writes \in Nat
<1>1. HandlersOK => \A h \in Handlers :
        /\ request[h].task \in 0 .. MaxTasks /\ request[h].seen \in TaskRows
        /\ request[h].plan \subseteq TaskIds \X (0 .. MaxApprovals)
  BY DEF HandlersOK, Requests, Plans
<1> QED
  BY <1>1 DEF Inv, TypeOK, TaskPart, ArchivePart, ApprovalRows, Notices

LEMMA PartsNext ==
    ASSUME TaskPart', ArchivePart', writes' \in Nat
    PROVE  Inv'
<1>1. HandlersOK' => \A h \in Handlers :
        /\ request'[h].task \in 0 .. MaxTasks /\ request'[h].seen \in TaskRows
        /\ request'[h].plan \subseteq TaskIds \X (0 .. MaxApprovals)
  BY DEF HandlersOK, Requests, Plans
<1> QED
  BY <1>1 DEF Inv, TypeOK, TaskPart, ArchivePart, ApprovalRows, Notices

\* A step that changes tasks or approvals.
TaskStep ==
    /\ \/ \E h \in Handlers, plan \in Plans : ClosingStep(h, plan)
       \/ EditStep \/ RequestStep \/ DecideStep
    /\ SuccessorsGrow
    /\ writes' = writes + 1
    /\ UNCHANGED archiveVars

LEMMA TaskStepKeeps ==
    ASSUME Inv, TaskStep
    PROVE  TaskPart'
<1>1. TypeOK /\ HandlersOK /\ RowsOK /\ RefsOK /\ ApprovalIsPaired /\ RequesterIsTold
      /\ OneSuccessorEach
  BY DEF Inv
<1>2. GoesOn /\ RefsOK' /\ ApprovalIsPaired' /\ told' \in SUBSET Notices /\ RequesterIsTold'
  <2>1. CASE \E h \in Handlers, plan \in Plans : ClosingStep(h, plan)
    BY <1>1, <2>1, ClosingGoesOn, ClosingRefs, ClosingPairs, ClosingTold
  <2>2. CASE EditStep
    BY <1>1, <2>2, EditGoesOn, EditKeeps
  <2>3. CASE RequestStep
    BY <1>1, <2>3, RequestGoesOn, RequestKeeps
  <2>4. CASE DecideStep
    BY <1>1, <2>4, DecideGoesOn, DecideKeeps
  <2> QED
    BY <2>1, <2>2, <2>3, <2>4 DEF TaskStep
<1>3. HandlersOK' /\ RowsOK'
  BY <1>1, <1>2, HandlersAfter, RowsAfter
<1>4. completed' \in [TaskIds -> Nat] /\ OneSuccessorEach'
  BY <1>1, Growing DEF TaskStep, SuccessorsGrow
<1>5. task' \in [TaskIds -> TaskRows] /\ approval' \in [ApprovalIds -> ApprovalRows]
  BY <1>2 DEF GoesOn
<1> QED
  BY <1>2, <1>3, <1>4, <1>5 DEF TaskPart

\* A step that leaves them alone.
QuietStep == UNCHANGED taskVars /\ HandlersOK' /\ RefsOK'

LEMMA QuietKeeps ==
    ASSUME Inv, QuietStep
    PROVE  TaskPart'
<1>1. TaskPart
  BY Parts
<1>2. UNCHANGED <<task, approval, told, completed>>
  BY DEF QuietStep, taskVars
<1>3. RowsOK' /\ ApprovalIsPaired' /\ RequesterIsTold' /\ OneSuccessorEach'
  BY <1>1, <1>2 DEF TaskPart, RowsOK, ApprovalIsPaired, Pending, RequesterIsTold, OneSuccessorEach
<1> QED
  BY <1>1, <1>2, <1>3 DEF TaskPart, QuietStep

LEMMA WritingSteps ==
    ASSUME Inv, NEW h \in Handlers,
           \/ UpdateTask(h) \/ CompleteRecurring(h) \/ CompleteFollowUp(h) \/ FinishFollowUp(h)
           \/ Reconcile(h) \/ CancelTaskDirectly(h) \/ RequestRemoval(h) \/ DecideRemoval(h)
    PROVE  TaskStep
<1>1. TypeOK /\ HandlersOK /\ RowsOK /\ RefsOK
  BY DEF Inv
<1>2. writes' = writes + 1 /\ UNCHANGED archiveVars
  BY DEF UpdateTask, CompleteRecurring, CompleteFollowUp, FinishFollowUp, Reconcile,
         CancelTaskDirectly, RequestRemoval, DecideRemoval, Done
<1>3. ASSUME NEW plan, ClosingStep(h, plan), SuccessorsGrow
      PROVE  TaskStep
  BY <1>2, <1>3 DEF TaskStep, ClosingStep
<1>4. CASE UpdateTask(h)
  <2>1. CASE request[h].op = "complete"
    BY <1>1, <1>3, <1>4, <2>1, UpdateCloses, UpdateGrows
  <2>2. CASE request[h].op # "complete"
    BY <1>1, <1>2, <1>4, <2>2, UpdateEdits, EditGrows DEF TaskStep
  <2> QED
    BY <2>1, <2>2
<1>5. CASE CompleteRecurring(h)
  BY <1>1, <1>3, <1>5, RecurringCloses, RecurringGrows
<1>6. CASE CompleteFollowUp(h)
  BY <1>1, <1>3, <1>6, FollowUpCloses, FollowUpGrows
<1>7. CASE FinishFollowUp(h)
  BY <1>1, <1>3, <1>7, FinishCloses, FinishGrows
<1>8. CASE Reconcile(h)
  BY <1>1, <1>3, <1>8, ReconcileCloses, ReconcileGrows
<1>9. CASE CancelTaskDirectly(h)
  BY <1>1, <1>2, <1>9, CancelEdits, EditGrows DEF TaskStep
<1>10. CASE RequestRemoval(h)
  <2>1. RequestStep /\ UNCHANGED completed
    BY <1>1, <1>10, RequestSteps DEF RequestRemoval
  <2>2. SuccessorsGrow
    BY <1>1, <2>1, OneRowGrows DEF RequestStep
  <2> QED
    BY <1>2, <2>1, <2>2 DEF TaskStep
<1>11. CASE DecideRemoval(h)
  <2>1. DecideStep /\ UNCHANGED completed
    BY <1>1, <1>11, DecideSteps DEF DecideRemoval
  <2>2. SuccessorsGrow
    BY <1>1, <2>1, OneRowGrows DEF DecideStep
  <2> QED
    BY <1>2, <2>1, <2>2 DEF TaskStep
<1> QED
  BY <1>4, <1>5, <1>6, <1>7, <1>8, <1>9, <1>10, <1>11

LEMMA SyncSteps ==
    ASSUME Inv, SyncOwner
    PROVE  TaskStep
<1>1. EditStep /\ SuccessorsGrow
  BY SyncEdits, EditGrows DEF Inv
<1>2. writes' = writes + 1 /\ UNCHANGED archiveVars
  BY DEF SyncOwner
<1> QED
  BY <1>1, <1>2 DEF TaskStep

\* What happens to the archive approvals and to the contact.
LEMMA ArchiveSteps ==
    ASSUME Inv, \/ \E h \in Handlers : RequestArchive(h) \/ DecideArchive(h)
                \/ UpdateArchiveApproval \/ ArchiveDirectly
    PROVE  QuietStep /\ ArchivePart' /\ writes' = writes + 1
<1>1. ArchivePart /\ HandlersOK /\ RefsOK
  BY Parts DEF Inv
<1> DEFINE Rows == [status : OpenStatuses \cup {"completed", "canceled", "none"},
                    decision : {"none", "pending", "approved", "denied"}]
<1>2. archive \in [ArchiveIds -> Rows] /\ archived \in BOOLEAN /\ ApprovedIsArchived
  BY <1>1 DEF ArchivePart
<1>3. ASSUME NEW h \in Handlers, RequestArchive(h)
      PROVE  QuietStep /\ ArchivePart' /\ writes' = writes + 1
  <2>1. /\ request' = [request EXCEPT ![h] = Idle] /\ UNCHANGED taskVars
        /\ writes' = writes + 1 /\ archived' = archived
    BY <1>3 DEF RequestArchive, Done
  <2>2. PICK x \in ArchiveIds :
             archive' = [archive EXCEPT ![x] = [status |-> "open", decision |-> "pending"]]
    BY <1>3 DEF RequestArchive
  <2>3. archive' \in [ArchiveIds -> Rows]
    BY <1>2, <2>2 DEF OpenStatuses
  <2>4. \A y \in ArchiveIds : archive'[y].decision = "approved" => archive[y].decision = "approved"
    BY <1>2, <2>2
  <2>5. ArchivePart'
    BY <1>2, <2>1, <2>3, <2>4 DEF ArchivePart, ApprovedIsArchived
  <2> QED
    BY <1>1, <2>1, <2>5, EndKeeps DEF QuietStep
<1>4. ASSUME NEW h \in Handlers, DecideArchive(h)
      PROVE  QuietStep /\ ArchivePart' /\ writes' = writes + 1
  <2> DEFINE x == request[h].approval
  <2>1. /\ request' = [request EXCEPT ![h] = Idle] /\ UNCHANGED taskVars
        /\ writes' = writes + 1
    BY <1>4 DEF DecideArchive, Done
  <2>2. ArchivePart'
    <3>1. CASE /\ archived' = TRUE
               /\ archive' = [archive EXCEPT ![x] = [status |-> "completed", decision |-> "approved"]]
      <4>1. archive' \in [ArchiveIds -> Rows]
        BY <1>2, <3>1
      <4> QED
        BY <3>1, <4>1 DEF ArchivePart, ApprovedIsArchived
    <3>2. CASE /\ archived' = archived
               /\ archive' = [archive EXCEPT ![x] = [status |-> "canceled", decision |-> "denied"]]
      <4>1. archive' \in [ArchiveIds -> Rows]
        BY <1>2, <3>2
      <4>2. \A y \in ArchiveIds : archive'[y].decision = "approved" => archive[y].decision = "approved"
        BY <1>2, <3>2
      <4> QED
        BY <1>2, <3>2, <4>1, <4>2 DEF ArchivePart, ApprovedIsArchived
    <3> QED
      BY <1>4, <3>1, <3>2 DEF DecideArchive, ArchiveContact
  <2> QED
    BY <1>1, <2>1, <2>2, EndKeeps DEF QuietStep
<1>5. ASSUME UpdateArchiveApproval
      PROVE  QuietStep /\ ArchivePart' /\ writes' = writes + 1
  <2>1. UNCHANGED <<taskVars, archived, request>> /\ writes' = writes + 1
    BY <1>5 DEF UpdateArchiveApproval
  <2>2. PICK x \in ArchiveIds, op \in Changes \cap {"start", "snooze", "reopen"} :
             archive' = [archive EXCEPT ![x].status = StatusAfter(op, archive[x].status)]
    BY <1>5 DEF UpdateArchiveApproval
  <2> DEFINE status == StatusAfter(op, archive[x].status)
  <2>3. status \in OpenStatuses
    BY DEF StatusAfter, OpenStatuses
  <2> HIDE DEF status
  <2>4. archive' = [archive EXCEPT ![x].status = status]
    BY <2>2 DEF status
  <2>5. archive' \in [ArchiveIds -> Rows]
    BY <1>2, <2>3, <2>4
  <2>6. \A y \in ArchiveIds : archive'[y].decision = archive[y].decision
    BY <1>2, <2>4
  <2>7. ArchivePart'
    BY <1>2, <2>1, <2>5, <2>6 DEF ArchivePart, ApprovedIsArchived
  <2>8. HandlersOK' /\ RefsOK'
    BY <1>1, <2>1 DEF taskVars, HandlersOK, HandlerOK, Seen, IsOpen, RefsOK, RefOK, Pending
  <2> QED
    BY <2>1, <2>7, <2>8 DEF QuietStep
<1>6. ASSUME ArchiveDirectly
      PROVE  QuietStep /\ ArchivePart' /\ writes' = writes + 1
  <2>1. UNCHANGED <<taskVars, archive, request>> /\ writes' = writes + 1 /\ archived' = TRUE
    BY <1>6 DEF ArchiveDirectly
  <2>2. ArchivePart'
    BY <1>2, <2>1 DEF ArchivePart, ApprovedIsArchived
  <2>3. HandlersOK' /\ RefsOK'
    BY <1>1, <2>1 DEF taskVars, HandlersOK, HandlerOK, Seen, IsOpen, RefsOK, RefOK, Pending
  <2> QED
    BY <2>1, <2>2, <2>3 DEF QuietStep
<1> QED
  BY <1>3, <1>4, <1>5, <1>6

LEMMA ArchiveRest ==
    ASSUME Inv, UNCHANGED archiveVars
    PROVE  ArchivePart'
<1>1. ArchivePart
  BY Parts
<1>2. archive' = archive /\ archived' = archived
  BY DEF archiveVars
<1> QED
  BY <1>1, <1>2 DEF ArchivePart, ApprovedIsArchived

LEMMA StepKeeps ==
    ASSUME Inv, Next
    PROVE  Inv'
<1>1. TypeOK /\ HandlersOK /\ RowsOK /\ RefsOK /\ writes \in Nat
  BY DEF Inv, TypeOK
<1>2. ASSUME TaskStep PROVE Inv'
  <2>1. TaskPart' /\ ArchivePart' /\ writes' \in Nat
    BY <1>1, <1>2, TaskStepKeeps, ArchiveRest DEF TaskStep
  <2> QED
    BY <2>1, PartsNext
<1>3. ASSUME UNCHANGED <<taskVars, archiveVars, writes>>, HandlersOK', RefsOK' PROVE Inv'
  <2>1. QuietStep /\ UNCHANGED archiveVars /\ writes' = writes
    BY <1>3 DEF QuietStep
  <2>2. TaskPart' /\ ArchivePart' /\ writes' \in Nat
    BY <1>1, <2>1, QuietKeeps, ArchiveRest
  <2> QED
    BY <2>2, PartsNext
<1>4. ASSUME NEW h \in Handlers, Reading(h) PROVE Inv'
  BY <1>1, <1>3, <1>4, ReadingKeeps
<1>5. ASSUME NEW h \in Handlers, Writing(h) PROVE Inv'
  <2>1. CASE \/ UpdateTask(h) \/ CompleteRecurring(h) \/ CompleteFollowUp(h) \/ FinishFollowUp(h)
             \/ Reconcile(h) \/ CancelTaskDirectly(h) \/ RequestRemoval(h) \/ DecideRemoval(h)
    BY <1>2, <2>1, WritingSteps
  <2>2. CASE HoldFollowUp(h)
    BY <1>1, <1>3, <2>2, HoldKeeps
  <2>3. CASE Abandon(h)
    <3>1. /\ request' = [request EXCEPT ![h] = Idle] /\ UNCHANGED taskVars
          /\ UNCHANGED <<taskVars, archiveVars, writes>>
      BY <2>3 DEF Abandon
    <3> QED
      BY <1>1, <1>3, <3>1, EndKeeps
  <2>4. CASE RequestArchive(h) \/ DecideArchive(h)
    <3>1. QuietStep /\ ArchivePart' /\ writes' \in Nat
      BY <1>1, <2>4, ArchiveSteps
    <3> QED
      BY <3>1, QuietKeeps, PartsNext
  <2> QED
    BY <1>5, <2>1, <2>2, <2>3, <2>4 DEF Writing
<1>6. ASSUME SyncOwner PROVE Inv'
  BY <1>2, <1>6, SyncSteps
<1>7. ASSUME UpdateArchiveApproval \/ ArchiveDirectly PROVE Inv'
  <2>1. QuietStep /\ ArchivePart' /\ writes' \in Nat
    BY <1>1, <1>7, ArchiveSteps
  <2> QED
    BY <2>1, QuietKeeps, PartsNext
<1> QED
  BY <1>4, <1>5, <1>6, <1>7 DEF Next

LEMMA StutterKeeps ==
    ASSUME Inv, UNCHANGED vars
    PROVE  Inv'
<1>1. /\ UNCHANGED <<task, approval, told, archive, archived, request, completed, writes>>
      /\ UNCHANGED <<taskVars, archiveVars>>
  BY DEF vars, taskVars, archiveVars
<1>2. HandlersOK' /\ RefsOK'
  BY <1>1 DEF Inv, HandlersOK, HandlerOK, Seen, IsOpen, RefsOK, RefOK, Pending
<1>3. TaskPart' /\ ArchivePart' /\ writes' \in Nat
  BY <1>1, <1>2, QuietKeeps, ArchiveRest DEF QuietStep, Inv, TypeOK
<1> QED
  BY <1>3, PartsNext

LEMMA InitHolds ==
    ASSUME Init
    PROVE  Inv
<1>1. ASSUME NEW t \in TaskIds
      PROVE  /\ task[t] \in TaskRows /\ task[t].from = 0 /\ Pending(task[t]) = 0
             /\ task[t].status = "none" => task[t] = NoTask
  <2>1. CASE t <= Len(Opening)
    <3> DEFINE o == Opening[t]
               row == [NoTask EXCEPT !.kind = o.kind, !.status = "open",
                                     !.owner = o.owner, !.fine = o.fine]
    <3>1. o \in [kind : Kinds, owner : Users, fine : BOOLEAN]
      <4> DEFINE S == [kind : Kinds, owner : Users, fine : BOOLEAN]
      <4> HIDE DEF S
      <4>1. Opening \in Seq(S) /\ MaxTasks \in Nat
        BY TaskAssumption DEF S
      <4>2. t \in 1 .. Len(Opening)
        BY <2>1, <4>1 DEF TaskIds
      <4>3. Opening[t] \in S
        BY <4>1, <4>2
      <4> QED
        BY <4>3 DEF S
    <3>2. task[t] = row
      BY <2>1 DEF Init
    <3> HIDE DEF o
    <3>3. row \in TaskRows
      BY <3>1, Blank DEF TaskRows, OpenStatuses
    <3>4. row.from = 0 /\ row.status = "open" /\ row.decision = "none"
      BY DEF NoTask
    <3> HIDE DEF row
    <3> QED
      BY <3>2, <3>3, <3>4, NotPending
  <2>2. CASE ~ t <= Len(Opening)
    BY <2>2, Blank DEF Init
  <2> QED
    BY <2>1, <2>2
<1>2. task \in [TaskIds -> TaskRows]
  <2>1. task = [t \in TaskIds |-> task[t]]
    BY DEF Init
  <2> QED
    BY <1>1, <2>1
<1>3. /\ approval \in [ApprovalIds -> ApprovalRows]
      /\ \A a \in ApprovalIds : approval[a].status = "none"
  <2>1. 0 \in 0 .. MaxTasks
    BY Bounds
  <2>2. NoApproval \in ApprovalRows
    BY <2>1 DEF NoApproval, ApprovalRows, Decisions
  <2>3. approval = [a \in ApprovalIds |-> NoApproval]
    BY DEF Init
  <2> QED
    BY <2>2, <2>3, Blank
<1>4. told = {} /\ told \in SUBSET Notices
  BY DEF Init
<1>5. HandlersOK /\ RefsOK
  <2>1. \A h \in Handlers : request[h] = Idle
    BY DEF Init
  <2>2. request \in [Handlers -> Requests]
    BY Blank DEF Init
  <2>3. \A h \in Handlers : HandlerOK(h)
    BY <2>1, Blank, Bounds DEF HandlerOK
  <2>4. RefsOK
    BY <1>1, <2>1, Blank DEF RefsOK, RefOK
  <2> QED
    BY <2>2, <2>3, <2>4 DEF HandlersOK
<1>6. RowsOK /\ ApprovalIsPaired
  BY <1>1, <1>3 DEF RowsOK, ApprovalIsPaired
<1>7. RequesterIsTold
  <2>1. Tells(told, approval)
    BY <1>3, <1>4 DEF Tells, Ought
  <2> QED
    BY <1>4, <2>1, TellsIs
<1>8. completed \in [TaskIds -> Nat] /\ OneSuccessorEach
  <2>1. completed = [t \in TaskIds |-> 0]
    BY DEF Init
  <2>2. ASSUME NEW t \in TaskIds PROVE {n \in TaskIds : task[n].from = t} = {}
    BY <1>1, Bounds
  <2>3. \A t \in TaskIds : Cardinality({n \in TaskIds : task[n].from = t}) = 0 /\ completed[t] = 0
    BY <2>1, <2>2, FS_EmptySet
  <2>4. OneSuccessorEach
    BY <2>3 DEF OneSuccessorEach
  <2> QED
    BY <2>1, <2>4
<1>9. ArchivePart
  BY DEF Init, NoArchive, ArchivePart, ApprovedIsArchived
<1>10. writes \in Nat
  BY DEF Init
<1> QED
  BY <1>2, <1>3, <1>4, <1>5, <1>6, <1>7, <1>8, <1>9, <1>10, Parts DEF TaskPart

-----------------------------------------------------------------------------
(* Theorems.                                                               *)

\* Every reachable state has the types that the module says, and the invariant.
THEOREM Invariant == Spec => []Inv
<1>1. Inv /\ [Next]_vars => Inv'
  BY StepKeeps, StutterKeeps
<1> QED
  BY InitHolds, <1>1, PTL DEF Spec

THEOREM TypeCorrect == Spec => []TypeOK
<1>1. Inv => TypeOK
  BY DEF Inv
<1> QED
  BY <1>1, Invariant, PTL

\* An open approval and its task always know of each other, whichever of the
\* paths to a task's end crossed with the request and the decision.
THEOREM ApprovalsPaired == Spec => []ApprovalIsPaired
<1>1. Inv => ApprovalIsPaired
  BY DEF Inv
<1> QED
  BY <1>1, Invariant, PTL

\* The requester hears of each approval that ended, once, and as it ended.
THEOREM RequestersTold == Spec => []RequesterIsTold
<1>1. Inv => RequesterIsTold
  BY DEF Inv
<1> QED
  BY <1>1, Invariant, PTL

\* No task has more successors than it was completed times.
THEOREM SuccessorsCounted == Spec => []OneSuccessorEach
<1>1. Inv => OneSuccessorEach
  BY DEF Inv
<1> QED
  BY <1>1, Invariant, PTL

\* An approval of an archiving that says so is right.
THEOREM ArchivedAsApproved == Spec => []ApprovedIsArchived
<1>1. Inv => ApprovedIsArchived
  BY DEF Inv
<1> QED
  BY <1>1, Invariant, PTL

\* What one step does to a task that is closed.
StaysClosed ==
    \A t \in TaskIds :
      task[t].status \in {"completed", "canceled"} /\ task'[t].status # task[t].status =>
        /\ task'[t].status = "open"
        /\ \E h \in Handlers : request[h].op = "reopen" /\ request[h].task = t
                               /\ request[h].seen = Seen(t)

LEMMA ClosedStep ==
    ASSUME Inv, [Next]_vars
    PROVE  StaysClosed
<1>1. TypeOK /\ HandlersOK /\ RowsOK /\ RefsOK
  BY DEF Inv
<1>2. ASSUME TaskStep, NEW t \in TaskIds, task[t].status \in {"completed", "canceled"},
             task'[t].status # task[t].status
      PROVE  /\ task'[t].status = "open"
             /\ \E h \in Handlers : request[h].op = "reopen" /\ request[h].task = t
                                    /\ request[h].seen = Seen(t)
  <2>1. ~ IsOpen(task[t]) /\ task[t] # NoTask /\ task'[t] # task[t]
    BY <1>2, Blank DEF IsOpen, OpenStatuses
  <2>2. ASSUME NEW h \in Handlers, NEW plan, ClosingStep(h, plan) PROVE FALSE
    BY <2>1, <2>2 DEF ClosingStep, ClosesTo, RowKept, RowCloses, RowMade
  <2>3. ASSUME NEW u, NEW new, OneRow(u, new),
               new.status = task[u].status \/ IsOpen(task[u])
        PROVE  FALSE
    <3>1. u \in TaskIds /\ task'[u] = new /\ \A v \in TaskIds \ {u} : task'[v] = task[v]
      BY <1>1, <2>3, OneRowGoesOn DEF OneRow
    <3> QED
      BY <1>2, <2>1, <2>3, <3>1
  <2>4. ~ RequestStep
    BY <2>3 DEF RequestStep
  <2>5. ~ DecideStep
    BY <2>3 DEF DecideStep
  <2>6. EditStep
    BY <1>2, <2>2, <2>4, <2>5 DEF TaskStep
  <2>7. RowEdited(task'[t], t)
    BY <2>1, <2>6 DEF EditStep
  <2> QED
    BY <1>2, <2>1, <2>7 DEF RowEdited
<1>3. TaskStep => StaysClosed
  BY <1>2 DEF StaysClosed
<1>4. UNCHANGED task => StaysClosed
  BY DEF StaysClosed
<1>5. ASSUME UNCHANGED taskVars PROVE StaysClosed
  BY <1>4, <1>5 DEF taskVars
<1>6. ASSUME NEW h \in Handlers, Reading(h) PROVE StaysClosed
  BY <1>1, <1>5, <1>6, ReadingKeeps
<1>7. ASSUME NEW h \in Handlers, Writing(h) PROVE StaysClosed
  <2>1. CASE \/ UpdateTask(h) \/ CompleteRecurring(h) \/ CompleteFollowUp(h) \/ FinishFollowUp(h)
             \/ Reconcile(h) \/ CancelTaskDirectly(h) \/ RequestRemoval(h) \/ DecideRemoval(h)
    BY <1>3, <2>1, WritingSteps
  <2>2. CASE HoldFollowUp(h) \/ Abandon(h) \/ RequestArchive(h) \/ DecideArchive(h)
    BY <1>5, <2>2 DEF HoldFollowUp, Abandon, RequestArchive, DecideArchive
  <2> QED
    BY <1>7, <2>1, <2>2 DEF Writing
<1>8. SyncOwner => StaysClosed
  BY <1>3, SyncSteps
<1>9. UpdateArchiveApproval \/ ArchiveDirectly => StaysClosed
  BY <1>5 DEF UpdateArchiveApproval, ArchiveDirectly
<1>10. UNCHANGED vars => StaysClosed
  BY <1>4 DEF vars
<1> QED
  BY <1>6, <1>7, <1>8, <1>9, <1>10 DEF Next

\* A closed task stays closed, as it was closed, until somebody who saw it that
\* way reopens it: no approval, reconciliation or completion comes too late.
THEOREM ClosedForGood == Spec => ClosedStaysClosed
<1>1. Inv /\ [Next]_vars => StaysClosed
  BY ClosedStep
<1>2. Spec => [][StaysClosed]_vars
  BY <1>1, Invariant, PTL DEF Spec
<1> QED
  BY <1>2 DEF ClosedStaysClosed, StaysClosed

=============================================================================
