------------------------- MODULE FollowUpSequences -------------------------
(***************************************************************************)
(* One follow-up sequence: contacts are enrolled, and whoever runs the due *)
(* steps makes of each a draft, a review task or both, and moves the       *)
(* enrollment on.                                                          *)
(*                                                                         *)
(* A run lists the due enrollments without a transaction and then works on *)
(* the copies it has, each in a transaction of its own that compares       *)
(* nothing with the row any more: only the unique key of a step run, made  *)
(* of enrollment, step and due time, tells it that another run was faster. *)
(* Contacts are blocked and merged meanwhile, and a run may die.           *)
(***************************************************************************)
EXTENDS Naturals, FiniteSets, FiniteSetsExt, Sequences

CONSTANTS
    Handlers,       \* runs under way at a time
    Contacts,
    Enrollments,    \* rows that can be made
    Steps,          \* the sequence has steps 1 .. Steps, all active
    Drafts,         \* the steps of action_type draft, which make no task
    Delay,          \* delay_minutes of a step
    MaxTouches,     \* bound on max_touches, which each enrollment has its own of
    Limit,          \* enrollments a run takes at most
    Quiet,          \* times within the quiet hours
    MaxTime,        \* bound on the clock
    MaxLists,       \* bound on the runs
    None

ASSUME SequenceAssumption ==
    /\ Steps \in Nat \ {0} /\ Drafts \subseteq 1 .. Steps
    /\ Delay \in Nat /\ MaxTouches \in Nat \ {0}
    /\ Limit \in Nat \ {0} /\ MaxTime \in Nat /\ MaxLists \in Nat /\ Quiet \subseteq 0 .. MaxTime
    /\ None \notin Contacts

VARIABLES
    blocked,        \* contacts marked do-not-call or wrong number
    archived,       \* contacts that were merged into another one
    enrollment,
    runs,           \* follow_up_sequence_step_runs, as their unique keys
    tasks,          \* review tasks each enrollment got for each step
    taken,          \* history: the steps each enrollment took, in order
    deferrals,      \* history: how often quiet hours put the enrollment off
    now,
    lists,          \* runs so far
    work            \* what each handler has listed and not yet worked on

vars == <<blocked, archived, enrollment, runs, tasks, taken, deferrals, now, lists,
          work>>

history == <<taken, deferrals>>

NoEnrollment == [status |-> "absent", contact |-> None, position |-> 1, due |-> 0,
                 touches |-> 0, max |-> 1]
Idle == [listed |-> FALSE, now |-> 0, due |-> {}]

Init ==
    /\ blocked = {} /\ archived = {}
    /\ enrollment = [e \in Enrollments |-> NoEnrollment]
    /\ runs = {} /\ tasks = [e \in Enrollments |-> [s \in 1 .. Steps |-> 0]]
    /\ taken = [e \in Enrollments |-> <<>>] /\ deferrals = [e \in Enrollments |-> 0]
    /\ now = 0 /\ lists = 0
    /\ work = [h \in Handlers |-> Idle]

ActiveOf(c) == {e \in Enrollments : enrollment[e].status = "active" /\ enrollment[e].contact = c}

-----------------------------------------------------------------------------
\* enrollContactInFollowUpSequence: on conflict with an active enrollment of
\* the contact nothing changes.  Archived contacts are not refused.
Enroll(e, c, due, max) ==
    /\ enrollment[e].status = "absent" /\ ActiveOf(c) = {}
    /\ enrollment' = [enrollment EXCEPT ![e] =
         [status |-> "active", contact |-> c, position |-> 1, due |-> due,
          touches |-> 0, max |-> max]]
    /\ UNCHANGED <<blocked, archived, runs, tasks, history, now, lists, work>>

\* An employee marks a contact do-not-call or wrong number, or takes it back.
Mark(c) ==
    /\ blocked' = IF c \in blocked THEN blocked \ {c} ELSE blocked \cup {c}
    /\ UNCHANGED <<archived, enrollment, runs, tasks, history, now, lists, work>>

-----------------------------------------------------------------------------
(* A run of the due steps.                                                 *)

\* evaluateFollowUpStepEligibility.  Whether templates, the sequence and the
\* window of the channel allow the step is the environment's: "other".
Reasons(e, other) ==
    (IF enrollment[e].contact \in blocked THEN {"contact"} ELSE {})
        \cup (IF enrollment[e].touches >= enrollment[e].max THEN {"max"} ELSE {})
        \cup (IF now \in Quiet THEN {"quiet"} ELSE {})
        \cup (IF other THEN {"other"} ELSE {})

Copy(e, other) == [enrollment |-> e, due |-> enrollment[e].due,
                   step |-> enrollment[e].position, reasons |-> Reasons(e, other)]

\* The join with the steps drops an enrollment that has none at its position.
Due == {e \in Enrollments :
          enrollment[e].status = "active" /\ enrollment[e].due <= now
              /\ enrollment[e].position <= Steps}

\* The order by next_step_due_at and the limit.
Listed(es) ==
    /\ Cardinality(es) = Min({Limit, Cardinality(Due)})
    /\ \A e \in es, f \in Due \ es : enrollment[e].due <= enrollment[f].due

\* listDueFollowUpSteps: one query, and the time of the run.
List(h) ==
    /\ work[h] = Idle
    /\ lists < MaxLists /\ lists' = lists + 1
    /\ \E es \in SUBSET Due : es # {} /\ Listed(es) /\ \E others \in SUBSET es :
         work' = [work EXCEPT ![h] = [listed |-> TRUE, now |-> now,
                    due |-> {Copy(e, e \in others) : e \in es}]]
    /\ UNCHANGED <<blocked, archived, enrollment, runs, tasks, history, now>>

Done(h, d) == work' = [work EXCEPT ![h].due = @ \ {d}]

\* Mutant of Key: the time of the run for the due time.
KeyOfNow(d) == <<d.enrollment, d.step, now>>

\* The unique key of a step run.
Key(d) == <<d.enrollment, d.step, d.due>>

\* nextQuietHoursExit
QuietExit(t) == Min({u \in t .. MaxTime + 1 : u \notin Quiet})

\* Only quiet hours keep the step back: deferEnrollment, a statement of its own.
Defer(h, d) ==
    /\ d.reasons = {"quiet"}
    /\ enrollment' = [enrollment EXCEPT ![d.enrollment].due = QuietExit(work[h].now)]
    /\ deferrals' = [deferrals EXCEPT ![d.enrollment] = @ + 1]
    /\ UNCHANGED <<runs, tasks, taken>>

\* A blocked step stops the enrollment for good reasons, if its run is new.
StopsFor(d) == Key(d) \notin runs /\ d.reasons \cap {"contact", "max"} # {}

\* Mutant of Blocked: no run is recorded for a step that was not executed.
Unrecorded(d) ==
    /\ d.reasons \notin {{}, {"quiet"}}
    /\ enrollment' = [enrollment EXCEPT ![d.enrollment].status = IF StopsFor(d) THEN "stopped" ELSE @]
    /\ UNCHANGED <<runs, tasks, history>>

\* createRun with status blocked, and stopEnrollment.
Blocked(d) ==
    /\ d.reasons \notin {{}, {"quiet"}}
    /\ runs' = runs \cup {Key(d)}
    /\ enrollment' = [enrollment EXCEPT ![d.enrollment].status = IF StopsFor(d) THEN "stopped" ELSE @]
    /\ UNCHANGED <<tasks, history>>

\* advanceEnrollment: the row x, from the step of the copy.
OneFurther(x, d, t) ==
    [x EXCEPT !.touches = @ + 1, !.position = d.step + 1,
              !.status = IF d.step = Steps THEN "completed" ELSE @,
              !.due = IF d.step = Steps THEN @ ELSE t + Delay]

Advanced(d, t) == [enrollment EXCEPT ![d.enrollment] = OneFurther(@, d, t)]

\* createRun, createReviewTask, unless the step is a draft, and
\* advanceEnrollment in one transaction.
Execute(h, d) ==
    /\ d.reasons = {} /\ Key(d) \notin runs
    /\ runs' = runs \cup {Key(d)}
    /\ tasks' = [tasks EXCEPT ![d.enrollment][d.step] = IF d.step \in Drafts THEN @ ELSE @ + 1]
    /\ taken' = [taken EXCEPT ![d.enrollment] = Append(@, d.step)]
    /\ enrollment' = Advanced(d, work[h].now)
    /\ UNCHANGED deferrals

\* The key is taken: nothing is done.
Duplicate(d) ==
    /\ d.reasons = {} /\ Key(d) \in runs
    /\ UNCHANGED <<enrollment, runs, tasks, history>>

\* executeDueFollowUpSteps, for one of the listed steps.
Perform(h) ==
    /\ \E d \in work[h].due :
         /\ Defer(h, d) \/ Blocked(d) \/ Execute(h, d) \/ Duplicate(d)
         /\ Done(h, d)
    /\ UNCHANGED <<blocked, archived, now, lists>>

\* The run is over, or fails at a step and drops the others.
Return(h) ==
    /\ work[h] # Idle
    /\ work' = [work EXCEPT ![h] = Idle]
    /\ UNCHANGED <<blocked, archived, enrollment, runs, tasks, history, now, lists>>

-----------------------------------------------------------------------------
(* applyContactMerge, as far as it concerns sequences.                     *)

\* Mutant of MergedStatus: a duplicate enrollment is moved as it is.
StatusKept(e, c, d) == enrollment[e].status

\* preserveCollisions: of two active enrollments the source's is given up.
MergedStatus(e, c, d) ==
    IF e \in ActiveOf(c) /\ ActiveOf(d) # {} THEN "merged_duplicate" ELSE enrollment[e].status

\* Mutant of Moved: the source's rows lose their contact.
Detached(x, c, d) == IF x.contact = c THEN [x EXCEPT !.contact = None] ELSE x

\* All enrollments of the source become the target's.
Moved(x, c, d) == IF x.contact = c THEN [x EXCEPT !.contact = d] ELSE x

Merge(c, d) ==
    /\ c # d /\ {c, d} \cap archived = {}
    /\ enrollment' = [e \in Enrollments |->
         [Moved(enrollment[e], c, d) EXCEPT !.status = MergedStatus(e, c, d)]]
    /\ blocked' = IF c \in blocked THEN blocked \cup {d} ELSE blocked
    /\ archived' = archived \cup {c}
    /\ UNCHANGED <<runs, tasks, history, now, lists, work>>

Tick ==
    /\ now < MaxTime
    /\ now' = now + 1
    /\ UNCHANGED <<blocked, archived, enrollment, runs, tasks, history, lists, work>>

Next ==
    \/ \E e \in Enrollments, c \in Contacts, due \in {now, now + Delay}, max \in 1 .. MaxTouches :
         Enroll(e, c, due, max)
    \/ \E c \in Contacts : Mark(c)
    \/ \E c, d \in Contacts : Merge(c, d)
    \/ \E h \in Handlers : List(h) \/ Perform(h) \/ Return(h)
    \/ Tick

Spec == Init /\ [][Next]_vars

-----------------------------------------------------------------------------
(* Properties.                                                             *)

Statuses == {"active", "completed", "stopped", "merged_duplicate"}

TypeOK ==
    /\ blocked \subseteq Contacts /\ archived \subseteq Contacts
    /\ enrollment \in [Enrollments -> {NoEnrollment} \cup
         [status : Statuses, contact : Contacts, position : 1 .. Steps + 1,
          due : Nat, touches : Nat, max : 1 .. MaxTouches]]
    /\ runs \subseteq Enrollments \X (1 .. Steps) \X Nat
    /\ tasks \in [Enrollments -> [1 .. Steps -> Nat]]
    /\ taken \in [Enrollments -> Seq(1 .. Steps)]
    /\ deferrals \in [Enrollments -> Nat]
    /\ now \in 0 .. MaxTime /\ lists \in 0 .. MaxLists

\* How often the enrollment took a step.
Times(e, s) == Cardinality({n \in DOMAIN taken[e] : taken[e][n] = s})

\* However runs overlap and die: touch_count, which the limit of touches is
\* compared with, is the number of steps the enrollment took, a step has a task
\* for each time it was taken unless it is a draft, and no step is skipped.  An
\* enrollment that never met quiet hours takes each step before its position
\* once, in order, and not more than its touches; each time that quiet hours
\* put it off brings about one repetition of a step and one touch at most.
EachStepOnce ==
    \A e \in Enrollments :
        /\ enrollment[e].touches = Len(taken[e])
        /\ \A s \in 1 .. Steps :
             /\ tasks[e][s] = IF s \in Drafts THEN 0 ELSE Times(e, s)
             /\ Times(e, s) <= 1 + deferrals[e]
        /\ \A n \in DOMAIN taken[e] :
             taken[e][n] = 1 \/ \E m \in 1 .. n - 1 : taken[e][m] = taken[e][n] - 1
        /\ Len(taken[e]) <= enrollment[e].max + deferrals[e]
        /\ deferrals[e] = 0 => taken[e] = [n \in 1 .. enrollment[e].position - 1 |-> n]

\* Once a run has stopped an enrollment that never met quiet hours, no run that
\* listed it before takes another step of it, gives it another task or another
\* status.
StoppedStaysStopped ==
    [][\A e \in Enrollments : deferrals'[e] = 0 /\ enrollment[e].status = "stopped" =>
         /\ enrollment'[e].status = "stopped"
         /\ tasks'[e] = tasks[e] /\ taken'[e] = taken[e]]_vars

\* A contact, also one that others were merged into, is in the sequence once.
OneActiveEach == \A c \in Contacts : Cardinality(ActiveOf(c)) <= 1

\* docs/comms-observability-runbook.md: "DNC/wrong-number and max-touch blocks
\* should stop the enrollment."
BlockStops ==
    [][\A h \in Handlers : \A d \in work[h].due \ work'[h].due :
         work'[h] # Idle /\ "contact" \in d.reasons => enrollment'[d.enrollment].status # "active"]_vars
=============================================================================
