------------------------- MODULE AttendanceSession -------------------------
(***************************************************************************)
(* One session of a class: the row the attendance service keeps under a    *)
(* revision, and the browser tabs in which employees mark it.              *)
(*                                                                         *)
(* A tab holds the revision it last heard of, the status and the note that *)
(* came with it, and a draft of the marks.  It writes with the revision it *)
(* holds; the service refuses an older one, except that a request whose    *)
(* effect is already there is answered as a success, whoever brought it    *)
(* about and at whatever revision.  The answer carries the status, note    *)
(* and revision of the row and never the marks.  A tab beside the class    *)
(* editor also loads the workspace again in the background, unordered with *)
(* the request it may be waiting for.                                      *)
(*                                                                         *)
(* The transactions of the service lock the session row first, so each is  *)
(* one action; the load of the workspace runs outside of a transaction and *)
(* reads the row before the marks.                                         *)
(***************************************************************************)
EXTENDS Naturals, FiniteSets

CONSTANTS
    Tabs,           \* browser tabs that show the session
    Managers,       \* tabs of users who may reopen (senior coordinator, admin)
    Refreshers,     \* tabs whose class editor reloads the workspace
    Flaky,          \* tabs that may give up on a request the service still has
    Students,       \* enrollments of the section
    Marks,          \* what a student's record can say: status and note
    Present,        \* the mark of "mark all present"
    Notes,          \* session notes
    Reasons,        \* reasons for reopening
    Nil,            \* no mark, no note, no reason, no request
    MaxRevision     \* bound on the changes of a run

ASSUME AttendanceAssumption ==
    /\ IsFiniteSet(Students)
    /\ Managers \subseteq Tabs /\ Refreshers \subseteq Tabs /\ Flaky \subseteq Tabs
    /\ Present \in Marks
    /\ Nil \notin Marks \cup Notes \cup Reasons
    /\ Nil # "open" /\ Nil # "submitted"
    /\ MaxRevision \in Nat

VARIABLES
    revision,       \* class_sessions.revision; 0 before the row exists
    status,         \* class_sessions.status
    note,           \* class_sessions.session_note
    marks,          \* attendance_records of the session, by enrollment
    reason,         \* reason of the latest session_reopened activity
    audit,          \* history: marks of the first submission, with every
                    \* mark_corrected activity replayed over them
    eligible        \* enrollments active on the date of the session

VARIABLES
    tab,            \* what the page holds
    fetch,          \* the load of the workspace under way
    call,           \* the mutation the tab waits for
    stray           \* a mutation the tab gave up, still with the service

service == <<revision, status, note, marks, reason, audit>>
client == <<tab, fetch, call, stray>>
vars == <<revision, status, note, marks, reason, audit, eligible,
          tab, fetch, call, stray>>

MarkSheets == [Students -> Marks \cup {Nil}]
Blank == [s \in Students |-> Nil]
Marked(sheet) == {s \in Students : sheet[s] # Nil}
Only(sheet, roster) == [s \in Students |-> IF s \in roster THEN sheet[s] ELSE Nil]

Operations == {"note", "marks", "submit", "reopen"}

Mutations ==
    [op : Operations, rev : Nat, marks : MarkSheets,
     note : Notes \cup {Nil}, reason : Reasons \cup {Nil}]

-----------------------------------------------------------------------------
(* The service.                                                            *)

SessionRoster == eligible \cup Marked(marks)

\* The row a change needs: it exists, or the caller knew that it does not and
\* it is created.  A revision that is not the current one refuses the change.
AtRevision(r) == r.rev = revision

\* Mutant of NextRevision: numbers a new row 0.
NextRevisionFromZero == IF revision = 0 THEN 0 ELSE revision + 1

\* A row is created at revision 1 and every later change adds one.
NextRevision == revision + 1

OnRoster(r) == Marked(r.marks) \subseteq SessionRoster

\* Mutant of Corrections: misses a mark that was taken away.
CorrectionsOfMarked(r) == {s \in Marked(r.marks) : r.marks[s] # marks[s]}

\* attendanceDiff: a correction is logged for each mark that differs.
Corrections(r) == {s \in Students : r.marks[s] # marks[s]}

SaveSessionNote(r) ==
    /\ r.op = "note"
    /\ AtRevision(r) /\ status = "open"
    /\ revision = 0 \/ note # r.note
    /\ note' = r.note
    /\ revision' = NextRevision
    /\ UNCHANGED <<status, marks, reason, audit>>

\* Mutant of SaveAttendanceSnapshot: replaces the records and leaves the row.
SaveRecordsOnly(r) ==
    /\ r.op = "marks" /\ AtRevision(r) /\ status = "open" /\ OnRoster(r)
    /\ revision = 0 \/ marks # r.marks
    /\ marks' = r.marks
    /\ revision' = IF revision = 0 THEN 1 ELSE revision
    /\ UNCHANGED <<status, note, reason, audit>>

SaveAttendanceSnapshot(r) ==
    /\ r.op = "marks"
    /\ AtRevision(r) /\ status = "open"
    /\ OnRoster(r)
    /\ revision = 0 \/ marks # r.marks
    /\ marks' = r.marks
    /\ revision' = NextRevision
    /\ audit' = IF reason = Nil THEN audit
                ELSE [s \in Students |->
                        IF s \in Corrections(r) THEN r.marks[s] ELSE audit[s]]
    /\ UNCHANGED <<status, note, reason>>

\* Mutant of EveryoneMarked: only counts.
AsManyAsEligible == Cardinality(Marked(marks)) >= Cardinality(eligible)

\* Every student of the roster is marked: as many marks as students, and no
\* mark of a student who is not on it.
EveryoneMarked ==
    /\ Cardinality(Marked(marks)) = Cardinality(SessionRoster)
    /\ Marked(marks) \subseteq SessionRoster

SubmitAttendanceSession(r) ==
    /\ r.op = "submit"
    /\ AtRevision(r) /\ revision > 0 /\ status = "open"
    /\ SessionRoster # {}
    /\ EveryoneMarked
    /\ status' = "submitted"
    /\ revision' = NextRevision
    /\ audit' = IF reason = Nil THEN marks ELSE audit
    /\ UNCHANGED <<note, marks, reason>>

ReopenAttendanceSession(r) ==
    /\ r.op = "reopen"
    /\ AtRevision(r) /\ status = "submitted"
    /\ status' = "open"
    /\ reason' = r.reason
    /\ revision' = NextRevision
    /\ UNCHANGED <<note, marks, audit>>

\* The change asked for is committed.
Commit(r) ==
    /\ revision < MaxRevision
    /\ \/ SaveSessionNote(r)
       \/ SaveAttendanceSnapshot(r)
       \/ SubmitAttendanceSession(r)
       \/ ReopenAttendanceSession(r)

\* The change asked for is already there: the row is returned as it stands,
\* before the caller's revision is looked at.
AlreadyDone(r) ==
    /\ revision > 0
    /\ \/ r.op = "note" /\ note = r.note
       \/ r.op = "marks" /\ OnRoster(r) /\ marks = r.marks
       \/ r.op = "submit" /\ status = "submitted" /\ SessionRoster # {}
       \/ r.op = "reopen" /\ status = "open" /\ reason = r.reason

\* serializeSession: the marks are not part of the answer.  "echo" remembers
\* that a request with another revision was answered as already done.
Answer(r, echo) ==
    [rev |-> revision', status |-> status', note |-> note',
     echo |-> echo /\ revision # r.rev]

-----------------------------------------------------------------------------
(* The page.                                                               *)

NoMutation ==
    [op |-> "note", rev |-> 0, marks |-> Blank, note |-> Nil, reason |-> Nil]
NoAnswer == [rev |-> 0, status |-> "open", note |-> Nil, echo |-> FALSE]
NoCall == [stage |-> "none", req |-> NoMutation, prev |-> Blank, answer |-> NoAnswer]
NoFetch == [stage |-> "none", background |-> FALSE, rev |-> 0, status |-> "open",
            note |-> Nil, roster |-> {}, draft |-> Blank]

\* A page before its first load.  "fresh" is a history variable: since the last
\* load nothing has parted the draft from the revision held beside it.
Closed == [open |-> FALSE, rev |-> 0, status |-> "open", note |-> Nil,
           roster |-> {}, draft |-> Blank, fresh |-> FALSE]

Init ==
    /\ revision = 0
    /\ status = "open"
    /\ note = Nil
    /\ marks = Blank
    /\ reason = Nil
    /\ audit = Blank
    /\ eligible \in SUBSET Students
    /\ tab = [t \in Tabs |-> Closed]
    /\ fetch = [t \in Tabs |-> NoFetch]
    /\ call = [t \in Tabs |-> NoCall]
    /\ stray = [t \in Tabs |-> Nil]

Waiting(t) == call[t].stage # "none"
Loading(t) == fetch[t].stage # "none"

\* Nothing can be clicked while a mutation is under way, while a foreground
\* load hides the workspace, and after a failed load until it is retried.
Usable(t) ==
    /\ tab[t].open
    /\ ~ Waiting(t)
    /\ Loading(t) => fetch[t].background

\* The page is opened, or its load is retried.  A load replaces the last one.
\* What the page held is out of sight until the load overwrites it, so it is
\* dropped here.
Load(t) ==
    /\ tab[t].open => ~ Waiting(t)
    /\ Loading(t) => fetch[t].background
    /\ fetch' = [fetch EXCEPT ![t] = [NoFetch EXCEPT !.stage = "asked"]]
    /\ tab' = [tab EXCEPT ![t] = Closed]
    /\ UNCHANGED <<service, eligible, call, stray>>

\* The class editor saved a class: the workspace is loaded again behind the
\* page, whatever the page is doing.  A foreground load stays one.
Refresh(t) ==
    /\ t \in Refreshers
    /\ tab[t].open \/ Loading(t)
    /\ fetch' = [fetch EXCEPT ![t] =
                    [NoFetch EXCEPT !.stage = "asked",
                                    !.background = Loading(t) => fetch[t].background]]
    /\ UNCHANGED <<service, eligible, tab, call, stray>>

\* getAttendanceWorkspace reads the session row, and the roster for it,
ReadSession(t) ==
    /\ fetch[t].stage = "asked"
    /\ fetch' = [fetch EXCEPT ![t].stage = "row", ![t].rev = revision,
                              ![t].status = status, ![t].note = note,
                              ![t].roster = SessionRoster]
    /\ UNCHANGED <<service, eligible, tab, call, stray>>

\* and then the marks, none when there was no row to read them for.
ReadMarks(t) ==
    /\ fetch[t].stage = "row"
    /\ fetch' = [fetch EXCEPT ![t].stage = "read",
                    ![t].draft = IF fetch[t].rev = 0 THEN Blank
                                 ELSE Only(marks, fetch[t].roster)]
    /\ UNCHANGED <<service, eligible, tab, call, stray>>

\* Mutant of Shown: a background load leaves the draft alone.
ShownBehindDraft(t) ==
    [open |-> tab[t].open \/ ~ fetch[t].background,
     rev |-> fetch[t].rev, status |-> fetch[t].status, note |-> fetch[t].note,
     roster |-> fetch[t].roster, fresh |-> ~ Waiting(t),
     draft |-> IF fetch[t].background THEN tab[t].draft ELSE fetch[t].draft]

\* What the page holds after a load.
Shown(t) ==
    [open |-> tab[t].open \/ ~ fetch[t].background,
     rev |-> fetch[t].rev, status |-> fetch[t].status, note |-> fetch[t].note,
     roster |-> fetch[t].roster, draft |-> fetch[t].draft, fresh |-> ~ Waiting(t)]

Show(t) ==
    /\ fetch[t].stage = "read"
    /\ tab' = [tab EXCEPT ![t] = Shown(t)]
    /\ fetch' = [fetch EXCEPT ![t] = NoFetch]
    /\ UNCHANGED <<service, eligible, call, stray>>

\* The load fails; the workspace gives way to the error.
LoadFails(t) ==
    /\ Loading(t)
    /\ tab' = [tab EXCEPT ![t] = Closed]
    /\ fetch' = [fetch EXCEPT ![t] = NoFetch]
    /\ UNCHANGED <<service, eligible, call, stray>>

Send(t, r) ==
    call' = [call EXCEPT ![t] = [NoCall EXCEPT !.stage = "sent", !.req = r,
                                               !.prev = tab[t].draft]]

Mutation(t, op) == [NoMutation EXCEPT !.op = op, !.rev = tab[t].rev]

\* The draft is shown at once and sent in full, for the students the page knows.
PersistMarks(t, next) ==
    /\ Usable(t)
    /\ tab[t].status # "submitted"
    /\ tab' = [tab EXCEPT ![t].draft = next]
    /\ Send(t, [Mutation(t, "marks") EXCEPT !.marks = Only(next, tab[t].roster)])
    /\ UNCHANGED <<service, eligible, fetch, stray>>

HandleMark(t) ==
    \E s \in tab[t].roster, m \in Marks \cup {Nil} :
        PersistMarks(t, [tab[t].draft EXCEPT ![s] = m])

HandleMarkAllPresent(t) ==
    /\ tab[t].roster # {}
    /\ PersistMarks(t, [s \in Students |->
                          IF s \in tab[t].roster THEN Present ELSE Nil])

HandleSaveSessionNote(t) ==
    /\ Usable(t)
    /\ tab[t].status # "submitted"
    /\ \E n \in (Notes \cup {Nil}) \ {tab[t].note} :
          Send(t, [Mutation(t, "note") EXCEPT !.note = n])
    /\ UNCHANGED <<service, eligible, tab, fetch, stray>>

HandleSubmit(t) ==
    /\ Usable(t)
    /\ tab[t].status # "submitted"
    /\ tab[t].roster # {}
    /\ tab[t].roster \subseteq Marked(tab[t].draft)
    /\ Send(t, Mutation(t, "submit"))
    /\ UNCHANGED <<service, eligible, tab, fetch, stray>>

HandleReopen(t) ==
    /\ Usable(t)
    /\ t \in Managers
    /\ \E why \in Reasons :
          Send(t, [Mutation(t, "reopen") EXCEPT !.reason = why])
    /\ UNCHANGED <<service, eligible, tab, fetch, stray>>

-----------------------------------------------------------------------------
(* The two together.                                                       *)

Answered(t, echo) ==
    call' = [call EXCEPT ![t].stage = "answered",
                         ![t].answer = Answer(call[t].req, echo)]

\* The service commits what a waiting tab asked for,
ServeCommit(t) ==
    /\ call[t].stage = "sent"
    /\ Commit(call[t].req)
    /\ Answered(t, FALSE)
    /\ UNCHANGED <<eligible, tab, fetch, stray>>

\* or finds it done already.
ServeEcho(t) ==
    /\ call[t].stage = "sent"
    /\ AlreadyDone(call[t].req)
    /\ UNCHANGED <<service, eligible, tab, fetch, stray>>
    /\ Answered(t, TRUE)

\* updateSession: the page takes the row of the answer and keeps its draft.
Receive(t) ==
    /\ call[t].stage = "answered"
    /\ LET a == call[t].answer IN
       tab' = [tab EXCEPT ![t].rev = a.rev, ![t].status = a.status,
                          ![t].note = a.note,
                          ![t].fresh = @ /\ (a.echo => call[t].req.op = "marks")]
    /\ call' = [call EXCEPT ![t] = NoCall]
    /\ UNCHANGED <<service, eligible, fetch, stray>>

\* The page is told of a failure and puts the former draft back.
PutBack(t) ==
    /\ tab' = [tab EXCEPT ![t].draft =
                  IF call[t].req.op = "marks" THEN call[t].prev ELSE @]
    /\ call' = [call EXCEPT ![t] = NoCall]
    /\ UNCHANGED <<service, eligible, fetch>>

\* The service refused the mutation, or it or its answer got lost.
CallFails(t) ==
    /\ Waiting(t)
    /\ PutBack(t)
    /\ UNCHANGED stray

\* The page takes a request for lost that the service will still come to.
GiveUp(t) ==
    /\ t \in Flaky
    /\ call[t].stage = "sent" /\ stray[t] = Nil
    /\ PutBack(t)
    /\ stray' = [stray EXCEPT ![t] = call[t].req]

\* A request nobody waits for is committed, or has no effect.
ServeStray(t) ==
    /\ stray[t] # Nil
    /\ Commit(stray[t]) \/ UNCHANGED service
    /\ stray' = [stray EXCEPT ![t] = Nil]
    /\ UNCHANGED <<eligible, tab, fetch, call>>

\* An enrollment of the section becomes active on the date or stops being so.
EnrollmentChanges ==
    /\ \E s \in Students :
          eligible' = IF s \in eligible THEN eligible \ {s} ELSE eligible \cup {s}
    /\ UNCHANGED <<service, client>>

Click(t) ==
    \/ HandleMark(t) \/ HandleMarkAllPresent(t) \/ HandleSaveSessionNote(t)
    \/ HandleSubmit(t) \/ HandleReopen(t)

Fetching(t) ==
    \/ Load(t) \/ Refresh(t) \/ ReadSession(t) \/ ReadMarks(t) \/ Show(t)
    \/ LoadFails(t)

Calling(t) ==
    \/ ServeCommit(t) \/ ServeEcho(t) \/ Receive(t) \/ CallFails(t)
    \/ GiveUp(t) \/ ServeStray(t)

Next ==
    \/ EnrollmentChanges
    \/ \E t \in Tabs : Click(t) \/ Fetching(t) \/ Calling(t)

Spec == Init /\ [][Next]_vars

-----------------------------------------------------------------------------
(* Properties.                                                             *)

Statuses == {"open", "submitted"}
NotesHeld == Notes \cup {Nil}

TabType ==
    [open : BOOLEAN, rev : Nat, status : Statuses, note : NotesHeld,
     roster : SUBSET Students, draft : MarkSheets, fresh : BOOLEAN]
FetchType ==
    [stage : {"none", "asked", "row", "read"}, background : BOOLEAN, rev : Nat,
     status : Statuses, note : NotesHeld, roster : SUBSET Students,
     draft : MarkSheets]
AnswerType == [rev : Nat, status : Statuses, note : NotesHeld, echo : BOOLEAN]
CallType ==
    [stage : {"none", "sent", "answered"}, req : Mutations, prev : MarkSheets,
     answer : AnswerType]

\* The types, and the constraints of the two tables: revisions begin at 1,
\* and only a session that exists has marks, a note or a submission.
TypeOK ==
    /\ revision \in Nat
    /\ status \in Statuses
    /\ note \in NotesHeld
    /\ marks \in MarkSheets
    /\ reason \in Reasons \cup {Nil}
    /\ audit \in MarkSheets
    /\ eligible \in SUBSET Students
    /\ tab \in [Tabs -> TabType]
    /\ fetch \in [Tabs -> FetchType]
    /\ call \in [Tabs -> CallType]
    /\ stray \in [Tabs -> Mutations \cup {Nil}]
    /\ revision = 0 => marks = Blank /\ note = Nil /\ status = "open"

\* The revision check is as good as a lock: a page that holds the current
\* revision, and came to it by a load or by answers to its own changes, shows
\* the marks, the note and the status that are stored, whatever other pages,
\* lost answers, late requests and background loads did in between.
FreshPageIsRight ==
    \A t \in Tabs :
        tab[t].fresh /\ ~ Waiting(t) /\ tab[t].rev = revision =>
            /\ tab[t].draft = marks
            /\ tab[t].note = note
            /\ tab[t].status = status

\* Attendance can be submitted only when every student who attends on the date,
\* newly enrolled ones included, has a mark.
SubmittedIsComplete ==
    [][status = "open" /\ status' = "submitted" => eligible \subseteq Marked(marks)]_vars

\* The activities account for every mark: the marks of the first submission,
\* with the corrections logged since, are the marks that are stored.
AuditIsComplete == reason # Nil \/ status = "submitted" => audit = marks

\* README.md: revision checks keep a stale tab from silently overwriting newer
\* changes, so a save leaves the marks that its user did not touch as they are.
NoStaleOverwrite ==
    [][\A t \in Tabs, s \in Students :
         call[t].stage = "sent" /\ call'[t].stage = "answered"
         /\ call[t].req.op = "marks" /\ call[t].req.marks[s] = call[t].prev[s]
            => marks'[s] = marks[s]]_vars

\* The service is a revisioned register.
Register == INSTANCE AttendanceRegister
KeepsRegister == Register!Spec
=============================================================================
