---------------------- MODULE AttendanceSessionProofs ----------------------
(***************************************************************************)
(* Proofs about AttendanceSession, for any number of tabs and students and *)
(* any number of changes.                                                  *)
(***************************************************************************)
EXTENDS AttendanceSession, FiniteSetTheorems, TLAPS

(* The invariant behind FreshPageIsRight, one tab at a time.               *)

\* Nothing a page holds is newer than the row.
NotAhead(t) ==
    /\ tab[t].rev <= revision
    /\ fetch[t].rev <= revision
    /\ call[t].answer.rev <= revision

\* A load at the current revision holds the row, and the marks once it has
\* read them; a change after the row was read shows in the revision.
LoadIsRight(t) ==
    /\ fetch[t].stage \in {"row", "read"} /\ fetch[t].rev = revision =>
          /\ fetch[t].note = note /\ fetch[t].status = status
          /\ Marked(marks) \subseteq fetch[t].roster
    /\ fetch[t].stage = "read" /\ fetch[t].rev = revision => fetch[t].draft = marks
    /\ fetch[t].stage = "read" => Marked(fetch[t].draft) \subseteq fetch[t].roster

\* The draft a tab falls back to when its mutation fails.
Base(t) ==
    IF Waiting(t) /\ call[t].req.op = "marks" THEN call[t].prev ELSE tab[t].draft

\* A fresh tab at the current revision would be right if its mutation failed.
HeldIsRight(t) ==
    tab[t].fresh /\ tab[t].rev = revision =>
        Base(t) = marks /\ tab[t].note = note /\ tab[t].status = status

\* A fresh tab sends its whole draft at the revision it holds.
SentIsHeld(t) ==
    tab[t].fresh =>
        /\ Marked(tab[t].draft) \subseteq tab[t].roster
        /\ Marked(Base(t)) \subseteq tab[t].roster
        /\ call[t].stage = "sent" => call[t].req.rev = tab[t].rev
        /\ Waiting(t) /\ call[t].req.op = "marks" => tab[t].draft = call[t].req.marks

\* An answer at the current revision tells the row, and makes the draft right
\* unless it only echoed what others had done.
AnswerIsRight(t) ==
    call[t].stage = "answered" /\ call[t].answer.rev = revision =>
        /\ call[t].answer.note = note /\ call[t].answer.status = status
        /\ tab[t].fresh /\ (call[t].answer.echo => call[t].req.op = "marks")
              => tab[t].draft = marks

TabInv(t) ==
    /\ NotAhead(t)
    /\ LoadIsRight(t)
    /\ HeldIsRight(t)
    /\ SentIsHeld(t)
    /\ AnswerIsRight(t)

FreshInv == TypeOK /\ \A t \in Tabs : TabInv(t)

-----------------------------------------------------------------------------
(* Types.                                                                  *)

\* What the constants of the page are made of has the right types.
LEMMA DefaultsTyped ==
    /\ Blank \in MarkSheets
    /\ NoMutation \in Mutations
    /\ NoCall \in CallType
    /\ NoFetch \in FetchType
    /\ Closed \in TabType
<1>1. Blank \in MarkSheets
  BY DEF Blank, MarkSheets
<1>2. NoMutation \in Mutations
  BY <1>1 DEF NoMutation, Mutations, Operations
<1>3. NoAnswer \in AnswerType
  BY DEF NoAnswer, AnswerType, Statuses, NotesHeld
<1>4. NoCall \in CallType
  BY <1>1, <1>2, <1>3 DEF NoCall, CallType
<1>5. NoFetch \in FetchType
  BY <1>1 DEF NoFetch, FetchType, Statuses, NotesHeld
<1>6. Closed \in TabType
  BY <1>1 DEF Closed, TabType, Statuses, NotesHeld
<1> QED
  BY <1>1, <1>2, <1>4, <1>5, <1>6

\* A request and a record of a call keep their types when they are built up.
LEMMA SendTyped ==
    ASSUME NEW t \in Tabs, NEW r \in Mutations, TypeOK, Send(t, r)
    PROVE  call' \in [Tabs -> CallType]
<1> DEFINE c == [NoCall EXCEPT !.stage = "sent", !.req = r, !.prev = tab[t].draft]
<1>1. tab[t].draft \in MarkSheets
  BY DEF TypeOK, TabType
<1>2. c \in CallType
  BY <1>1, DefaultsTyped DEF CallType
<1>3. call' = [call EXCEPT ![t] = c]
  BY DEF Send
<1> HIDE DEF c
<1> QED
  BY <1>2, <1>3 DEF TypeOK

LEMMA MutationTyped ==
    ASSUME NEW t \in Tabs, NEW op \in Operations, TypeOK
    PROVE  Mutation(t, op) \in Mutations
<1>1. tab[t].rev \in Nat
  BY DEF TypeOK, TabType
<1> QED
  BY <1>1, DefaultsTyped DEF Mutation, Mutations

LEMMA OnlyTyped ==
    ASSUME NEW sheet \in MarkSheets, NEW roster \in SUBSET Students
    PROVE  /\ Only(sheet, roster) \in MarkSheets
           /\ Marked(Only(sheet, roster)) \subseteq roster
           /\ Marked(sheet) \subseteq roster => Only(sheet, roster) = sheet
  BY DEF Only, MarkSheets, Marked

\* What a committed request does to the row.
LEMMA CommitTyped ==
    ASSUME NEW r \in Mutations, TypeOK, Commit(r)
    PROVE  /\ revision' = revision + 1 /\ r.rev = revision
           /\ status' \in Statuses /\ note' \in NotesHeld
           /\ marks' \in MarkSheets /\ audit' \in MarkSheets
           /\ reason' \in Reasons \cup {Nil}
<1> USE DEF AtRevision, NextRevision, Statuses, NotesHeld
<1>1. CASE SaveSessionNote(r)
  BY <1>1 DEF SaveSessionNote, TypeOK, Mutations
<1>2. CASE SaveAttendanceSnapshot(r)
  <2>1. audit' \in MarkSheets
    BY <1>2 DEF SaveAttendanceSnapshot, TypeOK, Mutations, MarkSheets
  <2> QED
    BY <1>2, <2>1 DEF SaveAttendanceSnapshot, TypeOK, Mutations
<1>3. CASE SubmitAttendanceSession(r)
  BY <1>3 DEF SubmitAttendanceSession, TypeOK
<1>4. CASE ReopenAttendanceSession(r)
  BY <1>4 DEF ReopenAttendanceSession, TypeOK, Mutations
<1> QED
  BY <1>1, <1>2, <1>3, <1>4 DEF Commit

LEMMA AnswerTyped ==
    ASSUME NEW t \in Tabs, NEW echo \in BOOLEAN, TypeOK, Answered(t, echo),
           revision' \in Nat, status' \in Statuses, note' \in NotesHeld
    PROVE  call' \in [Tabs -> CallType]
<1> DEFINE a == Answer(call[t].req, echo)
           c == [call[t] EXCEPT !.stage = "answered", !.answer = a]
<1>1. a \in AnswerType
  BY DEF Answer, AnswerType
<1>2. call[t] \in CallType
  BY DEF TypeOK
<1> HIDE DEF a
<1>3. c \in CallType
  BY <1>1, <1>2 DEF CallType
<1>4. call' = [call EXCEPT ![t] = c]
  BY DEF Answered, a, TypeOK
<1> HIDE DEF c
<1> QED
  BY <1>3, <1>4 DEF TypeOK

LEMMA PutBackTyped ==
    ASSUME NEW t \in Tabs, TypeOK, PutBack(t)
    PROVE  tab' \in [Tabs -> TabType] /\ call' \in [Tabs -> CallType]
<1> DEFINE d == IF call[t].req.op = "marks" THEN call[t].prev ELSE tab[t].draft
           p == [tab[t] EXCEPT !.draft = d]
<1>1. tab[t] \in TabType /\ call[t] \in CallType
  BY DEF TypeOK
<1>2. d \in MarkSheets
  BY <1>1 DEF TabType, CallType
<1> HIDE DEF d
<1>3. p \in TabType
  BY <1>1, <1>2 DEF TabType
<1>4. tab' = [tab EXCEPT ![t] = p]
  BY DEF PutBack, TypeOK, d
<1> HIDE DEF p
<1> QED
  BY <1>3, <1>4, DefaultsTyped DEF PutBack, TypeOK

LEMMA PersistTyped ==
    ASSUME NEW t \in Tabs, NEW next \in MarkSheets, TypeOK, PersistMarks(t, next)
    PROVE  tab' \in [Tabs -> TabType] /\ call' \in [Tabs -> CallType]
<1> DEFINE sheet == Only(next, tab[t].roster)
           r == [Mutation(t, "marks") EXCEPT !.marks = sheet]
           p == [tab[t] EXCEPT !.draft = next]
<1>1. tab[t] \in TabType
  BY DEF TypeOK
<1>2. sheet \in MarkSheets
  BY <1>1, OnlyTyped DEF TabType
<1> HIDE DEF sheet
<1>3. r \in Mutations
  BY <1>2, MutationTyped DEF Operations, Mutations
<1>4. Send(t, r)
  BY DEF PersistMarks, sheet
<1> HIDE DEF r
<1>5. p \in TabType
  BY <1>1 DEF TabType
<1>6. tab' = [tab EXCEPT ![t] = p]
  BY DEF PersistMarks, TypeOK
<1> HIDE DEF p
<1> QED
  BY <1>3, <1>4, <1>5, <1>6, SendTyped DEF TypeOK

LEMMA ClickTyped ==
    ASSUME NEW t \in Tabs, TypeOK, Click(t)
    PROVE  TypeOK'
<1>0. tab[t] \in TabType
  BY DEF TypeOK
<1>1. CASE HandleMark(t)
  <2>1. PICK s \in tab[t].roster, m \in Marks \cup {Nil} :
          PersistMarks(t, [tab[t].draft EXCEPT ![s] = m])
    BY <1>1 DEF HandleMark
  <2> DEFINE next == [tab[t].draft EXCEPT ![s] = m]
  <2>2. next \in MarkSheets
    BY <1>0 DEF TabType, MarkSheets
  <2> HIDE DEF next
  <2>3. PersistMarks(t, next)
    BY <2>1 DEF next
  <2> QED
    BY <2>2, <2>3, PersistTyped DEF PersistMarks, TypeOK, service
<1>2. CASE HandleMarkAllPresent(t)
  <2> DEFINE next == [s \in Students |-> IF s \in tab[t].roster THEN Present ELSE Nil]
  <2>1. next \in MarkSheets
    BY AttendanceAssumption DEF MarkSheets
  <2>2. PersistMarks(t, next)
    BY <1>2 DEF HandleMarkAllPresent
  <2> HIDE DEF next
  <2> QED
    BY <2>1, <2>2, PersistTyped DEF PersistMarks, TypeOK, service
<1>3. CASE HandleSaveSessionNote(t)
  <2>1. PICK n \in Notes \cup {Nil} : Send(t, [Mutation(t, "note") EXCEPT !.note = n])
    BY <1>3 DEF HandleSaveSessionNote
  <2> DEFINE r == [Mutation(t, "note") EXCEPT !.note = n]
  <2>2. r \in Mutations
    BY MutationTyped DEF Operations, Mutations
  <2> HIDE DEF r
  <2>3. Send(t, r)
    BY <2>1 DEF r
  <2> QED
    BY <1>3, <2>2, <2>3, SendTyped DEF HandleSaveSessionNote, TypeOK, service
<1>4. CASE HandleSubmit(t)
  <2>1. Mutation(t, "submit") \in Mutations
    BY MutationTyped DEF Operations
  <2> QED
    BY <1>4, <2>1, SendTyped DEF HandleSubmit, TypeOK, service
<1>5. CASE HandleReopen(t)
  <2>1. PICK w \in Reasons : Send(t, [Mutation(t, "reopen") EXCEPT !.reason = w])
    BY <1>5 DEF HandleReopen
  <2> DEFINE r == [Mutation(t, "reopen") EXCEPT !.reason = w]
  <2>2. r \in Mutations
    BY MutationTyped DEF Operations, Mutations
  <2> HIDE DEF r
  <2>3. Send(t, r)
    BY <2>1 DEF r
  <2> QED
    BY <1>5, <2>2, <2>3, SendTyped DEF HandleReopen, TypeOK, service
<1> QED
  BY <1>1, <1>2, <1>3, <1>4, <1>5 DEF Click

LEMMA FetchingTyped ==
    ASSUME NEW t \in Tabs, TypeOK, Fetching(t)
    PROVE  TypeOK'
<1>0. tab[t] \in TabType /\ fetch[t] \in FetchType
  BY DEF TypeOK
<1>1. ASSUME NEW f \in FetchType, fetch' = [fetch EXCEPT ![t] = f]
      PROVE  fetch' \in [Tabs -> FetchType]
  BY <1>1 DEF TypeOK
<1>2. ASSUME NEW p \in TabType, tab' = [tab EXCEPT ![t] = p]
      PROVE  tab' \in [Tabs -> TabType]
  BY <1>2 DEF TypeOK
<1>3. CASE Load(t)
  <2> DEFINE f == [NoFetch EXCEPT !.stage = "asked"]
  <2>1. f \in FetchType
    BY DefaultsTyped DEF FetchType
  <2>2. fetch' = [fetch EXCEPT ![t] = f]
    BY <1>3 DEF Load
  <2> HIDE DEF f
  <2> QED
    BY <1>1, <1>2, <1>3, <2>1, <2>2, DefaultsTyped DEF Load, TypeOK, service
<1>4. CASE Refresh(t)
  <2> DEFINE b == Loading(t) => fetch[t].background
             f == [NoFetch EXCEPT !.stage = "asked", !.background = b]
  <2>1. b \in BOOLEAN
    BY <1>0 DEF FetchType
  <2>2. fetch' = [fetch EXCEPT ![t] = f]
    BY <1>4 DEF Refresh
  <2> HIDE DEF b
  <2>3. f \in FetchType
    BY <2>1, DefaultsTyped DEF FetchType
  <2> HIDE DEF f
  <2> QED
    BY <1>1, <1>4, <2>2, <2>3 DEF Refresh, TypeOK, service
<1>5. CASE ReadSession(t)
  <2> DEFINE f == [fetch[t] EXCEPT !.stage = "row", !.rev = revision, !.status = status,
                                   !.note = note, !.roster = SessionRoster]
  <2>1. SessionRoster \in SUBSET Students
    BY DEF SessionRoster, Marked, TypeOK
  <2>2. fetch' = [fetch EXCEPT ![t] = f]
    BY <1>5 DEF ReadSession, TypeOK
  <2>3. f \in FetchType
    BY <1>0, <2>1 DEF FetchType, TypeOK
  <2> HIDE DEF f
  <2> QED
    BY <1>1, <1>5, <2>2, <2>3 DEF ReadSession, TypeOK, service
<1>6. CASE ReadMarks(t)
  <2> DEFINE d == IF fetch[t].rev = 0 THEN Blank ELSE Only(marks, fetch[t].roster)
             f == [fetch[t] EXCEPT !.stage = "read", !.draft = d]
  <2>1. marks \in MarkSheets /\ fetch[t].roster \in SUBSET Students
    BY <1>0 DEF FetchType, TypeOK
  <2>2. d \in MarkSheets
    BY <2>1, OnlyTyped, DefaultsTyped
  <2>3. fetch' = [fetch EXCEPT ![t] = f]
    BY <1>6 DEF ReadMarks, TypeOK
  <2> HIDE DEF d
  <2>4. f \in FetchType
    BY <1>0, <2>2 DEF FetchType
  <2> HIDE DEF f
  <2> QED
    BY <1>1, <1>6, <2>3, <2>4 DEF ReadMarks, TypeOK, service
<1>7. CASE Show(t)
  <2>1. Shown(t) \in TabType
    BY <1>0 DEF Shown, TabType, FetchType
  <2> QED
    BY <1>1, <1>2, <1>7, <2>1, DefaultsTyped DEF Show, TypeOK, service
<1>8. CASE LoadFails(t)
  BY <1>1, <1>2, <1>8, DefaultsTyped DEF LoadFails, TypeOK, service
<1> QED
  BY <1>3, <1>4, <1>5, <1>6, <1>7, <1>8 DEF Fetching

LEMMA CallingTyped ==
    ASSUME NEW t \in Tabs, TypeOK, Calling(t)
    PROVE  TypeOK'
<1>0. tab[t] \in TabType /\ call[t] \in CallType /\ call[t].req \in Mutations
      /\ revision \in Nat
  BY DEF TypeOK, CallType
<1>1. CASE ServeCommit(t)
  <2>1. /\ revision' = revision + 1
        /\ status' \in Statuses /\ note' \in NotesHeld
        /\ marks' \in MarkSheets /\ audit' \in MarkSheets
        /\ reason' \in Reasons \cup {Nil}
    BY <1>0, <1>1, CommitTyped DEF ServeCommit
  <2>2. revision' \in Nat /\ revision' # 0
    BY <1>0, <2>1
  <2>3. call' \in [Tabs -> CallType]
    BY <1>1, <2>1, <2>2, AnswerTyped DEF ServeCommit
  <2> QED
    BY <1>1, <2>1, <2>2, <2>3 DEF ServeCommit, TypeOK
<1>2. CASE ServeEcho(t)
  <2>1. call' \in [Tabs -> CallType]
    BY <1>2, AnswerTyped DEF ServeEcho, service, TypeOK
  <2> QED
    BY <1>2, <2>1 DEF ServeEcho, service, TypeOK
<1>3. CASE Receive(t)
  <2> DEFINE a == call[t].answer
             f == tab[t].fresh /\ (a.echo => call[t].req.op = "marks")
             p == [tab[t] EXCEPT !.rev = a.rev, !.status = a.status, !.note = a.note,
                                 !.fresh = f]
  <2>1. a \in AnswerType /\ f \in BOOLEAN
    BY <1>0 DEF CallType, TabType
  <2>2. tab' = [tab EXCEPT ![t] = p]
    BY <1>3 DEF Receive, TypeOK
  <2> HIDE DEF a, f
  <2>3. p \in TabType
    BY <1>0, <2>1 DEF TabType, AnswerType
  <2> HIDE DEF p
  <2>4. tab' \in [Tabs -> TabType]
    BY <2>2, <2>3 DEF TypeOK
  <2> QED
    BY <1>3, <2>4, DefaultsTyped DEF Receive, TypeOK, service
<1>4. CASE CallFails(t)
  BY <1>4, PutBackTyped DEF CallFails, PutBack, TypeOK, service
<1>5. CASE GiveUp(t)
  <2>1. stray' \in [Tabs -> Mutations \cup {Nil}]
    BY <1>0, <1>5 DEF GiveUp, TypeOK
  <2> QED
    BY <1>5, <2>1, PutBackTyped DEF GiveUp, PutBack, TypeOK, service
<1>6. CASE ServeStray(t)
  <2>1. stray' \in [Tabs -> Mutations \cup {Nil}]
    BY <1>6 DEF ServeStray, TypeOK
  <2>2. CASE Commit(stray[t])
    <3>1. stray[t] \in Mutations
      BY <1>6 DEF ServeStray, TypeOK
    <3>2. /\ revision' = revision + 1
          /\ status' \in Statuses /\ note' \in NotesHeld
          /\ marks' \in MarkSheets /\ audit' \in MarkSheets
          /\ reason' \in Reasons \cup {Nil}
      BY <2>2, <3>1, CommitTyped
    <3>3. revision' \in Nat /\ revision' # 0
      BY <1>0, <3>2
    <3> QED
      BY <1>6, <2>1, <3>2, <3>3 DEF ServeStray, TypeOK
  <2>3. CASE UNCHANGED service
    BY <1>6, <2>1, <2>3 DEF ServeStray, TypeOK, service
  <2> QED
    BY <1>6, <2>2, <2>3 DEF ServeStray
<1> QED
  BY <1>1, <1>2, <1>3, <1>4, <1>5, <1>6 DEF Calling

LEMMA TypeInit == Init => TypeOK
<1> SUFFICES ASSUME Init PROVE TypeOK
  OBVIOUS
<1>1. tab \in [Tabs -> TabType] /\ fetch \in [Tabs -> FetchType]
      /\ call \in [Tabs -> CallType]
  BY DefaultsTyped DEF Init
<1> QED
  BY <1>1, DefaultsTyped DEF Init, TypeOK, Statuses, NotesHeld

LEMMA TypeStep == TypeOK /\ [Next]_vars => TypeOK'
<1> SUFFICES ASSUME TypeOK, [Next]_vars PROVE TypeOK'
  OBVIOUS
<1>1. CASE EnrollmentChanges
  BY <1>1 DEF EnrollmentChanges, TypeOK, service, client
<1>2. ASSUME NEW t \in Tabs, Click(t) \/ Fetching(t) \/ Calling(t) PROVE TypeOK'
  BY <1>2, ClickTyped, FetchingTyped, CallingTyped
<1>3. CASE UNCHANGED vars
  BY <1>3 DEF TypeOK, vars
<1> QED
  BY <1>1, <1>2, <1>3 DEF Next

\* Every variable keeps its type, and a session that does not exist yet is
\* blank, whatever pages and requests do.
THEOREM TypeCorrect == Spec => []TypeOK
  BY TypeInit, TypeStep, PTL DEF Spec

-----------------------------------------------------------------------------
(* A page that holds the current revision is right.                        *)

\* The row stays as it is, or moves on to its next revision.
RowKept == UNCHANGED <<revision, status, note, marks>>
RowMoved == revision' = revision + 1

\* What a step does elsewhere leaves the invariant of a tab alone: either the
\* row is the same, or nothing the tab holds is current any more.
LEMMA Elsewhere ==
    ASSUME NEW u \in Tabs, TypeOK, TabInv(u), RowKept \/ RowMoved,
           tab'[u] = tab[u], fetch'[u] = fetch[u], call'[u] = call[u]
    PROVE  TabInv(u)'
<1> USE DEF TabInv, NotAhead, LoadIsRight, HeldIsRight, SentIsHeld, AnswerIsRight,
            Base, Waiting, Marked
<1>1. CASE RowKept
  BY <1>1 DEF RowKept
<1>2. CASE RowMoved
  <2>1. revision \in Nat /\ tab[u].rev \in Nat /\ fetch[u].rev \in Nat
        /\ call[u].answer.rev \in Nat
    BY DEF TypeOK, TabType, FetchType, CallType, AnswerType
  <2> QED
    BY <1>2, <2>1 DEF RowMoved
<1> QED
  BY <1>1, <1>2

\* A tab that sends something other than marks keeps its invariant.
LEMMA SendRight ==
    ASSUME NEW t \in Tabs, NEW r \in Mutations, TypeOK, TabInv(t), ~ Waiting(t),
           Send(t, r), r.rev = tab[t].rev, r.op # "marks",
           UNCHANGED <<tab, fetch>>, RowKept
    PROVE  TabInv(t)'
<1>1. /\ call'[t].stage = "sent" /\ call'[t].req = r
      /\ call'[t].answer.rev = 0
  BY DEF Send, NoCall, NoAnswer, TypeOK
<1>2. 0 <= revision
  BY DEF TypeOK
<1> QED
  BY <1>1, <1>2 DEF TabInv, NotAhead, LoadIsRight, HeldIsRight, SentIsHeld,
     AnswerIsRight, Base, Waiting, Marked, RowKept

\* A fresh draft is sent as it is shown.
LEMMA PersistRight ==
    ASSUME NEW t \in Tabs, NEW next \in MarkSheets, TypeOK, TabInv(t),
           PersistMarks(t, next),
           Marked(tab[t].draft) \subseteq tab[t].roster => Marked(next) \subseteq tab[t].roster
    PROVE  TabInv(t)'
<1> DEFINE sheet == Only(next, tab[t].roster)
<1>0. tab[t] \in TabType /\ 0 <= revision
  BY DEF TypeOK
<1>1. Marked(next) \subseteq tab[t].roster => sheet = next
  BY <1>0, OnlyTyped DEF TabType
<1> HIDE DEF sheet
<1>2. /\ call'[t].stage = "sent" /\ call'[t].req.op = "marks"
      /\ call'[t].req.rev = tab[t].rev /\ call'[t].req.marks = sheet
      /\ call'[t].prev = tab[t].draft /\ call'[t].answer.rev = 0
  BY DEF PersistMarks, Send, NoCall, NoAnswer, NoMutation, Mutation, TypeOK, sheet
<1>3. /\ tab'[t].draft = next /\ tab'[t].rev = tab[t].rev /\ tab'[t].fresh = tab[t].fresh
      /\ tab'[t].note = tab[t].note /\ tab'[t].status = tab[t].status
      /\ tab'[t].roster = tab[t].roster
  BY <1>0 DEF PersistMarks, TypeOK, TabType
<1>4. ~ Waiting(t) /\ fetch' = fetch /\ RowKept
  BY DEF PersistMarks, Usable, service, RowKept
<1>5. NotAhead(t)' /\ LoadIsRight(t)' /\ AnswerIsRight(t)'
  BY <1>0, <1>2, <1>3, <1>4 DEF TabInv, NotAhead, LoadIsRight, AnswerIsRight, RowKept, Marked
<1>6. HeldIsRight(t)'
  BY <1>2, <1>3, <1>4 DEF TabInv, HeldIsRight, Base, Waiting, RowKept
<1>7. SentIsHeld(t)'
  BY <1>1, <1>2, <1>3, <1>4 DEF TabInv, SentIsHeld, Base, Waiting, Marked
<1> QED
  BY <1>5, <1>6, <1>7 DEF TabInv

LEMMA ClickRight ==
    ASSUME NEW t \in Tabs, TypeOK, TabInv(t), Click(t)
    PROVE  TabInv(t)'
<1>0. tab[t] \in TabType
  BY DEF TypeOK
<1>1. CASE HandleMark(t)
  <2>1. PICK s \in tab[t].roster, m \in Marks \cup {Nil} :
          PersistMarks(t, [tab[t].draft EXCEPT ![s] = m])
    BY <1>1 DEF HandleMark
  <2> DEFINE next == [tab[t].draft EXCEPT ![s] = m]
  <2>2. next \in MarkSheets
    BY <1>0 DEF TabType, MarkSheets
  <2>3. Marked(tab[t].draft) \subseteq tab[t].roster => Marked(next) \subseteq tab[t].roster
    BY <1>0 DEF TabType, MarkSheets, Marked
  <2> HIDE DEF next
  <2>4. PersistMarks(t, next)
    BY <2>1 DEF next
  <2> QED
    BY <2>2, <2>3, <2>4, PersistRight
<1>2. CASE HandleMarkAllPresent(t)
  <2> DEFINE next == [s \in Students |-> IF s \in tab[t].roster THEN Present ELSE Nil]
  <2>1. next \in MarkSheets /\ Marked(next) \subseteq tab[t].roster
    BY AttendanceAssumption DEF MarkSheets, Marked
  <2>2. PersistMarks(t, next)
    BY <1>2 DEF HandleMarkAllPresent
  <2> HIDE DEF next
  <2> QED
    BY <2>1, <2>2, PersistRight
<1>3. CASE HandleSaveSessionNote(t)
  <2>1. PICK n \in Notes \cup {Nil} : Send(t, [Mutation(t, "note") EXCEPT !.note = n])
    BY <1>3 DEF HandleSaveSessionNote
  <2> DEFINE r == [Mutation(t, "note") EXCEPT !.note = n]
  <2>2. r \in Mutations
    BY MutationTyped DEF Operations, Mutations
  <2>3. r.rev = tab[t].rev /\ r.op # "marks"
    BY DEF Mutation, NoMutation
  <2> HIDE DEF r
  <2>4. Send(t, r)
    BY <2>1 DEF r
  <2> QED
    BY <1>3, <2>2, <2>3, <2>4, SendRight
    DEF HandleSaveSessionNote, Usable, service, RowKept
<1>4. CASE HandleSubmit(t)
  <2>1. Mutation(t, "submit") \in Mutations
    BY MutationTyped DEF Operations
  <2>2. Mutation(t, "submit").rev = tab[t].rev /\ Mutation(t, "submit").op # "marks"
    BY DEF Mutation, NoMutation
  <2> QED
    BY <1>4, <2>1, <2>2, SendRight DEF HandleSubmit, Usable, service, RowKept
<1>5. CASE HandleReopen(t)
  <2>1. PICK w \in Reasons : Send(t, [Mutation(t, "reopen") EXCEPT !.reason = w])
    BY <1>5 DEF HandleReopen
  <2> DEFINE r == [Mutation(t, "reopen") EXCEPT !.reason = w]
  <2>2. r \in Mutations
    BY MutationTyped DEF Operations, Mutations
  <2>3. r.rev = tab[t].rev /\ r.op # "marks"
    BY DEF Mutation, NoMutation
  <2> HIDE DEF r
  <2>4. Send(t, r)
    BY <2>1 DEF r
  <2> QED
    BY <1>5, <2>2, <2>3, <2>4, SendRight DEF HandleReopen, Usable, service, RowKept
<1> QED
  BY <1>1, <1>2, <1>3, <1>4, <1>5 DEF Click

LEMMA FetchingRight ==
    ASSUME NEW t \in Tabs, TypeOK, TabInv(t), Fetching(t)
    PROVE  TabInv(t)'
<1>0. /\ tab[t] \in TabType /\ fetch[t] \in FetchType /\ call[t] \in CallType
      /\ revision \in Nat /\ marks \in MarkSheets
  BY DEF TypeOK
<1>a. ASSUME fetch'[t].rev = 0, fetch'[t].stage \in {"none", "asked"},
             fetch'[t].draft = Blank
      PROVE  fetch'[t].rev <= revision /\ Marked(fetch'[t].draft) = {}
  BY <1>0, <1>a DEF Marked, Blank
<1>b. /\ Closed.rev = 0 /\ Closed.fresh = FALSE
      /\ NoFetch.rev = 0 /\ NoFetch.stage = "none" /\ NoFetch.draft = Blank
  BY DEF Closed, NoFetch
<1>1. CASE Load(t)
  <2>1. /\ tab'[t] = Closed /\ call' = call /\ RowKept
        /\ fetch'[t].rev = 0 /\ fetch'[t].stage = "asked" /\ fetch'[t].draft = Blank
    BY <1>1 DEF Load, NoFetch, TypeOK, service, RowKept
  <2> QED
    BY <1>0, <1>a, <1>b, <2>1 DEF TabInv, NotAhead, LoadIsRight, HeldIsRight, SentIsHeld,
       AnswerIsRight, RowKept, Marked
<1>2. CASE Refresh(t)
  <2>1. /\ tab' = tab /\ call' = call /\ RowKept
        /\ fetch'[t].rev = 0 /\ fetch'[t].stage = "asked" /\ fetch'[t].draft = Blank
    BY <1>2 DEF Refresh, NoFetch, TypeOK, service, RowKept
  <2> QED
    BY <1>0, <1>a, <2>1 DEF TabInv, NotAhead, LoadIsRight, HeldIsRight, SentIsHeld,
       AnswerIsRight, Base, Waiting, RowKept, Marked
<1>3. CASE ReadSession(t)
  <2>1. /\ tab' = tab /\ call' = call /\ RowKept
        /\ fetch'[t].rev = revision /\ fetch'[t].stage = "row"
        /\ fetch'[t].note = note /\ fetch'[t].status = status
        /\ fetch'[t].roster = SessionRoster
        /\ fetch'[t].draft = fetch[t].draft
    BY <1>0, <1>3 DEF ReadSession, TypeOK, FetchType, service, RowKept
  <2> QED
    BY <1>0, <1>3, <2>1 DEF TabInv, NotAhead, LoadIsRight, HeldIsRight, SentIsHeld,
       AnswerIsRight, Base, Waiting, RowKept, Marked, SessionRoster
<1>4. CASE ReadMarks(t)
  <2> DEFINE d == IF fetch[t].rev = 0 THEN Blank ELSE Only(marks, fetch[t].roster)
  <2>1. /\ tab' = tab /\ call' = call /\ RowKept
        /\ fetch'[t].rev = fetch[t].rev /\ fetch'[t].stage = "read"
        /\ fetch'[t].note = fetch[t].note /\ fetch'[t].status = fetch[t].status
        /\ fetch'[t].roster = fetch[t].roster
        /\ fetch'[t].draft = d /\ fetch[t].stage = "row"
    BY <1>0, <1>4 DEF ReadMarks, TypeOK, FetchType, service, RowKept
  <2>2. Marked(d) \subseteq fetch[t].roster
    BY <1>0, OnlyTyped DEF FetchType, Marked, Blank
  <2>3. fetch[t].rev = revision => d = marks
    <3>1. CASE fetch[t].rev = 0
      BY <3>1 DEF TypeOK
    <3>2. CASE fetch[t].rev = revision /\ revision # 0
      <4>1. Marked(marks) \subseteq fetch[t].roster
        BY <1>4, <3>2 DEF ReadMarks, TabInv, LoadIsRight
      <4>2. Only(marks, fetch[t].roster) = marks
        BY <1>0, <4>1, OnlyTyped DEF FetchType
      <4> QED
        BY <3>2, <4>2
    <3> QED
      BY <3>1, <3>2
  <2> HIDE DEF d
  <2> QED
    BY <1>0, <2>1, <2>2, <2>3 DEF TabInv, NotAhead, LoadIsRight, HeldIsRight, SentIsHeld,
       AnswerIsRight, Base, Waiting, RowKept, Marked
<1>5. CASE Show(t)
  <2>1. /\ tab'[t] = Shown(t) /\ call' = call /\ RowKept
        /\ fetch'[t] = NoFetch /\ fetch[t].stage = "read"
    BY <1>0, <1>5 DEF Show, TypeOK, service, RowKept
  <2>2. /\ tab'[t].rev = fetch[t].rev /\ tab'[t].status = fetch[t].status
        /\ tab'[t].note = fetch[t].note /\ tab'[t].roster = fetch[t].roster
        /\ tab'[t].draft = fetch[t].draft /\ tab'[t].fresh = (~ Waiting(t))
    BY <2>1 DEF Shown
  <2> QED
    BY <1>0, <1>a, <1>b, <2>1, <2>2 DEF TabInv, NotAhead, LoadIsRight, HeldIsRight,
       SentIsHeld, AnswerIsRight, Base, Waiting, RowKept, Marked
<1>6. CASE LoadFails(t)
  <2>1. tab'[t] = Closed /\ call' = call /\ RowKept /\ fetch'[t] = NoFetch
    BY <1>6 DEF LoadFails, TypeOK, service, RowKept
  <2> QED
    BY <1>0, <1>a, <1>b, <2>1 DEF TabInv, NotAhead, LoadIsRight, HeldIsRight, SentIsHeld,
       AnswerIsRight, RowKept, Marked
<1> QED
  BY <1>1, <1>2, <1>3, <1>4, <1>5, <1>6 DEF Fetching

\* Only a save of marks changes the marks, and it writes what was sent.
LEMMA CommitMarks ==
    ASSUME NEW r \in Mutations, Commit(r)
    PROVE  marks' = IF r.op = "marks" THEN r.marks ELSE marks
  BY DEF Commit, SaveSessionNote, SaveAttendanceSnapshot, SubmitAttendanceSession,
     ReopenAttendanceSession

LEMMA PutBackRight ==
    ASSUME NEW t \in Tabs, TypeOK, TabInv(t), Waiting(t), PutBack(t)
    PROVE  TabInv(t)'
<1>1. /\ tab'[t].draft = Base(t)
      /\ tab'[t].rev = tab[t].rev /\ tab'[t].status = tab[t].status
      /\ tab'[t].note = tab[t].note /\ tab'[t].fresh = tab[t].fresh
      /\ tab'[t].roster = tab[t].roster
      /\ call'[t] = NoCall /\ fetch' = fetch /\ RowKept
  BY DEF PutBack, Base, TypeOK, TabType, service, RowKept
<1>2. NoCall.stage = "none" /\ NoCall.answer.rev = 0 /\ 0 <= revision
  BY DEF NoCall, NoAnswer, TypeOK
<1> QED
  BY <1>1, <1>2 DEF TabInv, NotAhead, LoadIsRight, HeldIsRight, SentIsHeld,
     AnswerIsRight, Base, Waiting, RowKept, Marked

LEMMA CallingRight ==
    ASSUME NEW t \in Tabs, TypeOK, TabInv(t), Calling(t)
    PROVE  TabInv(t)'
<1>0. /\ tab[t] \in TabType /\ fetch[t] \in FetchType /\ call[t] \in CallType
      /\ call[t].req \in Mutations /\ revision \in Nat
      /\ tab[t].rev \in Nat /\ fetch[t].rev \in Nat
  BY DEF TypeOK, CallType, TabType, FetchType
<1>1. CASE ServeCommit(t)
  <2>1. /\ revision' = revision + 1 /\ call[t].req.rev = revision
        /\ marks' = IF call[t].req.op = "marks" THEN call[t].req.marks ELSE marks
        /\ call[t].stage = "sent" /\ tab' = tab /\ fetch' = fetch
    BY <1>0, <1>1, CommitTyped, CommitMarks DEF ServeCommit
  <2>2. /\ call'[t].stage = "answered" /\ call'[t].req = call[t].req
        /\ call'[t].prev = call[t].prev
        /\ call'[t].answer.rev = revision' /\ call'[t].answer.status = status'
        /\ call'[t].answer.note = note'
    BY <1>0, <1>1 DEF ServeCommit, Answered, Answer, TypeOK, CallType
  <2>3. tab[t].fresh => tab[t].draft = marks'
    BY <2>1 DEF TabInv, HeldIsRight, SentIsHeld, Base, Waiting
  <2>4. NotAhead(t)' /\ LoadIsRight(t)' /\ HeldIsRight(t)' /\ AnswerIsRight(t)'
    BY <1>0, <2>1, <2>2, <2>3 DEF TabInv, NotAhead, LoadIsRight, HeldIsRight, AnswerIsRight
  <2>5. SentIsHeld(t)'
    BY <2>1, <2>2 DEF TabInv, SentIsHeld, Base, Waiting, Marked
  <2> QED
    BY <2>4, <2>5 DEF TabInv
<1>2. CASE ServeEcho(t)
  <2>1. /\ RowKept /\ tab' = tab /\ fetch' = fetch /\ call[t].stage = "sent"
        /\ call[t].req.op = "marks" => marks = call[t].req.marks
    BY <1>2 DEF ServeEcho, AlreadyDone, service, RowKept
  <2>2. /\ call'[t].stage = "answered" /\ call'[t].req = call[t].req
        /\ call'[t].prev = call[t].prev
        /\ call'[t].answer.rev = revision /\ call'[t].answer.status = status
        /\ call'[t].answer.note = note
        /\ call'[t].answer.echo = (revision # call[t].req.rev)
    BY <1>0, <1>2 DEF ServeEcho, Answered, Answer, TypeOK, CallType, service
  <2>3. tab[t].fresh /\ (call'[t].answer.echo => call[t].req.op = "marks")
           => tab[t].draft = marks
    BY <2>1, <2>2 DEF TabInv, HeldIsRight, SentIsHeld, Base, Waiting
  <2>4. NotAhead(t)' /\ LoadIsRight(t)' /\ HeldIsRight(t)' /\ AnswerIsRight(t)'
    BY <1>0, <2>1, <2>2, <2>3 DEF TabInv, NotAhead, LoadIsRight, HeldIsRight, AnswerIsRight,
       Base, Waiting, Marked, RowKept
  <2>5. SentIsHeld(t)'
    BY <2>1, <2>2 DEF TabInv, SentIsHeld, Base, Waiting, Marked
  <2> QED
    BY <2>4, <2>5 DEF TabInv
<1>3. CASE Receive(t)
  <2>1. /\ RowKept /\ fetch' = fetch /\ call[t].stage = "answered" /\ call'[t] = NoCall
        /\ tab'[t].rev = call[t].answer.rev /\ tab'[t].status = call[t].answer.status
        /\ tab'[t].note = call[t].answer.note /\ tab'[t].draft = tab[t].draft
        /\ tab'[t].roster = tab[t].roster
        /\ tab'[t].fresh = (tab[t].fresh /\ (call[t].answer.echo => call[t].req.op = "marks"))
    BY <1>0, <1>3 DEF Receive, TypeOK, TabType, service, RowKept
  <2>2. NoCall.stage = "none" /\ NoCall.answer.rev = 0 /\ 0 <= revision
    BY <1>0 DEF NoCall, NoAnswer
  <2> QED
    BY <1>0, <2>1, <2>2 DEF TabInv, NotAhead, LoadIsRight, HeldIsRight, SentIsHeld,
       AnswerIsRight, Base, Waiting, RowKept, Marked
<1>4. CASE CallFails(t)
  BY <1>4, PutBackRight DEF CallFails
<1>5. CASE GiveUp(t)
  BY <1>5, PutBackRight DEF GiveUp, Waiting
<1>6. CASE ServeStray(t)
  <2>1. stray[t] \in Mutations
    BY <1>6 DEF ServeStray, TypeOK
  <2>2. RowKept \/ RowMoved
    BY <1>6, <2>1, CommitTyped DEF ServeStray, service, RowKept, RowMoved
  <2> QED
    BY <1>6, <2>2, Elsewhere DEF ServeStray
<1> QED
  BY <1>1, <1>2, <1>3, <1>4, <1>5, <1>6 DEF Calling

\* A step of one tab touches no other, and moves the row on or leaves it.
LEMMA StepIsLocal ==
    ASSUME NEW t \in Tabs, NEW u \in Tabs \ {t}, TypeOK,
           Click(t) \/ Fetching(t) \/ Calling(t)
    PROVE  /\ RowKept \/ RowMoved
           /\ tab'[u] = tab[u] /\ fetch'[u] = fetch[u] /\ call'[u] = call[u]
<1> USE DEF TypeOK
<1>1. CASE Click(t)
  BY <1>1 DEF Click, HandleMark, HandleMarkAllPresent, HandleSaveSessionNote,
     HandleSubmit, HandleReopen, PersistMarks, Send, service, RowKept
<1>2. CASE Fetching(t)
  BY <1>2 DEF Fetching, Load, Refresh, ReadSession, ReadMarks, Show, LoadFails,
     service, RowKept
<1>3. CASE Calling(t)
  <2>1. call[t].req \in Mutations /\ (stray[t] # Nil => stray[t] \in Mutations)
    BY DEF CallType
  <2>2. CASE ServeCommit(t)
    BY <2>1, <2>2, CommitTyped DEF ServeCommit, Answered, RowMoved
  <2>3. CASE ServeStray(t)
    BY <2>1, <2>3, CommitTyped DEF ServeStray, service, RowMoved, RowKept
  <2>4. CASE ServeEcho(t) \/ Receive(t) \/ CallFails(t) \/ GiveUp(t)
    BY <2>4 DEF ServeEcho, Answered, Receive, CallFails, GiveUp, PutBack, service, RowKept
  <2> QED
    BY <1>3, <2>2, <2>3, <2>4 DEF Calling
<1> QED
  BY <1>1, <1>2, <1>3

LEMMA FreshInit == Init => FreshInv
<1> SUFFICES ASSUME Init, NEW t \in Tabs PROVE TabInv(t)
  BY TypeInit DEF FreshInv
<1>1. tab[t] = Closed /\ fetch[t] = NoFetch /\ call[t] = NoCall /\ revision = 0
  BY DEF Init
<1>2. /\ Closed.rev = 0 /\ Closed.fresh = FALSE
      /\ NoFetch.rev = 0 /\ NoFetch.stage = "none"
      /\ NoCall.stage = "none" /\ NoCall.answer.rev = 0
  BY DEF Closed, NoFetch, NoCall, NoAnswer
<1> QED
  BY <1>1, <1>2 DEF TabInv, NotAhead, LoadIsRight, HeldIsRight, SentIsHeld, AnswerIsRight

LEMMA FreshStep == FreshInv /\ [Next]_vars => FreshInv'
<1> SUFFICES ASSUME FreshInv, [Next]_vars, NEW u \in Tabs PROVE TabInv(u)'
  BY TypeStep DEF FreshInv
<1>0. TypeOK /\ TabInv(u)
  BY DEF FreshInv
<1>1. CASE EnrollmentChanges \/ UNCHANGED vars
  BY <1>0, <1>1, Elsewhere DEF EnrollmentChanges, service, client, vars, RowKept
<1>2. ASSUME NEW t \in Tabs, Click(t) \/ Fetching(t) \/ Calling(t) PROVE TabInv(u)'
  <2>1. CASE u = t
    BY <1>0, <1>2, <2>1, ClickRight, FetchingRight, CallingRight
  <2>2. CASE u # t
    BY <1>0, <1>2, <2>2, StepIsLocal, Elsewhere
  <2> QED
    BY <2>1, <2>2
<1> QED
  BY <1>1, <1>2 DEF Next

\* A page that holds the current revision, and parted from no load since,
\* shows what is stored: the revision check does the work of a lock.
THEOREM FreshPagesAreRight == Spec => []FreshPageIsRight
<1>1. FreshInv => FreshPageIsRight
  BY DEF FreshInv, TabInv, HeldIsRight, Base, FreshPageIsRight
<1> QED
  BY <1>1, FreshInit, FreshStep, PTL DEF Spec

-----------------------------------------------------------------------------
(* The register, the submission and the corrections.                       *)

\* The service changes only when a request is committed.
LEMMA RowChanges ==
    ASSUME TypeOK, [Next]_vars
    PROVE  UNCHANGED service \/ \E r \in Mutations : Commit(r)
<1>1. CASE EnrollmentChanges \/ UNCHANGED vars
  BY <1>1 DEF EnrollmentChanges, vars, service
<1>2. ASSUME NEW t \in Tabs, Click(t) \/ Fetching(t) \/ Calling(t)
      PROVE  UNCHANGED service \/ \E r \in Mutations : Commit(r)
  <2>1. call[t].req \in Mutations /\ (stray[t] # Nil => stray[t] \in Mutations)
    BY DEF TypeOK, CallType
  <2>2. CASE Click(t)
    BY <2>2 DEF Click, HandleMark, HandleMarkAllPresent, HandleSaveSessionNote,
       HandleSubmit, HandleReopen, PersistMarks
  <2>3. CASE Fetching(t)
    BY <2>3 DEF Fetching, Load, Refresh, ReadSession, ReadMarks, Show, LoadFails
  <2>4. CASE Calling(t)
    BY <2>1, <2>4 DEF Calling, ServeCommit, ServeEcho, Receive, CallFails, GiveUp,
       PutBack, ServeStray
  <2> QED
    BY <1>2, <2>2, <2>3, <2>4
<1> QED
  BY <1>1, <1>2 DEF Next

\* As many marks as students, each of a student, are all the marks there are.
LEMMA EveryoneIsMarked ==
    ASSUME TypeOK, EveryoneMarked
    PROVE  Marked(marks) = SessionRoster
<1>1. SessionRoster \subseteq Students
  BY DEF SessionRoster, Marked, TypeOK
<1>2. IsFiniteSet(SessionRoster)
  BY <1>1, AttendanceAssumption, FS_Subset
<1> QED
  BY <1>2, FS_Subset DEF EveryoneMarked

\* The detailed service implements the abstract register.
THEOREM RegisterKept == Spec => KeepsRegister
<1>1. Init => Register!Init
  BY DEF Init, Register!Init, Blank, Register!Blank
<1>2. TypeOK /\ [Next]_vars => [Register!Next]_<<revision, status, note, marks>>
  <2> SUFFICES ASSUME TypeOK, [Next]_vars
               PROVE  Register!Next \/ UNCHANGED <<revision, status, note, marks>>
    OBVIOUS
  <2>1. CASE UNCHANGED service
    BY <2>1 DEF service
  <2>2. ASSUME NEW r \in Mutations, Commit(r) PROVE Register!Next
    <3> USE DEF AtRevision, NextRevision
    <3>1. CASE SaveSessionNote(r)
      BY <3>1 DEF SaveSessionNote, Mutations, TypeOK, MarkSheets, Register!Next, Register!Edit
    <3>2. CASE SaveAttendanceSnapshot(r)
      BY <3>2 DEF SaveAttendanceSnapshot, Mutations, TypeOK, MarkSheets, NotesHeld,
         Register!Next, Register!Edit
    <3>3. CASE SubmitAttendanceSession(r)
      <4>1. Marked(marks) # {}
        BY <3>3, EveryoneIsMarked DEF SubmitAttendanceSession
      <4>2. marks # Register!Blank
        BY <4>1 DEF Marked, Register!Blank
      <4> QED
        BY <3>3, <4>2 DEF SubmitAttendanceSession, Register!Next, Register!Submit
    <3>4. CASE ReopenAttendanceSession(r)
      BY <3>4 DEF ReopenAttendanceSession, Register!Next, Register!Reopen
    <3> QED
      BY <2>2, <3>1, <3>2, <3>3, <3>4 DEF Commit
  <2> QED
    BY <2>1, <2>2, RowChanges
<1> QED
  BY <1>1, <1>2, TypeInit, TypeStep, PTL DEF Spec, KeepsRegister, Register!Spec,
     Register!register

\* No session is submitted while a student of that date has no mark.
THEOREM SubmittedComplete == Spec => SubmittedIsComplete
<1>1. TypeOK /\ [Next]_vars =>
        [status = "open" /\ status' = "submitted" => eligible \subseteq Marked(marks)]_vars
  <2> SUFFICES ASSUME TypeOK, [Next]_vars, status = "open", status' = "submitted"
               PROVE  eligible \subseteq Marked(marks)
    OBVIOUS
  <2>1. PICK r \in Mutations : Commit(r)
    BY RowChanges DEF service
  <2>2. SubmitAttendanceSession(r)
    BY <2>1 DEF Commit, SaveSessionNote, SaveAttendanceSnapshot, ReopenAttendanceSession
  <2>3. Marked(marks) = SessionRoster
    BY <2>2, EveryoneIsMarked DEF SubmitAttendanceSession
  <2> QED
    BY <2>3 DEF SessionRoster
<1> QED
  BY <1>1, TypeInit, TypeStep, PTL DEF Spec, SubmittedIsComplete

\* Replaying the logged corrections over the first submission gives the marks.
THEOREM AuditComplete == Spec => []AuditIsComplete
<1>1. Init => AuditIsComplete
  BY DEF Init, AuditIsComplete
<1>2. TypeOK /\ AuditIsComplete /\ [Next]_vars => AuditIsComplete'
  <2> SUFFICES ASSUME TypeOK, AuditIsComplete, [Next]_vars PROVE AuditIsComplete'
    OBVIOUS
  <2>1. CASE UNCHANGED service
    BY <2>1 DEF service, AuditIsComplete
  <2>2. ASSUME NEW r \in Mutations, Commit(r) PROVE AuditIsComplete'
    <3>1. CASE SaveSessionNote(r)
      BY <3>1 DEF SaveSessionNote, AuditIsComplete
    <3>2. CASE SaveAttendanceSnapshot(r)
      <4>1. CASE reason = Nil
        BY <3>2, <4>1 DEF SaveAttendanceSnapshot, AuditIsComplete
      <4>2. CASE reason # Nil
        <5>1. audit = marks /\ marks' = r.marks /\ r.marks \in MarkSheets
          BY <3>2, <4>2 DEF SaveAttendanceSnapshot, AuditIsComplete, Mutations
        <5>2. audit' = [s \in Students |->
                          IF s \in Corrections(r) THEN r.marks[s] ELSE marks[s]]
          BY <3>2, <4>2, <5>1 DEF SaveAttendanceSnapshot
        <5>3. audit' = r.marks
          BY <5>1, <5>2 DEF Corrections, MarkSheets
        <5> QED
          BY <5>1, <5>3 DEF AuditIsComplete
      <4> QED
        BY <4>1, <4>2
    <3>3. CASE SubmitAttendanceSession(r)
      BY <3>3 DEF SubmitAttendanceSession, AuditIsComplete
    <3>4. CASE ReopenAttendanceSession(r)
      BY <3>4 DEF ReopenAttendanceSession, AuditIsComplete
    <3> QED
      BY <2>2, <3>1, <3>2, <3>3, <3>4 DEF Commit
  <2> QED
    BY <2>1, <2>2, RowChanges
<1> QED
  BY <1>1, <1>2, TypeInit, TypeStep, PTL DEF Spec
=============================================================================
