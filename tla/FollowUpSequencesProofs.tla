---------------------- MODULE FollowUpSequencesProofs ----------------------
(***************************************************************************)
(* Proofs about FollowUpSequences, for any number of runs, contacts,       *)
(* enrollments and steps, any quiet hours and any delay.                   *)
(***************************************************************************)
EXTENDS FollowUpSequences, FiniteSetTheorems, WellFoundedInduction, TLAPS

Codes == {"contact", "max", "quiet", "other"}
Copies == [enrollment : Enrollments, due : Nat, step : 1 .. Steps, reasons : SUBSET Codes]
Rows == [status : Statuses, contact : Contacts, position : 1 .. Steps + 1,
         due : Nat, touches : Nat, max : 1 .. MaxTouches]

WorkTyped == work \in [Handlers -> [listed : BOOLEAN, now : 0 .. MaxTime, due : SUBSET Copies]]

(* The invariant behind EachStepOnce: what a run holds of an enrollment is *)
(* as it is or has its key taken.                                          *)

\* A copy is of a row, and unless quiet hours moved the row: its step is the
\* row's with the row's due time, or has been run; it is within the touches if
\* nothing speaks against it; and a stopped row was stopped under its key.
CopyIsRight(d) ==
    LET row == enrollment[d.enrollment] IN
    /\ row.status # "absent"
    /\ deferrals[d.enrollment] = 0 =>
         /\ d.step <= row.position
         /\ d.step < row.position => Key(d) \in runs
         /\ d.step = row.position => d.due = row.due
         /\ d.reasons = {} => d.step <= row.max
         /\ row.status = "stopped" => Key(d) \in runs

CopiesAreRight == \A h \in Handlers : \A d \in work[h].due : CopyIsRight(d)

\* The touches are counted, and what never met quiet hours goes in order.
InOrder ==
    /\ \A e \in Enrollments : enrollment[e].touches = Len(taken[e])
    /\ \A e \in Enrollments : deferrals[e] = 0 =>
         /\ taken[e] = [n \in 1 .. enrollment[e].position - 1 |-> n]
         /\ Len(taken[e]) <= enrollment[e].max

\* OneActiveEach, said of pairs.
NoTwins ==
    \A e, f \in Enrollments :
        enrollment[e].status = "active" /\ enrollment[f].status = "active"
          /\ enrollment[e].contact = enrollment[f].contact => e = f

Inv == TypeOK /\ WorkTyped /\ InOrder /\ CopiesAreRight /\ NoTwins

-----------------------------------------------------------------------------
(* Helpers.                                                                *)

\* A row that is not absent has the columns of the table.
LEMMA PresentTyped ==
    ASSUME TypeOK, NEW e \in Enrollments, enrollment[e].status # "absent"
    PROVE  enrollment[e] \in Rows
<1>1. enrollment[e] \in {NoEnrollment} \cup Rows
  BY DEF TypeOK, Rows
<1>2. NoEnrollment.status = "absent"
  BY DEF NoEnrollment
<1> QED
  BY <1>1, <1>2

\* An absent row is the default.
LEMMA AbsentIsDefault ==
    ASSUME TypeOK, NEW e \in Enrollments, enrollment[e].status = "absent"
    PROVE  enrollment[e] = NoEnrollment
<1>1. enrollment[e] \in {NoEnrollment} \cup Rows
  BY DEF TypeOK, Rows
<1>2. \A r \in Rows : r.status # "absent"
  BY DEF Rows, Statuses
<1> QED
  BY <1>1, <1>2

\* The quiet hours end, at a time there is.
LEMMA QuietEnds ==
    ASSUME NEW t \in 0 .. MaxTime
    PROVE  QuietExit(t) \in Nat
<1> DEFINE S == {u \in t .. MaxTime + 1 : u \notin Quiet}
           R == {pair \in Nat \X Nat : pair[1] < pair[2]}
<1>1. MaxTime \in Nat /\ Quiet \subseteq 0 .. MaxTime
  BY SequenceAssumption
<1>2. MaxTime + 1 \in S
  BY <1>1
<1>3. S \subseteq Nat
  BY <1>1
<1>4. IsWellFoundedOn(R, Nat)
  BY NatLessThanWellFounded DEF OpToRel
<1>5. \E x \in S : \A y \in S : ~ (<<y, x>> \in R)
  <2> HIDE DEF S, R
  <2> QED
    BY <1>2, <1>3, <1>4, WFMin
<1>6. PICK x \in S : \A y \in S : ~ (<<y, x>> \in R)
  BY <1>5
<1>7. \A y \in S : x =< y
  <2> SUFFICES ASSUME NEW y \in S, ~ (x =< y)
               PROVE  FALSE
    OBVIOUS
  <2>1. x \in Nat /\ y \in Nat
    BY <1>3
  <2>2. <<y, x>> \in R
    BY <2>1
  <2> HIDE DEF R
  <2> QED
    BY <1>6, <2>2
<1>8. Min(S) \in S
  <2> HIDE DEF S
  <2> QED
    BY <1>6, <1>7 DEF Min
<1> QED
  BY <1>3, <1>8 DEF QuietExit

\* The list of the first n steps, with the next one.
LEMMA NextStep ==
    ASSUME NEW n \in Nat
    PROVE  /\ Append([i \in 1 .. n |-> i], n + 1) = [i \in 1 .. n + 1 |-> i]
           /\ Len([i \in 1 .. n |-> i]) = n
<1> DEFINE s == [i \in 1 .. n |-> i]
<1>1. s \in Seq(Nat) /\ Len(s) = n
  OBVIOUS
<1>2. Append(s, n + 1) = [i \in 1 .. Len(s) + 1 |-> IF i = Len(s) + 1 THEN n + 1 ELSE s[i]]
  BY <1>1
<1> QED
  BY <1>1, <1>2

LEMMA CopyTyped ==
    ASSUME WorkTyped, NEW h \in Handlers, NEW d \in work[h].due
    PROVE  /\ d \in Copies /\ d.enrollment \in Enrollments /\ d.due \in Nat
           /\ d.step \in 1 .. Steps /\ d.step \in Nat
           /\ Key(d) \in Enrollments \X (1 .. Steps) \X Nat
<1>1. d \in Copies
  BY DEF WorkTyped
<1>2. Steps \in Nat
  BY SequenceAssumption
<1> QED
  BY <1>1, <1>2 DEF Copies, Key

\* A run that gives one of its copies up keeps the others.
LEMMA DoneTyped ==
    ASSUME WorkTyped, NEW h \in Handlers, NEW d \in work[h].due, Done(h, d)
    PROVE  /\ WorkTyped'
           /\ \A g \in Handlers : work'[g].due \subseteq work[g].due
  BY DEF WorkTyped, Done

-----------------------------------------------------------------------------
(* The initial state.                                                      *)

LEMMA InitInv == ASSUME Init PROVE Inv
<1>1. TypeOK
  <2>1. \A e \in Enrollments : taken[e] \in Seq(1 .. Steps)
    BY DEF Init
  <2> QED
    BY <2>1, SequenceAssumption DEF Init, TypeOK
<1>2. WorkTyped
  BY SequenceAssumption DEF Init, WorkTyped, Idle
<1>3. InOrder
  <2> SUFFICES ASSUME NEW e \in Enrollments
               PROVE  /\ enrollment[e].touches = Len(taken[e])
                      /\ taken[e] = [n \in 1 .. enrollment[e].position - 1 |-> n]
                      /\ Len(taken[e]) <= enrollment[e].max
    BY DEF InOrder
  <2>1. enrollment[e] = NoEnrollment /\ taken[e] = <<>>
    BY DEF Init
  <2>2. [n \in 1 .. 1 - 1 |-> n] = <<>>
    OBVIOUS
  <2> QED
    BY <2>1, <2>2 DEF NoEnrollment
<1>4. CopiesAreRight
  BY DEF Init, CopiesAreRight, Idle
<1>5. NoTwins
  BY DEF Init, NoTwins, NoEnrollment
<1> QED
  BY <1>1, <1>2, <1>3, <1>4, <1>5 DEF Inv

-----------------------------------------------------------------------------
(* One lemma for each action.                                              *)

LEMMA EnrollInv ==
    ASSUME Inv, NEW e \in Enrollments, NEW c \in Contacts, NEW due \in {now, now + Delay},
           NEW max \in 1 .. MaxTouches, Enroll(e, c, due, max)
    PROVE  Inv'
<1> DEFINE row == [status |-> "active", contact |-> c, position |-> 1, due |-> due,
                   touches |-> 0, max |-> max]
<1>0. Delay \in Nat /\ MaxTime \in Nat /\ Steps \in Nat \ {0} /\ MaxTouches \in Nat
  BY SequenceAssumption
<1>1. enrollment' = [enrollment EXCEPT ![e] = row] /\ enrollment[e] = NoEnrollment
  BY AbsentIsDefault DEF Enroll, Inv
<1>2. row \in Rows
  <2>1. due \in Nat
    BY <1>0 DEF Inv, TypeOK
  <2> QED
    BY <1>0, <2>1 DEF Rows, Statuses
<1>3. TypeOK'
  <2>1. enrollment' \in [Enrollments -> {NoEnrollment} \cup Rows]
    BY <1>1, <1>2 DEF Inv, TypeOK, Rows
  <2> QED
    BY <2>1 DEF Inv, TypeOK, Enroll, Rows, history
<1>4. WorkTyped'
  BY DEF Inv, WorkTyped, Enroll
<1>5. enrollment'[e] = row /\ \A f \in Enrollments \ {e} : enrollment'[f] = enrollment[f]
  BY <1>1 DEF Inv, TypeOK
<1>6. InOrder'
  <2>1. taken[e] \in Seq(1 .. Steps)
    BY DEF Inv, TypeOK
  <2>2. Len(taken[e]) = 0
    BY <1>1 DEF Inv, InOrder, NoEnrollment
  <2>3. deferrals[e] = 0 => taken[e] = [n \in 1 .. 0 |-> n]
    BY <1>1 DEF Inv, InOrder, NoEnrollment
  <2> QED
    BY <1>0, <1>5, <2>2, <2>3 DEF Inv, InOrder, Enroll, history
<1>7. CopiesAreRight'
  <2> SUFFICES ASSUME NEW h \in Handlers, NEW d \in work[h].due
               PROVE  CopyIsRight(d)'
    BY DEF CopiesAreRight, Enroll
  <2>1. CopyIsRight(d) /\ d.enrollment \in Enrollments
    BY CopyTyped DEF Inv, CopiesAreRight
  <2>2. d.enrollment # e
    BY <1>1, <2>1 DEF CopyIsRight, NoEnrollment
  <2> QED
    BY <1>5, <2>1, <2>2 DEF CopyIsRight, Key, Enroll, history
<1>8. NoTwins'
  <2>1. \A f \in Enrollments : enrollment[f].status = "active" => enrollment[f].contact # c
    BY DEF Enroll, ActiveOf
  <2> QED
    BY <1>5, <2>1 DEF Inv, NoTwins
<1> QED
  BY <1>3, <1>4, <1>6, <1>7, <1>8 DEF Inv

\* The blocks and the clock are not what the invariant speaks of.
LEMMA MarkInv ==
    ASSUME Inv, NEW c \in Contacts, Mark(c)
    PROVE  Inv'
<1>1. TypeOK' /\ WorkTyped'
  BY DEF Inv, TypeOK, WorkTyped, Mark, history
<1>2. InOrder' /\ CopiesAreRight' /\ NoTwins'
  BY DEF Inv, InOrder, CopiesAreRight, CopyIsRight, Key, NoTwins, Mark, history
<1> QED
  BY <1>1, <1>2 DEF Inv

LEMMA TickInv ==
    ASSUME Inv, Tick
    PROVE  Inv'
<1>1. TypeOK' /\ WorkTyped'
  BY SequenceAssumption DEF Inv, TypeOK, WorkTyped, Tick, history
<1>2. InOrder' /\ CopiesAreRight' /\ NoTwins'
  BY DEF Inv, InOrder, CopiesAreRight, CopyIsRight, Key, NoTwins, Tick, history
<1> QED
  BY <1>1, <1>2 DEF Inv

LEMMA ReturnInv ==
    ASSUME Inv, NEW h \in Handlers, Return(h)
    PROVE  Inv'
<1>1. WorkTyped' /\ \A g \in Handlers : work'[g].due \subseteq work[g].due
  BY SequenceAssumption DEF Inv, WorkTyped, Return, Idle
<1>2. TypeOK' /\ InOrder' /\ NoTwins'
  BY DEF Inv, TypeOK, InOrder, NoTwins, Return, history
<1>3. CopiesAreRight'
  BY <1>1 DEF Inv, CopiesAreRight, CopyIsRight, Key, Return, history
<1> QED
  BY <1>1, <1>2, <1>3 DEF Inv

\* A copy is right when it is made.
LEMMA ListInv ==
    ASSUME Inv, NEW h \in Handlers, List(h)
    PROVE  Inv'
<1>0. Steps \in Nat /\ MaxLists \in Nat /\ MaxTime \in Nat
  BY SequenceAssumption
<1>1. PICK es \in SUBSET Due : \E others \in SUBSET es :
        work' = [work EXCEPT ![h] = [listed |-> TRUE, now |-> now,
                   due |-> {Copy(e, e \in others) : e \in es}]]
  BY DEF List
<1>2. PICK others \in SUBSET es :
        work' = [work EXCEPT ![h] = [listed |-> TRUE, now |-> now,
                   due |-> {Copy(e, e \in others) : e \in es}]]
  BY <1>1
<1> DEFINE copies == {Copy(e, e \in others) : e \in es}
<1>3. \A d \in copies : d \in Copies /\ CopyIsRight(d)
  <2> SUFFICES ASSUME NEW e \in es
               PROVE  Copy(e, e \in others) \in Copies /\ CopyIsRight(Copy(e, e \in others))
    OBVIOUS
  <2> DEFINE d == Copy(e, e \in others)
  <2>1. e \in Enrollments /\ enrollment[e].status = "active" /\ enrollment[e].position <= Steps
    BY DEF Due
  <2>2. enrollment[e] \in Rows
    BY <2>1, PresentTyped DEF Inv
  <2>3. d.enrollment = e /\ d.due = enrollment[e].due /\ d.step = enrollment[e].position
    BY DEF Copy
  <2>4. d.reasons = {} => enrollment[e].touches < enrollment[e].max
    <3> SUFFICES ASSUME enrollment[e].touches >= enrollment[e].max
                 PROVE  "max" \in d.reasons
      BY <2>2, SequenceAssumption DEF Rows
    <3> QED
      BY DEF Copy, Reasons
  <2>5. d \in Copies
    <3>1. Reasons(e, e \in others) \subseteq Codes
      BY DEF Reasons, Codes
    <3> QED
      BY <1>0, <2>1, <2>2, <3>1 DEF Copy, Copies, Rows
  <2>6. deferrals[e] = 0 => enrollment[e].touches = enrollment[e].position - 1
    <3> SUFFICES ASSUME deferrals[e] = 0
                 PROVE  enrollment[e].touches = enrollment[e].position - 1
      OBVIOUS
    <3>1. enrollment[e].touches = Len(taken[e])
      BY <2>1 DEF Inv, InOrder
    <3>2. taken[e] = [n \in 1 .. enrollment[e].position - 1 |-> n]
      BY <2>1 DEF Inv, InOrder
    <3>3. enrollment[e].position - 1 \in Nat
      BY <1>0, <2>2 DEF Rows
    <3> QED
      BY <3>1, <3>2, <3>3, NextStep
  <2>7. d.reasons = {} /\ deferrals[e] = 0 => enrollment[e].position <= enrollment[e].max
    BY <1>0, <2>2, <2>4, <2>6, SequenceAssumption DEF Rows
  <2>8. CopyIsRight(d)
    <3> HIDE DEF d
    <3> QED
      BY <1>0, <2>1, <2>2, <2>3, <2>7 DEF CopyIsRight, Rows
  <2> QED
    BY <2>5, <2>8
<1>4. WorkTyped' /\ \A g \in Handlers : work'[g].due \subseteq copies \cup work[g].due
  <2> HIDE DEF copies
  <2>1. copies \in SUBSET Copies /\ now \in 0 .. MaxTime
    BY <1>3 DEF Inv, TypeOK
  <2> QED
    BY <1>2, <2>1 DEF Inv, WorkTyped, copies
<1>5. TypeOK' /\ InOrder' /\ NoTwins'
  BY <1>0 DEF Inv, TypeOK, InOrder, NoTwins, List, history
<1>6. CopiesAreRight'
  <2> HIDE DEF copies
  <2> QED
    BY <1>3, <1>4 DEF Inv, CopiesAreRight, CopyIsRight, Key, List, history
<1> QED
  BY <1>4, <1>5, <1>6 DEF Inv

\* What Perform does not touch.
Apart == UNCHANGED <<blocked, archived, now, lists>>

\* A deferral only takes the row out of what is promised.
LEMMA DeferInv ==
    ASSUME Inv, NEW h \in Handlers, NEW d \in work[h].due, Defer(h, d), Done(h, d), Apart
    PROVE  Inv'
<1> DEFINE e == d.enrollment
           t == QuietExit(work[h].now)
<1>1. e \in Enrollments /\ enrollment[e].status # "absent"
  BY CopyTyped DEF Inv, CopiesAreRight, CopyIsRight
<1>2. enrollment[e] \in Rows
  BY <1>1, PresentTyped DEF Inv
<1>3. t \in Nat
  BY QuietEnds DEF Inv, WorkTyped
<1>4. enrollment'[e] = [enrollment[e] EXCEPT !.due = t] /\ enrollment'[e] \in Rows
  BY <1>1, <1>2, <1>3 DEF Defer, Inv, TypeOK, Rows
<1>5. \A f \in Enrollments \ {e} : enrollment'[f] = enrollment[f]
  BY DEF Defer, Inv, TypeOK
<1>6. /\ deferrals' = [deferrals EXCEPT ![e] = @ + 1]
      /\ deferrals'[e] = deferrals[e] + 1 /\ deferrals'[e] # 0
      /\ \A f \in Enrollments \ {e} : deferrals'[f] = deferrals[f]
      /\ UNCHANGED <<runs, tasks, taken>>
  BY <1>1 DEF Defer, Inv, TypeOK
<1>7. /\ enrollment'[e].status = enrollment[e].status
      /\ enrollment'[e].contact = enrollment[e].contact
      /\ enrollment'[e].touches = enrollment[e].touches
  BY <1>2, <1>4 DEF Rows
<1>8. WorkTyped' /\ \A g \in Handlers : work'[g].due \subseteq work[g].due
  BY DoneTyped DEF Inv
<1>9. TypeOK'
  <2>1. enrollment' \in [Enrollments -> {NoEnrollment} \cup Rows]
    BY <1>4, <1>5 DEF Inv, TypeOK, Defer, Rows
  <2>2. deferrals' \in [Enrollments -> Nat]
    <3>1. deferrals[e] + 1 \in Nat
      BY <1>1 DEF Inv, TypeOK
    <3> HIDE DEF e
    <3> QED
      BY <1>6, <3>1 DEF Inv, TypeOK
  <2> QED
    BY <1>1, <1>6, <2>1, <2>2 DEF Inv, TypeOK, Apart, Rows
<1>10. InOrder' /\ NoTwins'
  <2> HIDE DEF e, t
  <2> QED
    BY <1>1, <1>5, <1>6, <1>7 DEF Inv, InOrder, NoTwins
<1>11. CopiesAreRight'
  <2> HIDE DEF e, t
  <2> QED
    BY <1>1, <1>5, <1>6, <1>7, <1>8, CopyTyped DEF Inv, CopiesAreRight, CopyIsRight, Key
<1> QED
  BY <1>8, <1>9, <1>10, <1>11 DEF Inv

\* Where a key is new, the copy is of the row as it is, and every other copy of
\* the row's step has that key.
LEMMA NewKey ==
    ASSUME Inv, NEW h \in Handlers, NEW d \in work[h].due, Key(d) \notin runs,
           deferrals[d.enrollment] = 0
    PROVE  /\ d.step = enrollment[d.enrollment].position
           /\ enrollment[d.enrollment].status # "stopped"
           /\ \A g \in Handlers : \A x \in work[g].due :
                x.enrollment = d.enrollment => Key(x) \in runs \cup {Key(d)}
<1> DEFINE row == enrollment[d.enrollment]
<1>1. CopyIsRight(d) /\ d.enrollment \in Enrollments /\ d.step \in Nat
  BY CopyTyped DEF Inv, CopiesAreRight
<1>2. row \in Rows
  BY <1>1, PresentTyped DEF Inv, CopyIsRight
<1>3. row.position \in Nat
  BY <1>2, SequenceAssumption DEF Rows
<1>4. d.step = row.position /\ d.due = row.due /\ row.status # "stopped"
  BY <1>1, <1>3 DEF CopyIsRight
<1>5. ASSUME NEW g \in Handlers, NEW x \in work[g].due, x.enrollment = d.enrollment
      PROVE  Key(x) \in runs \cup {Key(d)}
  <2>1. CopyIsRight(x) /\ x.step \in Nat
    BY CopyTyped DEF Inv, CopiesAreRight
  <2>2. x.step < row.position => Key(x) \in runs
    BY <1>5, <2>1 DEF CopyIsRight
  <2>3. x.step = row.position => Key(x) = Key(d)
    BY <1>4, <1>5, <2>1 DEF CopyIsRight, Key
  <2>4. x.step <= row.position
    BY <1>5, <2>1 DEF CopyIsRight
  <2> QED
    BY <1>3, <2>1, <2>2, <2>3, <2>4
<1> QED
  BY <1>4, <1>5

LEMMA BlockedInv ==
    ASSUME Inv, NEW h \in Handlers, NEW d \in work[h].due, Blocked(d), Done(h, d), Apart
    PROVE  Inv'
<1> DEFINE e == d.enrollment
           s == IF StopsFor(d) THEN "stopped" ELSE enrollment[e].status
<1>1. /\ e \in Enrollments /\ enrollment[e].status # "absent"
      /\ Key(d) \in Enrollments \X (1 .. Steps) \X Nat
  BY CopyTyped DEF Inv, CopiesAreRight, CopyIsRight
<1>2. enrollment[e] \in Rows
  BY <1>1, PresentTyped DEF Inv
<1>3. enrollment'[e] = [enrollment[e] EXCEPT !.status = s]
  BY <1>1 DEF Blocked, Inv, TypeOK
<1>4. \A f \in Enrollments \ {e} : enrollment'[f] = enrollment[f]
  BY DEF Blocked, Inv, TypeOK
<1>5. runs' = runs \cup {Key(d)} /\ UNCHANGED <<tasks, taken, deferrals>>
  BY DEF Blocked, history
<1>6. s \in Statuses
  BY <1>2 DEF Rows, Statuses
<1>7. enrollment'[e] \in Rows /\ enrollment'[e].status = s
  BY <1>2, <1>3, <1>6 DEF Rows
<1>8. /\ enrollment'[e].contact = enrollment[e].contact
      /\ enrollment'[e].touches = enrollment[e].touches
      /\ enrollment'[e].position = enrollment[e].position
      /\ enrollment'[e].due = enrollment[e].due
      /\ enrollment'[e].max = enrollment[e].max
  BY <1>2, <1>3 DEF Rows
<1>9. WorkTyped' /\ \A g \in Handlers : work'[g].due \subseteq work[g].due
  BY DoneTyped DEF Inv
<1>10. TypeOK'
  <2>1. enrollment' \in [Enrollments -> {NoEnrollment} \cup Rows]
    BY <1>4, <1>7 DEF Inv, TypeOK, Blocked, Rows
  <2> QED
    BY <1>1, <1>5, <2>1 DEF Inv, TypeOK, Apart, Rows
<1>11. InOrder'
  BY <1>4, <1>5, <1>8 DEF Inv, InOrder
<1>12. NoTwins'
  <2>1. enrollment'[e].status = "active" => enrollment[e].status = "active"
    BY <1>7
  <2> HIDE DEF e, s
  <2> QED
    BY <1>4, <1>8, <2>1 DEF Inv, NoTwins
<1>13. CopiesAreRight'
  <2> SUFFICES ASSUME NEW g \in Handlers, NEW x \in work[g].due
               PROVE  CopyIsRight(x)'
    BY <1>9 DEF CopiesAreRight
  <2>1. CopyIsRight(x) /\ x.enrollment \in Enrollments
    BY CopyTyped DEF Inv, CopiesAreRight
  <2>2. CASE x.enrollment # e
    BY <1>4, <1>5, <2>1, <2>2 DEF CopyIsRight, Key
  <2>3. CASE x.enrollment = e
    <3>1. s # "absent"
      BY <1>6 DEF Statuses
    <3>2. s = "stopped" /\ deferrals[e] = 0 => Key(x) \in runs'
      <4>1. CASE StopsFor(d)
        BY <1>5, <2>3, <4>1, NewKey DEF StopsFor
      <4>2. CASE ~ StopsFor(d)
        BY <1>5, <2>1, <2>3, <4>2 DEF CopyIsRight
      <4> QED
        BY <4>1, <4>2
    <3> HIDE DEF s
    <3> QED
      BY <1>5, <1>7, <1>8, <2>1, <2>3, <3>1, <3>2 DEF CopyIsRight, Key
  <2> QED
    BY <2>2, <2>3
<1> QED
  BY <1>9, <1>10, <1>11, <1>12, <1>13 DEF Inv

\* What an executed step makes of a row.
LEMMA FurtherTyped ==
    ASSUME NEW x \in Rows, NEW d, d.step \in 1 .. Steps, NEW t \in Nat
    PROVE  LET y == OneFurther(x, d, t)
           IN  /\ y \in Rows
               /\ y.contact = x.contact /\ y.max = x.max
               /\ y.touches = x.touches + 1 /\ y.position = d.step + 1
               /\ y.status = IF d.step = Steps THEN "completed" ELSE x.status
<1>1. Steps \in Nat /\ Delay \in Nat
  BY SequenceAssumption
<1>2. t + Delay \in Nat /\ d.step + 1 \in 1 .. Steps + 1
  BY <1>1
<1> DEFINE y == OneFurther(x, d, t)
           status == IF d.step = Steps THEN "completed" ELSE x.status
           due == IF d.step = Steps THEN x.due ELSE t + Delay
<1>3. status \in Statuses /\ due \in Nat
  BY <1>2 DEF Rows, Statuses
<1>4. y = [x EXCEPT !.touches = x.touches + 1, !.position = d.step + 1, !.status = status, !.due = due]
  BY DEF OneFurther
<1> HIDE DEF y, status, due
<1>5. y = [status |-> status, contact |-> x.contact, position |-> d.step + 1,
           due |-> due, touches |-> x.touches + 1, max |-> x.max]
  BY <1>4 DEF Rows
<1>6. x.touches + 1 \in Nat /\ x.contact \in Contacts /\ x.max \in 1 .. MaxTouches
  BY DEF Rows
<1>7. y \in Rows
  BY <1>2, <1>3, <1>5, <1>6 DEF Rows
<1> QED
  BY <1>5, <1>7 DEF y, status

\* A step is executed when it is the next one, and once.
LEMMA ExecuteInv ==
    ASSUME Inv, NEW h \in Handlers, NEW d \in work[h].due, Execute(h, d), Done(h, d), Apart
    PROVE  Inv'
<1> DEFINE e == d.enrollment
           old == enrollment[e]
           new == enrollment'[e]
<1>0. Steps \in Nat \ {0} /\ Delay \in Nat /\ MaxTime \in Nat /\ MaxTouches \in Nat
  BY SequenceAssumption
<1>1. /\ e \in Enrollments /\ old.status # "absent" /\ d.step \in 1 .. Steps
      /\ Key(d) \in Enrollments \X (1 .. Steps) \X Nat
  BY CopyTyped DEF Inv, CopiesAreRight, CopyIsRight
<1>2. old \in Rows
  BY <1>1, PresentTyped DEF Inv
<1>3. work[h].now \in 0 .. MaxTime
  BY DEF Inv, WorkTyped
<1>4. \A f \in Enrollments \ {e} : enrollment'[f] = enrollment[f]
  BY DEF Execute, Advanced, Inv, TypeOK
<1>5. new = [old EXCEPT !.touches = @ + 1, !.position = d.step + 1,
                        !.status = IF d.step = Steps THEN "completed" ELSE @,
                        !.due = IF d.step = Steps THEN @ ELSE work[h].now + Delay]
  BY <1>1 DEF Execute, Advanced, OneFurther, Inv, TypeOK
<1>6. /\ new \in Rows
      /\ new.contact = old.contact /\ new.max = old.max
      /\ new.touches = old.touches + 1 /\ new.position = d.step + 1
      /\ new.status = IF d.step = Steps THEN "completed" ELSE old.status
  <2>1. new = OneFurther(old, d, work[h].now)
    BY <1>5 DEF OneFurther
  <2>2. work[h].now \in Nat
    BY <1>0, <1>3
  <2> HIDE DEF new, old
  <2> QED
    BY <1>1, <1>2, <2>1, <2>2, FurtherTyped
<1>7. /\ runs' = runs \cup {Key(d)} /\ UNCHANGED deferrals
      /\ taken' = [taken EXCEPT ![e] = Append(@, d.step)]
      /\ d.reasons = {} /\ Key(d) \notin runs
  BY DEF Execute
<1>8. taken[e] \in Seq(1 .. Steps) /\ taken'[e] = Append(taken[e], d.step)
      /\ \A f \in Enrollments \ {e} : taken'[f] = taken[f]
  BY <1>1, <1>7 DEF Inv, TypeOK
<1>9. WorkTyped' /\ \A g \in Handlers : work'[g].due \subseteq work[g].due
  BY DoneTyped DEF Inv
<1>10. TypeOK'
  <2>1. enrollment' \in [Enrollments -> {NoEnrollment} \cup Rows]
    <3> HIDE DEF new
    <3> QED
      BY <1>4, <1>6 DEF Inv, TypeOK, Execute, Advanced, Rows, new
  <2>2. taken' \in [Enrollments -> Seq(1 .. Steps)]
    <3>1. Append(taken[e], d.step) \in Seq(1 .. Steps)
      BY <1>1, <1>8
    <3> QED
      BY <1>7, <3>1 DEF Inv, TypeOK
  <2>3. tasks' \in [Enrollments -> [1 .. Steps -> Nat]]
    <3> DEFINE n == IF d.step \in Drafts THEN tasks[e][d.step] ELSE tasks[e][d.step] + 1
    <3>1. tasks[e] \in [1 .. Steps -> Nat]
      BY <1>1 DEF Inv, TypeOK
    <3>2. n \in Nat
      <4>1. tasks[e][d.step] \in Nat
        BY <1>1, <3>1
      <4> QED
        BY <4>1
    <3>3. tasks' = [tasks EXCEPT ![e] = [tasks[e] EXCEPT ![d.step] = n]]
      BY <1>1 DEF Execute, Inv, TypeOK
    <3> HIDE DEF n
    <3>4. [tasks[e] EXCEPT ![d.step] = n] \in [1 .. Steps -> Nat]
      BY <3>1, <3>2
    <3> QED
      BY <3>3, <3>4 DEF Inv, TypeOK
  <2> QED
    BY <1>1, <1>7, <2>1, <2>2, <2>3 DEF Inv, TypeOK, Apart, Rows
<1>11. deferrals[e] = 0 => d.step = old.position /\ d.step <= old.max
  BY <1>7, NewKey DEF Inv, CopiesAreRight, CopyIsRight
<1>12. InOrder'
  <2>1. new.touches = Len(taken'[e])
    <3>1. Len(Append(taken[e], d.step)) = Len(taken[e]) + 1
      BY <1>1, <1>8
    <3>2. old.touches = Len(taken[e])
      BY <1>1 DEF Inv, InOrder
    <3> QED
      BY <1>6, <1>8, <3>1, <3>2
  <2>2. ASSUME deferrals[e] = 0
        PROVE  /\ taken'[e] = [n \in 1 .. new.position - 1 |-> n]
               /\ Len(taken'[e]) <= new.max
    <3>1. taken[e] = [n \in 1 .. d.step - 1 |-> n]
      BY <1>1, <1>11, <2>2 DEF Inv, InOrder
    <3>2. d.step - 1 \in Nat /\ (d.step - 1) + 1 = d.step /\ (d.step + 1) - 1 = d.step
      BY <1>0, <1>1
    <3>3. taken'[e] = [n \in 1 .. d.step |-> n] /\ Len([n \in 1 .. d.step |-> n]) = d.step
      <4>1. Append([n \in 1 .. d.step - 1 |-> n], (d.step - 1) + 1)
              = [n \in 1 .. (d.step - 1) + 1 |-> n]
        BY <3>2, NextStep
      <4>2. d.step \in Nat
        BY <1>0, <1>1
      <4>3. Len([n \in 1 .. d.step |-> n]) = d.step
        BY <4>2, NextStep
      <4> QED
        BY <1>8, <3>1, <3>2, <4>1, <4>3
    <3> QED
      BY <1>6, <1>11, <2>2, <3>2, <3>3
  <2> HIDE DEF new, old
  <2>3. \A f \in Enrollments : f # e => enrollment'[f] = enrollment[f] /\ taken'[f] = taken[f]
    BY <1>4, <1>8
  <2> QED
    BY <1>7, <2>1, <2>2, <2>3 DEF Inv, InOrder, new
<1>13. NoTwins'
  <2>1. new.status = "active" => old.status = "active"
    BY <1>6
  <2>2. new.contact = old.contact
    BY <1>6
  <2> HIDE DEF e
  <2> QED
    BY <1>4, <2>1, <2>2 DEF Inv, NoTwins
<1>14. CopiesAreRight'
  <2> SUFFICES ASSUME NEW g \in Handlers, NEW x \in work[g].due
               PROVE  CopyIsRight(x)'
    BY <1>9 DEF CopiesAreRight
  <2>1. CopyIsRight(x) /\ x.enrollment \in Enrollments /\ x.step \in 1 .. Steps
    BY CopyTyped DEF Inv, CopiesAreRight
  <2>2. CASE x.enrollment # e
    BY <1>4, <1>7, <2>1, <2>2 DEF CopyIsRight, Key
  <2>3. CASE x.enrollment = e
    <3>1. new.status # "absent"
      BY <1>6 DEF Rows, Statuses
    <3>2. CASE deferrals[e] # 0
      BY <1>7, <2>3, <3>1, <3>2 DEF CopyIsRight, Key
    <3>3. CASE deferrals[e] = 0
      <4>1. Key(x) \in runs' /\ d.step = old.position
        BY <1>7, <2>3, <3>3, NewKey
      <4>2. x.step <= d.step /\ (x.reasons = {} => x.step <= old.max)
        BY <2>1, <2>3, <3>3, <4>1 DEF CopyIsRight
      <4>3. x.step < new.position
        BY <1>0, <1>1, <1>6, <2>1, <4>2
      <4>4. new.position \in Nat /\ x.step \in Nat /\ new.max = old.max
        BY <1>0, <1>1, <1>6, <2>1
      <4> HIDE DEF new, old
      <4> QED
        BY <1>7, <2>3, <3>1, <3>3, <4>1, <4>2, <4>3, <4>4 DEF CopyIsRight, Key, new
    <3> QED
      BY <3>2, <3>3
  <2> QED
    BY <2>2, <2>3
<1> QED
  BY <1>9, <1>10, <1>12, <1>13, <1>14 DEF Inv

LEMMA PerformInv ==
    ASSUME Inv, NEW h \in Handlers, Perform(h)
    PROVE  Inv'
<1>1. PICK d \in work[h].due :
        (Defer(h, d) \/ Blocked(d) \/ Execute(h, d) \/ Duplicate(d)) /\ Done(h, d)
  BY DEF Perform
<1>2. Apart
  BY DEF Perform, Apart
<1>3. CASE Defer(h, d)
  BY <1>1, <1>2, <1>3, DeferInv
<1>4. CASE Blocked(d)
  BY <1>1, <1>2, <1>4, BlockedInv
<1>5. CASE Execute(h, d)
  BY <1>1, <1>2, <1>5, ExecuteInv
<1>6. CASE Duplicate(d)
  <2>1. WorkTyped' /\ \A g \in Handlers : work'[g].due \subseteq work[g].due
    BY <1>1, DoneTyped DEF Inv
  <2>2. TypeOK' /\ InOrder' /\ NoTwins'
    BY <1>2, <1>6 DEF Inv, TypeOK, InOrder, NoTwins, Duplicate, Apart, history
  <2>3. CopiesAreRight'
    BY <1>6, <2>1 DEF Inv, CopiesAreRight, CopyIsRight, Key, Duplicate, history
  <2> QED
    BY <2>1, <2>2, <2>3 DEF Inv
<1> QED
  BY <1>1, <1>3, <1>4, <1>5, <1>6

\* A merge leaves the place of each row in the sequence alone.
LEMMA MergedRow ==
    ASSUME Inv, NEW c \in Contacts, NEW d \in Contacts, Merge(c, d), NEW e \in Enrollments
    PROVE  /\ enrollment[e].status = "absent" => enrollment'[e] = enrollment[e]
           /\ enrollment[e].status # "absent" =>
                /\ enrollment'[e] \in Rows
                /\ enrollment'[e].status = MergedStatus(e, c, d)
                /\ enrollment'[e].contact =
                     IF enrollment[e].contact = c THEN d ELSE enrollment[e].contact
           /\ enrollment'[e].touches = enrollment[e].touches
           /\ enrollment'[e].position = enrollment[e].position
           /\ enrollment'[e].due = enrollment[e].due
           /\ enrollment'[e].max = enrollment[e].max
<1>0. None \notin Contacts
  BY SequenceAssumption
<1>1. enrollment'[e] = [Moved(enrollment[e], c, d) EXCEPT !.status = MergedStatus(e, c, d)]
  BY DEF Merge
<1>2. CASE enrollment[e].status = "absent"
  <2>1. enrollment[e] = NoEnrollment
    BY <1>2, AbsentIsDefault DEF Inv
  <2>2. Moved(enrollment[e], c, d) = NoEnrollment
    BY <1>0, <2>1 DEF Moved, NoEnrollment
  <2>3. MergedStatus(e, c, d) = "absent"
    BY <1>2 DEF MergedStatus, ActiveOf
  <2>4. enrollment'[e] = enrollment[e]
    BY <1>1, <2>1, <2>2, <2>3 DEF NoEnrollment
  <2> QED
    BY <1>2, <2>4
<1>3. CASE enrollment[e].status # "absent"
  <2>1. enrollment[e] \in Rows
    BY <1>3, PresentTyped DEF Inv
  <2>2. Moved(enrollment[e], c, d) =
          [enrollment[e] EXCEPT !.contact = IF enrollment[e].contact = c THEN d ELSE @]
    BY <2>1 DEF Moved, Rows
  <2>3. MergedStatus(e, c, d) \in Statuses
    BY <2>1 DEF MergedStatus, Rows, Statuses
  <2> QED
    BY <1>1, <1>3, <2>1, <2>2, <2>3 DEF Rows
<1> QED
  BY <1>2, <1>3

\* Merged rows keep their place in the sequence; of two active ones one stays.
LEMMA MergeInv ==
    ASSUME Inv, NEW c \in Contacts, NEW d \in Contacts, Merge(c, d)
    PROVE  Inv'
<1>1. ASSUME NEW e \in Enrollments, enrollment[e].status = "absent"
      PROVE  enrollment'[e] = enrollment[e]
  BY <1>1, MergedRow
<1>2. ASSUME NEW e \in Enrollments, enrollment[e].status # "absent"
      PROVE  /\ enrollment'[e] \in Rows
             /\ enrollment'[e].status = MergedStatus(e, c, d)
             /\ enrollment'[e].contact = IF enrollment[e].contact = c THEN d ELSE enrollment[e].contact
             /\ enrollment'[e].due = enrollment[e].due
  BY <1>2, MergedRow
<1>3. \A e \in Enrollments :
        /\ enrollment'[e].touches = enrollment[e].touches
        /\ enrollment'[e].position = enrollment[e].position
        /\ enrollment'[e].max = enrollment[e].max
  BY MergedRow
<1>4. TypeOK'
  <2>1. enrollment' \in [Enrollments -> {NoEnrollment} \cup Rows]
    <3>1. \A e \in Enrollments : enrollment'[e] \in {NoEnrollment} \cup Rows
      BY <1>1, <1>2 DEF Inv, TypeOK, Rows
    <3> QED
      BY <3>1 DEF Merge
  <2> QED
    BY <2>1 DEF Inv, TypeOK, Merge, Rows, history
<1>5. WorkTyped'
  BY DEF Inv, WorkTyped, Merge
<1>6. InOrder'
  BY <1>3 DEF Inv, InOrder, Merge, history
<1>7. CopiesAreRight'
  <2> SUFFICES ASSUME NEW h \in Handlers, NEW x \in work[h].due
               PROVE  CopyIsRight(x)'
    BY DEF CopiesAreRight, Merge
  <2>1. CopyIsRight(x) /\ x.enrollment \in Enrollments
    BY CopyTyped DEF Inv, CopiesAreRight
  <2>2. enrollment[x.enrollment].status # "absent"
    BY <2>1 DEF CopyIsRight
  <2>3. /\ MergedStatus(x.enrollment, c, d) = "stopped" => enrollment[x.enrollment].status = "stopped"
        /\ MergedStatus(x.enrollment, c, d) # "absent"
    BY <2>2 DEF MergedStatus
  <2>4. enrollment'[x.enrollment].status = MergedStatus(x.enrollment, c, d)
        /\ enrollment'[x.enrollment].due = enrollment[x.enrollment].due
    BY <1>2, <2>1, <2>2
  <2> QED
    BY <1>3, <2>1, <2>3, <2>4 DEF CopyIsRight, Key, Merge, history
<1>8. NoTwins'
  <2> SUFFICES ASSUME NEW e \in Enrollments, NEW f \in Enrollments,
                      enrollment'[e].status = "active", enrollment'[f].status = "active",
                      enrollment'[e].contact = enrollment'[f].contact
               PROVE  e = f
    BY DEF NoTwins
  <2>1. \A x \in Enrollments : enrollment'[x].status = "active" =>
          /\ enrollment[x].status = "active"
          /\ enrollment'[x].contact = IF enrollment[x].contact = c THEN d ELSE enrollment[x].contact
          /\ enrollment[x].contact = c => ActiveOf(d) = {}
    <3> TAKE x \in Enrollments
    <3> HAVE enrollment'[x].status = "active"
    <3>1. enrollment[x].status # "absent"
      BY <1>1
    <3>2. MergedStatus(x, c, d) = "active"
      BY <1>2, <3>1
    <3> QED
      BY <1>2, <3>1, <3>2 DEF MergedStatus, ActiveOf
  <2>2. \A x \in Enrollments : enrollment[x].status = "active" /\ enrollment[x].contact = d =>
          ActiveOf(d) # {}
    BY DEF ActiveOf
  <2> QED
    BY <2>1, <2>2 DEF Inv, NoTwins
<1> QED
  BY <1>4, <1>5, <1>6, <1>7, <1>8 DEF Inv

LEMMA StutterInv ==
    ASSUME Inv, UNCHANGED vars
    PROVE  Inv'
<1>1. TypeOK' /\ WorkTyped' /\ InOrder' /\ NoTwins'
  BY DEF Inv, TypeOK, WorkTyped, InOrder, NoTwins, vars, history
<1>2. CopiesAreRight'
  BY DEF Inv, CopiesAreRight, CopyIsRight, Key, vars, history
<1> QED
  BY <1>1, <1>2 DEF Inv

LEMMA NextInv == ASSUME Inv, [Next]_vars PROVE Inv'
<1>1. CASE UNCHANGED vars
  BY <1>1, StutterInv
<1>2. CASE \E e \in Enrollments, c \in Contacts, due \in {now, now + Delay}, max \in 1 .. MaxTouches :
             Enroll(e, c, due, max)
  BY <1>2, EnrollInv
<1>3. CASE \E c \in Contacts : Mark(c)
  BY <1>3, MarkInv
<1>4. CASE \E c, d \in Contacts : Merge(c, d)
  BY <1>4, MergeInv
<1>5. ASSUME NEW h \in Handlers, List(h) \/ Perform(h) \/ Return(h)
      PROVE  Inv'
  BY <1>5, ListInv, PerformInv, ReturnInv
<1>6. CASE Tick
  BY <1>6, TickInv
<1> QED
  BY <1>1, <1>2, <1>3, <1>4, <1>5, <1>6 DEF Next

-----------------------------------------------------------------------------
(* What a deferral may cost.  A key that was not run yet is a step that may *)
(* still be taken: the row has one, and each copy may have another.  Only   *)
(* the due time that quiet hours write makes one more of them.              *)

RowKey(e) == <<e, enrollment[e].position, enrollment[e].due>>
Held(e) == {d \in UNION {work[h].due : h \in Handlers} : d.enrollment = e}

\* The keys up to step s that may still be run, and those of copies that nothing
\* speaks against.
Pool(e, s) == {k \in {RowKey(e)} \cup {Key(d) : d \in Held(e)} : k[2] <= s /\ k \notin runs}
Out(e) == {Key(d) : d \in {x \in Held(e) : x.reasons = {}}} \ runs

StepBudget(e) ==
    \A s \in 1 .. Steps :
        IsFiniteSet(Pool(e, s)) /\ Cardinality(Pool(e, s)) + Times(e, s) <= 1 + deferrals[e]
TouchBudget(e) ==
    enrollment[e].touches + Cardinality(Out(e)) <= enrollment[e].max + deferrals[e]

TasksCounted(e) ==
    \A s \in 1 .. Steps : tasks[e][s] = IF s \in Drafts THEN 0 ELSE Times(e, s)

\* Whatever the row or a copy is at, the step before it was taken.
Reached(e, p) == p = 1 \/ \E n \in DOMAIN taken[e] : taken[e][n] = p - 1
NoneSkipped(e) ==
    /\ \A n \in DOMAIN taken[e] :
         taken[e][n] = 1 \/ \E m \in 1 .. n - 1 : taken[e][m] = taken[e][n] - 1
    /\ Reached(e, enrollment[e].position)
    /\ \A d \in Held(e) : Reached(e, d.step)

CountsOf(e) == StepBudget(e) /\ TouchBudget(e) /\ TasksCounted(e) /\ NoneSkipped(e)

\* A set that gave one member up and got at most one has not grown.
LEMMA Traded ==
    ASSUME NEW S, IsFiniteSet(S), NEW k \in S, NEW x, NEW T, T \subseteq (S \ {k}) \cup {x}
    PROVE  IsFiniteSet(T) /\ Cardinality(T) <= Cardinality(S)
<1>1. /\ IsFiniteSet(S \ {k}) /\ Cardinality(S \ {k}) = Cardinality(S) - 1
      /\ Cardinality(S) \in Nat /\ Cardinality(S \ {k}) \in Nat
  BY FS_RemoveElement, FS_CardinalityType
<1>2. /\ IsFiniteSet((S \ {k}) \cup {x})
      /\ Cardinality((S \ {k}) \cup {x}) \in {Cardinality(S \ {k}), Cardinality(S \ {k}) + 1}
  BY <1>1, FS_AddElement
<1>3. IsFiniteSet(T) /\ Cardinality(T) <= Cardinality((S \ {k}) \cup {x}) /\ Cardinality(T) \in Nat
  BY <1>2, FS_Subset, FS_CardinalityType
<1> QED
  BY <1>1, <1>2, <1>3

\* One that gave one up has a place free, and one that got one is one larger.
LEMMA GivenUp ==
    ASSUME NEW S, IsFiniteSet(S), NEW k \in S, NEW T, T \subseteq S \ {k}
    PROVE  IsFiniteSet(T) /\ Cardinality(T) + 1 <= Cardinality(S)
<1>1. /\ IsFiniteSet(S \ {k}) /\ Cardinality(S \ {k}) = Cardinality(S) - 1
      /\ Cardinality(S) \in Nat
  BY FS_RemoveElement, FS_CardinalityType
<1>2. IsFiniteSet(T) /\ Cardinality(T) <= Cardinality(S \ {k}) /\ Cardinality(T) \in Nat
  BY <1>1, FS_Subset, FS_CardinalityType
<1> QED
  BY <1>1, <1>2

LEMMA OneMore ==
    ASSUME NEW S, IsFiniteSet(S), NEW x, NEW T, T \subseteq S \cup {x}
    PROVE  IsFiniteSet(T) /\ Cardinality(T) <= Cardinality(S) + 1
<1>1. /\ IsFiniteSet(S \cup {x}) /\ Cardinality(S) \in Nat
      /\ Cardinality(S \cup {x}) \in {Cardinality(S), Cardinality(S) + 1}
  BY FS_AddElement, FS_CardinalityType
<1>2. IsFiniteSet(T) /\ Cardinality(T) <= Cardinality(S \cup {x}) /\ Cardinality(T) \in Nat
  BY <1>1, FS_Subset, FS_CardinalityType
<1> QED
  BY <1>1, <1>2

Places(q, s) == {n \in DOMAIN q : q[n] = s}

\* Taking a step counts it once more and no other.
LEMMA TimesOfNext ==
    ASSUME NEW q \in Seq(1 .. Steps), NEW x \in 1 .. Steps, NEW s
    PROVE  /\ Cardinality(Places(q, s)) \in Nat
           /\ Cardinality(Places(Append(q, x), s)) =
                IF x = s THEN Cardinality(Places(q, s)) + 1 ELSE Cardinality(Places(q, s))
<1>1. IsFiniteSet(Places(q, s)) /\ Cardinality(Places(q, s)) \in Nat
  <2>1. IsFiniteSet(1 .. Len(q)) /\ Places(q, s) \subseteq 1 .. Len(q)
    BY FS_Interval DEF Places
  <2> QED
    BY <2>1, FS_Subset, FS_CardinalityType
<1>2. /\ DOMAIN Append(q, x) = 1 .. Len(q) + 1 /\ DOMAIN q = 1 .. Len(q)
      /\ Append(q, x)[Len(q) + 1] = x /\ Len(q) \in Nat
      /\ \A n \in 1 .. Len(q) : Append(q, x)[n] = q[n]
  OBVIOUS
<1>3. CASE x = s
  <2>1. Places(Append(q, x), s) = Places(q, s) \cup {Len(q) + 1}
    BY <1>2, <1>3 DEF Places
  <2>2. Len(q) + 1 \notin Places(q, s)
    BY <1>2 DEF Places
  <2> QED
    BY <1>1, <1>3, <2>1, <2>2, FS_AddElement
<1>4. CASE x # s
  <2>1. Places(Append(q, x), s) = Places(q, s)
    BY <1>2, <1>4 DEF Places
  <2> QED
    BY <1>1, <1>4, <2>1
<1> QED
  BY <1>1, <1>3, <1>4

LEMMA TimesTyped ==
    ASSUME TypeOK, NEW e \in Enrollments, NEW s
    PROVE  Times(e, s) \in Nat
<1>1. taken[e] \in Seq(1 .. Steps) /\ 1 \in 1 .. Steps
  BY SequenceAssumption DEF TypeOK
<1> QED
  BY <1>1, TimesOfNext DEF Times, Places

\* The counters of a row, absent or not.
LEMMA RowTyped ==
    ASSUME TypeOK, NEW e \in Enrollments
    PROVE  enrollment[e].touches \in Nat /\ enrollment[e].max \in Nat
<1>1. CASE enrollment[e].status = "absent"
  BY <1>1, AbsentIsDefault DEF NoEnrollment
<1>2. CASE enrollment[e].status # "absent"
  <2>1. enrollment[e] \in Rows /\ MaxTouches \in Nat
    BY <1>2, PresentTyped, SequenceAssumption
  <2> QED
    BY <2>1 DEF Rows
<1> QED
  BY <1>1, <1>2

\* What a copy of the row holds.
LEMMA HeldTyped ==
    ASSUME WorkTyped, NEW e \in Enrollments, NEW d \in Held(e)
    PROVE  /\ d \in Copies /\ d.enrollment = e /\ d.step \in 1 .. Steps /\ d.step \in Nat
           /\ Key(d) = <<e, d.step, d.due>> /\ Key(d)[2] = d.step
  BY CopyTyped DEF Held, Key

LEMMA OutInPool ==
    ASSUME WorkTyped, NEW e \in Enrollments
    PROVE  Out(e) \subseteq Pool(e, Steps)
<1>1. \A d \in Held(e) : Key(d)[2] <= Steps
  BY HeldTyped, SequenceAssumption
<1> QED
  BY <1>1 DEF Out, Pool

LEMMA OutCounted ==
    ASSUME Inv, NEW e \in Enrollments, CountsOf(e)
    PROVE  IsFiniteSet(Out(e)) /\ Cardinality(Out(e)) \in Nat
<1>1. IsFiniteSet(Pool(e, Steps))
  BY SequenceAssumption DEF CountsOf, StepBudget
<1> QED
  BY <1>1, OutInPool, FS_Subset, FS_CardinalityType DEF Inv

\* A row that a step leaves where it is keeps its counts, also when it is listed.
LEMMA Unmoved ==
    ASSUME Inv, WorkTyped', NEW e \in Enrollments, CountsOf(e),
           enrollment'[e].position = enrollment[e].position,
           enrollment'[e].due = enrollment[e].due,
           enrollment'[e].touches = enrollment[e].touches,
           enrollment'[e].max = enrollment[e].max,
           taken'[e] = taken[e], tasks'[e] = tasks[e], deferrals'[e] = deferrals[e],
           runs \subseteq runs',
           \A d \in Held(e)' : d \in Held(e) \/
             /\ d.step = enrollment[e].position /\ d.due = enrollment[e].due
             /\ d.reasons = {} => enrollment[e].touches < enrollment[e].max
    PROVE  CountsOf(e)'
<1>0. Steps \in Nat \ {0} /\ MaxTouches \in Nat
  BY SequenceAssumption
<1>1. \A d \in Held(e)' : Key(d) = IF d \in Held(e) THEN Key(d) ELSE RowKey(e)
  BY HeldTyped DEF RowKey, Held, Key
<1>2. \A s \in 1 .. Steps : Pool(e, s)' \subseteq Pool(e, s)
  <2> SUFFICES ASSUME NEW s \in 1 .. Steps, NEW k \in Pool(e, s)'
               PROVE  k \in Pool(e, s)
    OBVIOUS
  <2>1. k[2] <= s /\ k \notin runs /\ (k = RowKey(e)' \/ \E d \in Held(e)' : k = Key(d))
    BY DEF Pool, Key
  <2>2. RowKey(e)' = RowKey(e)
    BY DEF RowKey
  <2>3. k = RowKey(e) \/ \E d \in Held(e) : k = Key(d)
    BY <1>1, <2>1, <2>2
  <2> QED
    BY <2>1, <2>3 DEF Pool
<1>3. StepBudget(e)'
  <2> SUFFICES ASSUME NEW s \in 1 .. Steps
               PROVE  IsFiniteSet(Pool(e, s)') /\
                      Cardinality(Pool(e, s)') + Times(e, s)' <= 1 + deferrals'[e]
    BY DEF StepBudget
  <2>1. IsFiniteSet(Pool(e, s)) /\ Cardinality(Pool(e, s)) + Times(e, s) <= 1 + deferrals[e]
    BY DEF CountsOf, StepBudget
  <2>2. /\ IsFiniteSet(Pool(e, s)') /\ Cardinality(Pool(e, s)') <= Cardinality(Pool(e, s))
        /\ Cardinality(Pool(e, s)') \in Nat /\ Cardinality(Pool(e, s)) \in Nat
    BY <1>2, <2>1, FS_Subset, FS_CardinalityType
  <2>3. Times(e, s)' = Times(e, s) /\ Times(e, s) \in Nat /\ deferrals[e] \in Nat
    BY TimesTyped DEF Times, Inv, TypeOK
  <2> QED
    BY <2>1, <2>2, <2>3
<1>4. TouchBudget(e)'
  <2>1. /\ IsFiniteSet(Out(e)) /\ Cardinality(Out(e)) \in Nat
        /\ enrollment[e].touches + Cardinality(Out(e)) <= enrollment[e].max + deferrals[e]
    BY OutCounted DEF CountsOf, TouchBudget
  <2>2. enrollment[e].touches \in Nat /\ enrollment[e].max \in Nat /\ deferrals[e] \in Nat
    BY RowTyped DEF Inv, TypeOK
  <2>3. CASE enrollment[e].touches < enrollment[e].max
    <3>1. Out(e)' \subseteq Pool(e, Steps)
      <4>1. Out(e)' \subseteq Pool(e, Steps)'
        <5>1. \A d \in Held(e)' : Key(d)[2] <= Steps
          BY <1>0 DEF WorkTyped, Held, Copies, Key
        <5> QED
          BY <5>1 DEF Out, Pool, Key
      <4> QED
        BY <1>0, <1>2, <4>1
    <3>2. /\ IsFiniteSet(Pool(e, Steps)) /\ Times(e, Steps) \in Nat
          /\ Cardinality(Pool(e, Steps)) + Times(e, Steps) <= 1 + deferrals[e]
      BY <1>0, TimesTyped DEF Inv, CountsOf, StepBudget
    <3>3. /\ Cardinality(Out(e)') <= Cardinality(Pool(e, Steps))
          /\ Cardinality(Out(e)') \in Nat /\ Cardinality(Pool(e, Steps)) \in Nat
      BY <3>1, <3>2, FS_Subset, FS_CardinalityType
    <3>4. enrollment[e].touches + Cardinality(Out(e)') <= enrollment[e].max + deferrals[e]
      BY <2>2, <2>3, <3>2, <3>3
    <3> QED
      BY <3>4 DEF TouchBudget
  <2>4. CASE ~ (enrollment[e].touches < enrollment[e].max)
    <3>1. Out(e)' \subseteq Out(e)
      BY <2>4 DEF Out, Key
    <3>2. Cardinality(Out(e)') <= Cardinality(Out(e)) /\ Cardinality(Out(e)') \in Nat
      BY <2>1, <3>1, FS_Subset, FS_CardinalityType
    <3>3. enrollment[e].touches + Cardinality(Out(e)') <= enrollment[e].max + deferrals[e]
      BY <2>1, <2>2, <3>2
    <3> QED
      BY <3>3 DEF TouchBudget
  <2> QED
    BY <2>3, <2>4
<1>5. TasksCounted(e)'
  BY DEF CountsOf, TasksCounted, Times
<1>6. NoneSkipped(e)'
  BY DEF CountsOf, NoneSkipped, Reached
<1> QED
  BY <1>3, <1>4, <1>5, <1>6 DEF CountsOf

\* An absent row is of no copy and has taken nothing; it begins with one key.
LEMMA BeginsCounted ==
    ASSUME Inv, NEW e \in Enrollments, enrollment[e].status = "absent"
    PROVE  Held(e) = {} /\ taken[e] = <<>> /\ enrollment[e] = NoEnrollment
<1>1. enrollment[e] = NoEnrollment
  BY AbsentIsDefault DEF Inv
<1>2. Held(e) = {}
  BY DEF Inv, CopiesAreRight, CopyIsRight, Held
<1>3. taken[e] = <<>>
  <2>1. Len(taken[e]) = 0
    BY <1>1 DEF Inv, InOrder, NoEnrollment
  <2> QED
    BY <2>1 DEF Inv, TypeOK
<1> QED
  BY <1>1, <1>2, <1>3

LEMMA EnrollCounts ==
    ASSUME Inv, NEW e \in Enrollments, CountsOf(e), enrollment[e].status = "absent",
           enrollment'[e].position = 1, enrollment'[e].touches = 0,
           enrollment'[e].max \in Nat,
           UNCHANGED <<runs, tasks, taken, deferrals, work>>
    PROVE  CountsOf(e)'
<1>1. Held(e) = {} /\ Held(e)' = {} /\ taken[e] = <<>>
  BY BeginsCounted DEF Held
<1>2. deferrals[e] \in Nat
  BY DEF Inv, TypeOK
<1>3. StepBudget(e)'
  <2> SUFFICES ASSUME NEW s \in 1 .. Steps
               PROVE  IsFiniteSet(Pool(e, s)') /\
                      Cardinality(Pool(e, s)') + Times(e, s)' <= 1 + deferrals'[e]
    BY DEF StepBudget
  <2>1. Pool(e, s)' \subseteq {RowKey(e)'}
    BY <1>1 DEF Pool
  <2>2. /\ IsFiniteSet(Pool(e, s)') /\ Cardinality(Pool(e, s)') \in Nat
        /\ Cardinality(Pool(e, s)') <= 1
    <3>1. IsFiniteSet({RowKey(e)'}) /\ Cardinality({RowKey(e)'}) = 1
      BY FS_Singleton
    <3>2. /\ IsFiniteSet(Pool(e, s)')
          /\ Cardinality(Pool(e, s)') <= Cardinality({RowKey(e)'})
      BY <2>1, <3>1, FS_Subset
    <3> QED
      BY <3>1, <3>2, FS_CardinalityType
  <2>3. Times(e, s)' = 0
    <3>1. {n \in DOMAIN taken[e] : taken[e][n] = s} = {}
      BY <1>1
    <3> QED
      BY <3>1, FS_EmptySet DEF Times
  <2> QED
    BY <1>2, <2>2, <2>3
<1>4. TouchBudget(e)'
  <2>1. Out(e)' = {}
    BY <1>1 DEF Out
  <2>2. Cardinality(Out(e)') = 0
    BY <2>1, FS_EmptySet
  <2> QED
    BY <1>2, <2>2 DEF TouchBudget
<1>5. TasksCounted(e)'
  BY DEF CountsOf, TasksCounted, Times
<1>6. NoneSkipped(e)'
  BY <1>1 DEF NoneSkipped, Reached
<1> QED
  BY <1>3, <1>4, <1>5, <1>6 DEF CountsOf

\* A deferral makes one more key and is counted.
LEMMA DeferCounts ==
    ASSUME Inv, NEW h \in Handlers, NEW d \in work[h].due, Defer(h, d), Done(h, d),
           CountsOf(d.enrollment)
    PROVE  CountsOf(d.enrollment)'
<1> DEFINE e == d.enrollment
<1>1. e \in Enrollments /\ enrollment[e] \in Rows
  BY CopyTyped, PresentTyped DEF Inv, CopiesAreRight, CopyIsRight
<1>2. /\ deferrals[e] \in Nat /\ deferrals'[e] = deferrals[e] + 1
      /\ UNCHANGED <<runs, tasks, taken>>
  BY <1>1 DEF Defer, Inv, TypeOK
<1>3. /\ enrollment'[e].position = enrollment[e].position
      /\ enrollment'[e].touches = enrollment[e].touches
      /\ enrollment'[e].max = enrollment[e].max
  <2>1. enrollment'[e] = [enrollment[e] EXCEPT !.due = QuietExit(work[h].now)]
    BY <1>1 DEF Defer, Inv, TypeOK
  <2> HIDE DEF e
  <2> QED
    BY <1>1, <2>1 DEF Rows
<1>4. Held(e)' \subseteq Held(e)
  <2>1. \A g \in Handlers : work'[g].due \subseteq work[g].due
    BY DoneTyped DEF Inv
  <2> QED
    BY <2>1 DEF Held
<1> HIDE DEF e
<1>5. StepBudget(e)'
  <2> SUFFICES ASSUME NEW s \in 1 .. Steps
               PROVE  IsFiniteSet(Pool(e, s)') /\
                      Cardinality(Pool(e, s)') + Times(e, s)' <= 1 + deferrals'[e]
    BY DEF StepBudget
  <2>1. IsFiniteSet(Pool(e, s)) /\ Cardinality(Pool(e, s)) + Times(e, s) <= 1 + deferrals[e]
    BY <1>1, <1>2 DEF CountsOf, StepBudget, e
  <2>2. Pool(e, s)' \subseteq Pool(e, s) \cup {RowKey(e)'}
    BY <1>2, <1>4 DEF Pool, Key
  <2>3. /\ IsFiniteSet(Pool(e, s)') /\ Cardinality(Pool(e, s)') <= Cardinality(Pool(e, s)) + 1
        /\ Cardinality(Pool(e, s)') \in Nat /\ Cardinality(Pool(e, s)) \in Nat
    <3> DEFINE P == Pool(e, s)
               Q == Pool(e, s)'
               x == RowKey(e)'
    <3>1. IsFiniteSet(P) /\ Q \subseteq P \cup {x}
      BY <2>1, <2>2
    <3> HIDE DEF P, Q, x
    <3>2. IsFiniteSet(Q) /\ Cardinality(Q) <= Cardinality(P) + 1
      BY <3>1, OneMore
    <3>3. Cardinality(Q) \in Nat /\ Cardinality(P) \in Nat
      BY <3>1, <3>2, FS_CardinalityType
    <3> QED
      BY <3>2, <3>3 DEF P, Q
  <2>4. Times(e, s)' = Times(e, s) /\ Times(e, s) \in Nat
    BY <1>1, <1>2, TimesTyped DEF Times, Inv
  <2> QED
    BY <1>2, <2>1, <2>3, <2>4
<1>6. TouchBudget(e)'
  <2>1. Out(e)' \subseteq Out(e)
    BY <1>2, <1>4 DEF Out, Key
  <2>2. CountsOf(e)
    BY DEF e
  <2>3. /\ Cardinality(Out(e)') <= Cardinality(Out(e))
        /\ Cardinality(Out(e)') \in Nat /\ Cardinality(Out(e)) \in Nat
    BY <1>1, <2>1, <2>2, OutCounted, FS_Subset, FS_CardinalityType
  <2>4. enrollment[e].touches \in Nat /\ enrollment[e].max \in Nat
    BY <1>1, SequenceAssumption DEF Rows
  <2>5. enrollment[e].touches + Cardinality(Out(e)) <= enrollment[e].max + deferrals[e]
    BY <2>2 DEF CountsOf, TouchBudget
  <2>6. enrollment[e].touches + Cardinality(Out(e)') <= enrollment[e].max + (deferrals[e] + 1)
    BY <1>2, <2>3, <2>4, <2>5
  <2> QED
    BY <1>2, <1>3, <2>6 DEF TouchBudget
<1>7. TasksCounted(e)'
  BY <1>2 DEF CountsOf, TasksCounted, Times, e
<1>8. NoneSkipped(e)'
  BY <1>2, <1>3, <1>4 DEF CountsOf, NoneSkipped, Reached, e
<1> QED
  BY <1>5, <1>6, <1>7, <1>8 DEF CountsOf, e

\* A step that is taken uses up the key of its copy, and the key of the row it
\* makes is of a later step.
LEMMA ExecuteCounts ==
    ASSUME Inv, NEW h \in Handlers, NEW d \in work[h].due, Execute(h, d), Done(h, d),
           CountsOf(d.enrollment)
    PROVE  CountsOf(d.enrollment)'
<1> DEFINE e == d.enrollment
           k == Key(d)
           now1 == work[h].now
<1>0. Steps \in Nat \ {0} /\ MaxTime \in Nat
  BY SequenceAssumption
<1>1. e \in Enrollments /\ enrollment[e] \in Rows /\ d.step \in 1 .. Steps /\ d.step \in Nat
  BY CopyTyped, PresentTyped DEF Inv, CopiesAreRight, CopyIsRight
<1>2. /\ enrollment'[e].touches = enrollment[e].touches + 1
      /\ enrollment'[e].position = d.step + 1
      /\ enrollment'[e].max = enrollment[e].max
  <2>1. enrollment'[e] = OneFurther(enrollment[e], d, now1)
    BY <1>1 DEF Execute, Advanced, Inv, TypeOK
  <2>2. now1 \in Nat
    BY <1>0 DEF Inv, WorkTyped
  <2> HIDE DEF e, now1
  <2> QED
    BY <1>1, <2>1, <2>2, FurtherTyped
<1>3. k \notin runs /\ runs' = runs \cup {k} /\ d.reasons = {} /\ UNCHANGED deferrals
  BY DEF Execute
<1>4. taken[e] \in Seq(1 .. Steps) /\ taken'[e] = Append(taken[e], d.step)
  BY <1>1 DEF Execute, Inv, TypeOK
<1>5. Held(e)' \subseteq Held(e) /\ d \in Held(e)
  <2>1. \A g \in Handlers : work'[g].due \subseteq work[g].due
    BY DoneTyped DEF Inv
  <2> QED
    BY <2>1 DEF Held
<1>6. \A x \in Held(e) : Key(x)' = Key(x)
  BY DEF Key
<1>7. RowKey(e)' = <<e, d.step + 1, enrollment'[e].due>> /\ k[2] = d.step
  BY <1>2 DEF RowKey, Key
<1>8. deferrals[e] \in Nat
  BY <1>1 DEF Inv, TypeOK
<1>9. CountsOf(e)
  OBVIOUS
<1>10. k \in {Key(x) : x \in Held(e)}
  BY <1>5
<1> HIDE DEF e, k
<1>11. ASSUME NEW s
       PROVE  Times(e, s)' = IF d.step = s THEN Times(e, s) + 1 ELSE Times(e, s)
  <2>1. Times(e, s) = Cardinality(Places(taken[e], s))
    BY DEF Times, Places
  <2>2. Times(e, s)' = Cardinality(Places(Append(taken[e], d.step), s))
    BY <1>4 DEF Times, Places
  <2> QED
    BY <1>1, <1>4, <2>1, <2>2, TimesOfNext
<1>12. StepBudget(e)'
  <2> SUFFICES ASSUME NEW s \in 1 .. Steps
               PROVE  IsFiniteSet(Pool(e, s)') /\
                      Cardinality(Pool(e, s)') + Times(e, s)' <= 1 + deferrals'[e]
    BY DEF StepBudget
  <2> DEFINE P == Pool(e, s)
             Q == Pool(e, s)'
             x == RowKey(e)'
  <2>1. IsFiniteSet(P) /\ Cardinality(P) + Times(e, s) <= 1 + deferrals[e]
    BY <1>9 DEF CountsOf, StepBudget
  <2>2. Cardinality(P) \in Nat /\ Times(e, s) \in Nat /\ s \in Nat
    BY <1>1, <2>1, TimesTyped, FS_CardinalityType DEF Inv
  <2>3. Times(e, s)' = IF d.step = s THEN Times(e, s) + 1 ELSE Times(e, s)
    BY <1>11
  <2>4. Q \subseteq (P \ {k}) \cup {y \in {x} : y[2] <= s}
    BY <1>3, <1>5, <1>6 DEF Pool
  <2>5. d.step <= s => k \in P
    BY <1>3, <1>7, <1>10 DEF Pool
  <2>6. d.step >= s => {y \in {x} : y[2] <= s} = {}
    BY <1>1, <1>7, <2>2
  <2>7. {y \in {x} : y[2] <= s} \subseteq {x}
    OBVIOUS
  <2> HIDE DEF P, Q, x
  <2>8. CASE s < d.step
    <3>1. Q \subseteq P
      BY <1>1, <2>2, <2>4, <2>6, <2>8
    <3>2. IsFiniteSet(Q) /\ Cardinality(Q) <= Cardinality(P) /\ Cardinality(Q) \in Nat
      BY <2>1, <3>1, FS_Subset, FS_CardinalityType
    <3> QED
      BY <1>1, <1>3, <1>8, <2>1, <2>2, <2>3, <2>8, <3>2 DEF Q
  <2>9. CASE s = d.step
    <3>1. Q \subseteq P \ {k} /\ k \in P
      BY <1>1, <2>2, <2>4, <2>5, <2>6, <2>9
    <3>2. IsFiniteSet(Q) /\ Cardinality(Q) + 1 <= Cardinality(P)
      BY <2>1, <3>1, GivenUp
    <3>3. Cardinality(Q) \in Nat
      BY <3>2, FS_CardinalityType
    <3> QED
      BY <1>3, <1>8, <2>1, <2>2, <2>3, <2>9, <3>2, <3>3 DEF Q
  <2>10. CASE d.step < s
    <3>1. Q \subseteq (P \ {k}) \cup {x} /\ k \in P
      BY <1>1, <2>2, <2>4, <2>5, <2>7, <2>10
    <3>2. IsFiniteSet(Q) /\ Cardinality(Q) <= Cardinality(P)
      BY <2>1, <3>1, Traded
    <3>3. Cardinality(Q) \in Nat
      BY <3>2, FS_CardinalityType
    <3> QED
      BY <1>1, <1>3, <1>8, <2>1, <2>2, <2>3, <2>10, <3>2, <3>3 DEF Q
  <2> QED
    BY <1>1, <2>2, <2>8, <2>9, <2>10
<1>13. TouchBudget(e)'
  <2> DEFINE P == Out(e)
             Q == Out(e)'
  <2>1. k \in P /\ Q \subseteq P \ {k}
    BY <1>3, <1>5, <1>6 DEF Out, k
  <2>2. IsFiniteSet(P) /\ Cardinality(P) \in Nat
    BY <1>1, <1>9, OutCounted
  <2>3. enrollment[e].touches + Cardinality(P) <= enrollment[e].max + deferrals[e]
    BY <1>9 DEF CountsOf, TouchBudget
  <2> HIDE DEF P, Q
  <2>4. IsFiniteSet(Q) /\ Cardinality(Q) + 1 <= Cardinality(P)
    BY <2>1, <2>2, GivenUp
  <2>5. Cardinality(Q) \in Nat
    BY <2>4, FS_CardinalityType
  <2>6. enrollment[e].touches \in Nat /\ enrollment[e].max \in Nat
    BY <1>1, SequenceAssumption DEF Rows
  <2>7. (enrollment[e].touches + 1) + Cardinality(Q) <= enrollment[e].max + deferrals[e]
    BY <1>8, <2>2, <2>3, <2>4, <2>5, <2>6
  <2> QED
    BY <1>2, <1>3, <2>7 DEF TouchBudget, Q
<1>14. TasksCounted(e)'
  <2> SUFFICES ASSUME NEW s \in 1 .. Steps
               PROVE  tasks'[e][s] = IF s \in Drafts THEN 0 ELSE Times(e, s)'
    BY DEF TasksCounted
  <2>1. Times(e, s)' = IF d.step = s THEN Times(e, s) + 1 ELSE Times(e, s)
    BY <1>11
  <2>2. tasks[e][s] = IF s \in Drafts THEN 0 ELSE Times(e, s)
    BY <1>9 DEF CountsOf, TasksCounted
  <2>3. tasks[e] \in [1 .. Steps -> Nat] /\ tasks \in [Enrollments -> [1 .. Steps -> Nat]]
    BY <1>1 DEF Inv, TypeOK
  <2>4. tasks'[e] = [tasks[e] EXCEPT ![d.step] = IF d.step \in Drafts THEN @ ELSE @ + 1]
    BY <1>1, <2>3 DEF Execute, e
  <2>5. CASE d.step = s
    <3>1. tasks'[e][s] = IF s \in Drafts THEN tasks[e][s] ELSE tasks[e][s] + 1
      BY <2>3, <2>4, <2>5
    <3> QED
      BY <2>1, <2>2, <2>5, <3>1
  <2>6. CASE d.step # s
    BY <1>1, <2>1, <2>2, <2>3, <2>4, <2>6
  <2> QED
    BY <2>5, <2>6
<1>15. NoneSkipped(e)'
  <2> DEFINE q == taken[e]
             L == Len(q)
  <2>1. /\ DOMAIN taken'[e] = 1 .. L + 1 /\ DOMAIN q = 1 .. L /\ L \in Nat
        /\ taken'[e][L + 1] = d.step
        /\ \A n \in 1 .. L : taken'[e][n] = q[n]
    BY <1>1, <1>4
  <2>2. /\ \A n \in 1 .. L : q[n] = 1 \/ \E m \in 1 .. n - 1 : q[m] = q[n] - 1
        /\ \A y \in Held(e) : Reached(e, y.step)
    BY <1>9, <2>1 DEF CountsOf, NoneSkipped
  <2>3. d.step = 1 \/ \E m \in 1 .. L : q[m] = d.step - 1
    BY <1>5, <2>1, <2>2 DEF Reached
  <2> HIDE DEF q, L
  <2>4. \A n \in 1 .. L + 1 :
          taken'[e][n] = 1 \/ \E m \in 1 .. n - 1 : taken'[e][m] = taken'[e][n] - 1
    <3> TAKE n \in 1 .. L + 1
    <3>1. CASE n = L + 1
      <4>1. (L + 1) - 1 = L
        BY <2>1
      <4> QED
        BY <2>1, <2>3, <3>1, <4>1
    <3>2. CASE n # L + 1
      <4>1. n \in 1 .. L /\ \A m \in 1 .. n - 1 : m \in 1 .. L
        BY <2>1, <3>2
      <4> QED
        BY <2>1, <2>2, <4>1
    <3> QED
      BY <3>1, <3>2
  <2>5. Reached(e, enrollment[e].position)' /\ Reached(e, d.step + 1)'
    <3>1. L + 1 \in DOMAIN taken'[e] /\ taken'[e][L + 1] = (d.step + 1) - 1
      BY <1>1, <2>1
    <3> QED
      BY <1>2, <3>1 DEF Reached
  <2>6. \A y \in Held(e)' : Reached(e, y.step)'
    <3>1. \A n \in 1 .. L : n \in DOMAIN taken'[e]
      BY <2>1
    <3> QED
      BY <1>5, <2>1, <2>2, <3>1 DEF Reached, q
  <2> QED
    BY <2>1, <2>4, <2>5, <2>6 DEF NoneSkipped
<1> QED
  BY <1>12, <1>13, <1>14, <1>15 DEF CountsOf, e

LEMMA StutterCounts ==
    ASSUME Inv, Inv', NEW e \in Enrollments, CountsOf(e), UNCHANGED vars
    PROVE  CountsOf(e)'
  BY Unmoved DEF Inv, vars, Held

LEMMA ListCounts ==
    ASSUME Inv, Inv', NEW e \in Enrollments, CountsOf(e), NEW h \in Handlers, List(h)
    PROVE  CountsOf(e)'
<1>1. PICK es \in SUBSET Due : \E others \in SUBSET es :
        work' = [work EXCEPT ![h] = [listed |-> TRUE, now |-> now,
                   due |-> {Copy(f, f \in others) : f \in es}]]
  BY DEF List
<1>2. PICK others \in SUBSET es :
        work' = [work EXCEPT ![h] = [listed |-> TRUE, now |-> now,
                   due |-> {Copy(f, f \in others) : f \in es}]]
  BY <1>1
<1>3. \A g \in Handlers : work'[g].due =
        IF g = h THEN {Copy(f, f \in others) : f \in es} ELSE work[g].due
  BY <1>2 DEF Inv, WorkTyped
<1>4. \A d \in Held(e)' : d \in Held(e) \/
             /\ d.step = enrollment[e].position /\ d.due = enrollment[e].due
             /\ d.reasons = {} => enrollment[e].touches < enrollment[e].max
  <2> TAKE d \in Held(e)'
  <2>1. PICK g \in Handlers : d \in work'[g].due /\ d.enrollment = e
    BY DEF Held
  <2>2. CASE g # h
    BY <1>3, <2>1, <2>2 DEF Held
  <2>3. CASE g = h
    <3>1. PICK f \in es : d = Copy(f, f \in others)
      BY <1>3, <2>1, <2>3
    <3>2. d.enrollment = f /\ d.due = enrollment[f].due /\ d.step = enrollment[f].position
          /\ d.reasons = Reasons(f, f \in others)
      BY <3>1 DEF Copy
    <3>3. enrollment[e].touches \in Nat /\ enrollment[e].max \in Nat
      BY RowTyped DEF Inv
    <3> QED
      BY <2>1, <3>2, <3>3 DEF Reasons
  <2> QED
    BY <2>2, <2>3
<1> QED
  BY <1>4, Unmoved DEF Inv, List, history

\* The actions that touch no row, and a merge, which moves rows only to another
\* contact.
LEMMA OtherCounts ==
    ASSUME Inv, Inv', NEW e \in Enrollments, CountsOf(e),
           \/ \E c \in Contacts : Mark(c)
           \/ \E h \in Handlers : Return(h)
           \/ \E c, d \in Contacts : Merge(c, d)
           \/ Tick
    PROVE  CountsOf(e)'
<1>1. CASE \E c \in Contacts : Mark(c)
  BY <1>1, Unmoved DEF Inv, Mark, history, Held
<1>2. CASE \E h \in Handlers : Return(h)
  <2>1. \A g \in Handlers : work'[g].due \subseteq work[g].due
    BY <1>2 DEF Return, Idle, Inv, WorkTyped
  <2>2. Held(e)' \subseteq Held(e)
    BY <2>1 DEF Held
  <2> QED
    BY <1>2, <2>2, Unmoved DEF Inv, Return, history
<1>3. CASE \E c, d \in Contacts : Merge(c, d)
  <2>1. /\ enrollment'[e].touches = enrollment[e].touches
        /\ enrollment'[e].position = enrollment[e].position
        /\ enrollment'[e].due = enrollment[e].due
        /\ enrollment'[e].max = enrollment[e].max
    BY <1>3, MergedRow
  <2>2. UNCHANGED <<runs, tasks, taken, deferrals, work>>
    BY <1>3 DEF Merge, history
  <2>3. Held(e)' = Held(e)
    BY <2>2 DEF Held
  <2> QED
    BY <2>1, <2>2, <2>3, Unmoved DEF Inv
<1>4. CASE Tick
  BY <1>4, Unmoved DEF Inv, Tick, history, Held
<1> QED
  BY <1>1, <1>2, <1>3, <1>4

LEMMA BeginCounts ==
    ASSUME Inv, Inv', NEW e \in Enrollments, CountsOf(e),
           NEW f \in Enrollments, NEW c \in Contacts, NEW due, NEW max \in 1 .. MaxTouches,
           Enroll(f, c, due, max)
    PROVE  CountsOf(e)'
<1>1. CASE e = f
  <2>1. enrollment'[e] = [status |-> "active", contact |-> c, position |-> 1, due |-> due,
                          touches |-> 0, max |-> max]
    BY <1>1 DEF Enroll, Inv, TypeOK
  <2> QED
    BY <1>1, <2>1, EnrollCounts, SequenceAssumption DEF Enroll, history
<1>2. CASE e # f
  BY <1>2, Unmoved DEF Inv, Enroll, TypeOK, history, Held
<1> QED
  BY <1>1, <1>2

LEMMA PerformCounts ==
    ASSUME Inv, Inv', NEW e \in Enrollments, CountsOf(e), NEW h \in Handlers, Perform(h)
    PROVE  CountsOf(e)'
<1>1. PICK d \in work[h].due :
        (Defer(h, d) \/ Blocked(d) \/ Execute(h, d) \/ Duplicate(d)) /\ Done(h, d)
  BY DEF Perform
<1>2. Held(e)' \subseteq Held(e)
  <2>1. \A g \in Handlers : work'[g].due \subseteq work[g].due
    BY <1>1, DoneTyped DEF Inv
  <2> QED
    BY <2>1 DEF Held
<1>3. d.enrollment \in Enrollments
  BY CopyTyped DEF Inv
<1>4. CASE d.enrollment = e /\ Defer(h, d)
  BY <1>1, <1>4, DeferCounts
<1>5. CASE d.enrollment = e /\ Execute(h, d)
  BY <1>1, <1>5, ExecuteCounts
<1>6. CASE d.enrollment # e
  <2>1. enrollment'[e] = enrollment[e]
    BY <1>1, <1>3, <1>6 DEF Defer, Blocked, Execute, Duplicate, Advanced, Inv, TypeOK
  <2>2. taken'[e] = taken[e] /\ tasks'[e] = tasks[e] /\ deferrals'[e] = deferrals[e]
    BY <1>1, <1>3, <1>6 DEF Defer, Blocked, Execute, Duplicate, history, Inv, TypeOK
  <2>3. runs \subseteq runs'
    BY <1>1 DEF Defer, Blocked, Execute, Duplicate
  <2> QED
    BY <1>2, <2>1, <2>2, <2>3, Unmoved DEF Inv
<1>7. CASE Blocked(d)
  <2>1. /\ enrollment'[e].position = enrollment[e].position
        /\ enrollment'[e].due = enrollment[e].due
        /\ enrollment'[e].touches = enrollment[e].touches
        /\ enrollment'[e].max = enrollment[e].max
    BY <1>3, <1>7 DEF Blocked, Inv, TypeOK, NoEnrollment
  <2>2. UNCHANGED <<tasks, taken, deferrals>> /\ runs \subseteq runs'
    BY <1>7 DEF Blocked, history
  <2> QED
    BY <1>2, <2>1, <2>2, Unmoved DEF Inv
<1>8. CASE Duplicate(d)
  BY <1>2, <1>8, Unmoved DEF Inv, Duplicate, history
<1> QED
  BY <1>1, <1>4, <1>5, <1>6, <1>7, <1>8

Counted == \A e \in Enrollments : CountsOf(e)

LEMMA InitCounts == ASSUME Init PROVE Counted
<1> SUFFICES ASSUME NEW e \in Enrollments
             PROVE  CountsOf(e)
  BY DEF Counted
<1>1. /\ Held(e) = {} /\ taken[e] = <<>> /\ deferrals[e] = 0
      /\ enrollment[e] = NoEnrollment /\ tasks[e] = [s \in 1 .. Steps |-> 0]
  BY DEF Init, Held, Idle
<1>2. \A s : Times(e, s) = 0
  <2>1. \A s : {n \in DOMAIN taken[e] : taken[e][n] = s} = {}
    BY <1>1
  <2> QED
    BY <2>1, FS_EmptySet DEF Times
<1>3. StepBudget(e)
  <2> SUFFICES ASSUME NEW s \in 1 .. Steps
               PROVE  IsFiniteSet(Pool(e, s)) /\ Cardinality(Pool(e, s)) <= 1
    <3>1. deferrals[e] = 0 /\ \A s \in 1 .. Steps : Times(e, s) = 0
      BY <1>1, <1>2
    <3>2. \A s \in 1 .. Steps : IsFiniteSet(Pool(e, s)) => Cardinality(Pool(e, s)) \in Nat
      BY FS_CardinalityType
    <3> QED
      BY <3>1, <3>2 DEF StepBudget
  <2>1. Pool(e, s) \subseteq {RowKey(e)}
    BY <1>1 DEF Pool
  <2>2. IsFiniteSet({RowKey(e)}) /\ Cardinality({RowKey(e)}) = 1
    BY FS_Singleton
  <2> QED
    BY <2>1, <2>2, FS_Subset
<1>4. TouchBudget(e)
  <2>1. Out(e) = {}
    BY <1>1 DEF Out
  <2>2. Cardinality(Out(e)) = 0
    BY <2>1, FS_EmptySet
  <2> QED
    BY <1>1, <2>2 DEF TouchBudget, NoEnrollment
<1>5. TasksCounted(e)
  BY <1>1, <1>2 DEF TasksCounted
<1>6. NoneSkipped(e)
  BY <1>1 DEF NoneSkipped, Reached, NoEnrollment
<1> QED
  BY <1>3, <1>4, <1>5, <1>6 DEF CountsOf

LEMMA NextCounts == ASSUME Inv, Inv', Counted, [Next]_vars PROVE Counted'
<1> SUFFICES ASSUME NEW e \in Enrollments
             PROVE  CountsOf(e)'
  BY DEF Counted
<1>1. CountsOf(e)
  BY DEF Counted
<1>2. CASE UNCHANGED vars
  BY <1>1, <1>2, StutterCounts
<1>3. CASE \E f \in Enrollments, c \in Contacts, due \in {now, now + Delay}, max \in 1 .. MaxTouches :
             Enroll(f, c, due, max)
  BY <1>1, <1>3, BeginCounts
<1>4. CASE (\E c \in Contacts : Mark(c)) \/ (\E c, d \in Contacts : Merge(c, d)) \/ Tick
  BY <1>1, <1>4, OtherCounts
<1>5. ASSUME NEW h \in Handlers, List(h) \/ Perform(h) \/ Return(h)
      PROVE  CountsOf(e)'
  BY <1>1, <1>5, ListCounts, PerformCounts, OtherCounts
<1> QED
  BY <1>2, <1>3, <1>4, <1>5 DEF Next

-----------------------------------------------------------------------------
(* The theorems.                                                           *)

\* In every behaviour the invariant holds.
LEMMA Invariance == Spec => []Inv
<1>1. Init => Inv
  BY InitInv
<1>2. Inv /\ [Next]_vars => Inv'
  BY NextInv
<1> QED
  BY <1>1, <1>2, PTL DEF Spec

\* The tables keep their types, whatever runs, people and merges do.
THEOREM TypeCorrect == Spec => []TypeOK
<1>1. Inv => TypeOK
  BY DEF Inv
<1> QED
  BY <1>1, Invariance, PTL

\* Overlapping runs of the due steps, in any number and however they die, skip no
\* step, make a task of each step taken unless it is a draft, and count what they
\* do; each time that quiet hours put an enrollment off costs one repetition of a
\* step and one touch at most, and without any the steps go once and in order.
THEOREM StepsOnce == Spec => []EachStepOnce
<1>1. Spec => []Counted
  <2>1. Init => Counted
    BY InitCounts
  <2>2. Inv /\ Inv' /\ Counted /\ [Next]_vars => Counted'
    BY NextCounts
  <2> QED
    BY <2>1, <2>2, Invariance, PTL DEF Spec
<1>2. Inv /\ Counted => EachStepOnce
  <2> SUFFICES ASSUME Inv, Counted, NEW e \in Enrollments
               PROVE  /\ enrollment[e].touches = Len(taken[e])
                      /\ \A s \in 1 .. Steps :
                           /\ tasks[e][s] = IF s \in Drafts THEN 0 ELSE Times(e, s)
                           /\ Times(e, s) <= 1 + deferrals[e]
                      /\ \A n \in DOMAIN taken[e] :
                           taken[e][n] = 1 \/ \E m \in 1 .. n - 1 : taken[e][m] = taken[e][n] - 1
                      /\ Len(taken[e]) <= enrollment[e].max + deferrals[e]
                      /\ deferrals[e] = 0 =>
                           taken[e] = [n \in 1 .. enrollment[e].position - 1 |-> n]
    BY DEF EachStepOnce
  <2>1. CountsOf(e) /\ deferrals[e] \in Nat
    BY DEF Counted, Inv, TypeOK
  <2>2. ASSUME NEW s \in 1 .. Steps
        PROVE  Times(e, s) <= 1 + deferrals[e]
    <3>1. Cardinality(Pool(e, s)) + Times(e, s) <= 1 + deferrals[e]
      BY <2>1 DEF CountsOf, StepBudget
    <3>2. Cardinality(Pool(e, s)) \in Nat /\ Times(e, s) \in Nat
      BY <2>1, TimesTyped, FS_CardinalityType DEF CountsOf, StepBudget, Inv
    <3> QED
      BY <2>1, <3>1, <3>2
  <2>3. enrollment[e].touches <= enrollment[e].max + deferrals[e]
    <3>1. enrollment[e].touches + Cardinality(Out(e)) <= enrollment[e].max + deferrals[e]
      BY <2>1 DEF CountsOf, TouchBudget
    <3>2. /\ Cardinality(Out(e)) \in Nat
          /\ enrollment[e].touches \in Nat /\ enrollment[e].max \in Nat
      BY <2>1, OutCounted, RowTyped DEF Inv
    <3> QED
      BY <2>1, <3>1, <3>2
  <2>4. /\ enrollment[e].touches = Len(taken[e])
        /\ deferrals[e] = 0 => taken[e] = [n \in 1 .. enrollment[e].position - 1 |-> n]
    BY DEF Inv, InOrder
  <2> QED
    BY <2>1, <2>2, <2>3, <2>4 DEF CountsOf, TasksCounted, NoneSkipped
<1> QED
  BY <1>1, <1>2, Invariance, PTL

\* Enrollments and merges leave a contact in the sequence once at most.
THEOREM ActiveOnce == Spec => []OneActiveEach
<1>1. Inv => OneActiveEach
  <2> SUFFICES ASSUME Inv, NEW c \in Contacts
               PROVE  Cardinality(ActiveOf(c)) <= 1
    BY DEF OneActiveEach
  <2>1. CASE ActiveOf(c) = {}
    BY <2>1, FS_EmptySet
  <2>2. CASE ActiveOf(c) # {}
    <3>1. PICK e \in Enrollments : ActiveOf(c) = {e}
      BY <2>2 DEF Inv, NoTwins, ActiveOf
    <3> QED
      BY <3>1, FS_Singleton
  <2> QED
    BY <2>1, <2>2
<1> QED
  BY <1>1, Invariance, PTL

\* No run, however old its copy, goes on with an enrollment that was stopped,
\* unless quiet hours moved it.
THEOREM StoppedForGood == Spec => StoppedStaysStopped
<1> DEFINE Kept(e) == /\ enrollment'[e].status = "stopped"
                      /\ tasks'[e] = tasks[e] /\ taken'[e] = taken[e]
<1>1. ASSUME Inv, Next, NEW e \in Enrollments, deferrals'[e] = 0,
             enrollment[e].status = "stopped"
      PROVE  Kept(e)
  <2>1. ASSUME NEW h \in Handlers, Perform(h)
        PROVE  Kept(e)
    <3>1. PICK d \in work[h].due :
            Defer(h, d) \/ Blocked(d) \/ Execute(h, d) \/ Duplicate(d)
      BY <2>1 DEF Perform
    <3>2. d.enrollment \in Enrollments
      BY <1>1, CopyTyped DEF Inv
    <3>3. CASE d.enrollment # e
      BY <1>1, <3>1, <3>3 DEF Defer, Blocked, Execute, Duplicate, Advanced, history, Inv, TypeOK
    <3>4. CASE d.enrollment = e
      <4>1. ~ Defer(h, d) /\ deferrals[e] = 0
        <5>1. deferrals[e] \in Nat
          BY <1>1 DEF Inv, TypeOK
        <5>2. ~ Defer(h, d)
          BY <1>1, <3>4, <5>1 DEF Defer, Inv, TypeOK
        <5> QED
          BY <1>1, <3>1, <5>2 DEF Blocked, Execute, Duplicate, history
      <4>2. Key(d) \in runs
        BY <1>1, <3>4, <4>1, NewKey
      <4>3. ~ Execute(h, d) /\ ~ StopsFor(d)
        BY <4>2 DEF Execute, StopsFor
      <4>4. enrollment[e] \in Rows
        BY <1>1, PresentTyped DEF Inv
      <4>5. CASE Blocked(d)
        <5>1. enrollment' = [enrollment EXCEPT ![e].status = @] /\ UNCHANGED <<tasks, taken>>
          BY <3>4, <4>3, <4>5 DEF Blocked, history
        <5> QED
          BY <1>1, <4>4, <5>1 DEF Rows, Inv, TypeOK
      <4>6. CASE Duplicate(d)
        BY <1>1, <4>6 DEF Duplicate, history
      <4> QED
        BY <3>1, <4>1, <4>3, <4>5, <4>6
    <3> QED
      BY <3>3, <3>4
  <2>2. ASSUME NEW f \in Enrollments, NEW c \in Contacts, NEW due, NEW max, Enroll(f, c, due, max)
        PROVE  Kept(e)
    BY <1>1, <2>2 DEF Enroll, history, Inv, TypeOK
  <2>3. ASSUME NEW c \in Contacts, NEW d \in Contacts, Merge(c, d)
        PROVE  Kept(e)
    <3>1. enrollment[e] \in Rows
      BY <1>1, PresentTyped DEF Inv
    <3>2. MergedStatus(e, c, d) = "stopped"
      BY <1>1 DEF MergedStatus, ActiveOf
    <3>3. Moved(enrollment[e], c, d) \in Rows
      BY <3>1 DEF Moved, Rows
    <3>4. enrollment'[e] = [Moved(enrollment[e], c, d) EXCEPT !.status = "stopped"]
      BY <2>3, <3>2 DEF Merge
    <3> QED
      BY <2>3, <3>3, <3>4 DEF Merge, history, Rows
  <2>4. ASSUME NEW h \in Handlers, List(h) \/ Return(h)
        PROVE  Kept(e)
    BY <1>1, <2>4 DEF List, Return, history
  <2>5. ASSUME (\E c \in Contacts : Mark(c)) \/ Tick
        PROVE  Kept(e)
    BY <1>1, <2>5 DEF Mark, Tick, history
  <2> QED
    BY <1>1, <2>1, <2>2, <2>3, <2>4, <2>5 DEF Next
<1>2. Inv /\ [Next]_vars =>
        [\A e \in Enrollments : deferrals'[e] = 0 /\ enrollment[e].status = "stopped" =>
           /\ enrollment'[e].status = "stopped"
           /\ tasks'[e] = tasks[e] /\ taken'[e] = taken[e]]_vars
  BY <1>1
<1> QED
  BY <1>2, Invariance, PTL DEF Spec, StoppedStaysStopped
=============================================================================
