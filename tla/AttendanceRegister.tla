------------------------- MODULE AttendanceRegister -------------------------
(***************************************************************************)
(* What the attendance service promises its readers about one session of a *)
(* class: a register whose revision names its content.  Every change moves *)
(* the revision on by one, so a reader who holds the current revision and  *)
(* what it read at that revision holds the register.  A submitted register *)
(* stands still until it is reopened: submission and reopening change       *)
(* nothing but the status.                                                 *)
(***************************************************************************)
EXTENDS Naturals

CONSTANTS Students, Marks, Notes, Nil

VARIABLES revision, status, note, marks

register == <<revision, status, note, marks>>

Blank == [s \in Students |-> Nil]

Init ==
    /\ revision = 0
    /\ status = "open"
    /\ note = Nil
    /\ marks = Blank

\* Marks or the note change while the register is open; the first change also
\* creates the row.
Edit ==
    /\ status = "open"
    /\ revision' = revision + 1
    /\ note' \in Notes \cup {Nil}
    /\ marks' \in [Students -> Marks \cup {Nil}]
    /\ note' = note \/ marks' = marks
    /\ UNCHANGED status

\* Submission closes the register as it stands.
Submit ==
    /\ status = "open" /\ revision > 0
    /\ marks # Blank
    /\ status' = "submitted"
    /\ revision' = revision + 1
    /\ UNCHANGED <<note, marks>>

Reopen ==
    /\ status = "submitted"
    /\ status' = "open"
    /\ revision' = revision + 1
    /\ UNCHANGED <<note, marks>>

Next == Edit \/ Submit \/ Reopen

Spec == Init /\ [][Next]_register
=============================================================================
