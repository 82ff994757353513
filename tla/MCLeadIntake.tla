---------------------------- MODULE MCLeadIntake ----------------------------
(* Instances of LeadIntake for TLC.                                        *)
EXTENDS LeadIntake, TLC

CONSTANTS h1, h2, f1, f2, a1, a2, v1, v2, v3, m1, m2, e1, e2, p1, visit

\* Two forms of one phone, two ads of it (one that may fill the known contact),
\* two messages of it, and three events of one visit, the last of which asks for
\* no follow-up.
ByEmail(e) == [email |-> e, phone |-> None]
ByPhone(p) == [email |-> None, phone |-> p]
Submitted ==
    (f1 :> [email |-> e1, phone |-> p1]) @@ (f2 :> [email |-> e2, phone |-> p1])
    @@ (a1 :> [email |-> e1, phone |-> p1]) @@ (a2 :> [email |-> e2, phone |-> p1])
    @@ (m1 :> ByPhone(p1)) @@ (m2 :> ByPhone(p1))
    @@ (v1 :> ByPhone(p1)) @@ (v2 :> ByEmail(e2))
    @@ (v3 :> [email |-> e1, phone |-> p1])
OneVisit == [v \in {v1, v2, v3} |-> visit]

\* One contact is known by email.
OneKnown == <<[email |-> e1, phone |-> None, emailBy |-> "known", phoneBy |-> "known"]>>

Interchangeable == Permutations({h1, h2})
=============================================================================
