-------------------------- MODULE MCTaskApprovals --------------------------
(* Instances of TaskApprovals for TLC.                                     *)
EXTENDS TaskApprovals, TLC

CONSTANTS h1, h2, c1, r1

TwoHandlers == Permutations({h1, h2})

\* The follow-up of a new lead, and a reviewer's task that recurs.
LeadAndRecurring ==
    <<[kind |-> "inbound", owner |-> c1, fine |-> TRUE], [kind |-> "recurring", owner |-> r1, fine |-> FALSE]>>

=============================================================================
