--------------------------- MODULE PaymentClaims ---------------------------
(***************************************************************************)
(* What the documentation, the messages and the tests of the repository    *)
(* say about payments and the code does not do.  Each formula states one   *)
(* sentence; TLC shows a behaviour of the code that breaks it.             *)
(***************************************************************************)
EXTENDS PaymentReconciliation

\* docs/payments/dejavoo-reconciliation.md: pending and outage outcomes remain
\* replayable.  The replay an administrator has is refused once the request
\* failed, so a retry that was captured after a failure stays off the books.
CapturedIsRecorded ==
    \A r \in Requests : provider[r] = "captured" ~> request[r] = "completed"
=============================================================================
