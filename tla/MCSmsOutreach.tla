--------------------------- MODULE MCSmsOutreach ---------------------------
(* Instances of SmsOutreach for TLC.                                       *)
EXTENDS SmsOutreach, TLC

CONSTANTS h1, h2, p1, p2, a, b, n1, n2, m1, m2, m3, r1

\* Two contacts share a phone; the other phone is unknown.
SharedPhone == (a :> p1) @@ (b :> p1)

\* The unknown phone says START and STOP; somebody on the shared one writes
\* more than is stored unseen.
Senders == (m1 :> p2) @@ (m2 :> p2) @@ (m3 :> p1)
Messages == (m1 :> "start") @@ (m2 :> "stop") @@ (m3 :> "long")

Interchangeable == Permutations({h1, h2}) \cup Permutations({n1, n2}) \cup Permutations({a, b})

=============================================================================
