---------------------- MODULE MCPaymentReconciliation ----------------------
(* Instances of PaymentReconciliation for TLC.                             *)
EXTENDS PaymentClaims, TLC

CONSTANTS r1, r2, r3, c1, c2, p1, p2, k1, k2, m1, w1, w2

TwoHandlers == Permutations({w1, w2})

\* One registration that pays a four-week tuition charge and a second charge of
\* two units each, leaves one more as credit and sells a book; it may be paid
\* by hand.
TwoEach == (c1 :> 2) @@ (c2 :> 2)
FullPlan == r1 :> TwoEach
OneCredit == r1 :> 1
RegistrationSource == r1 :> "registration"
OneId == r1 :> p1
KeyForFirst == m1 :> r1
NoCredit == [r \in Requests |-> 0]
NoKeys == [k \in {} |-> 0]
\* A registration for both charges, of the family for all of the first and of
\* staff for half of the second, of which no page is opened; money can also be
\* recorded by hand, in halves on the first charge or for the third request.
FullRivals == (r1 :> TwoEach) @@ (r2 :> [TwoEach EXCEPT ![c2] = 0])
                  @@ (r3 :> ((c1 :> 0) @@ (c2 :> 1)))
RivalSources == (r1 :> "registration") @@ (r2 :> "portal") @@ (r3 :> "staff")
TwoIds == (r1 :> p1) @@ (r2 :> p2) @@ (r3 :> p2)
HalvesOnCharge == [k \in {k1, k2} |-> [charge |-> c1, amount |-> 1]]
KeyForThird == m1 :> r3
============================================================================
