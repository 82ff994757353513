--------------------------- MODULE PaymentPromise ---------------------------
(***************************************************************************)
(* What the payment code promises, without requests in flight, providers   *)
(* or handlers: money reaches the books one transaction at a time, a       *)
(* transaction pays charges once and for no more than it is worth, a       *)
(* charge takes no more than its price, and a request is paid only in the  *)
(* step that books the transaction paying it.  Nothing is ever taken back. *)
(***************************************************************************)
EXTENDS Integers, Functions

CONSTANTS Requests, Charges, Txns,
          Price,    \* [Charges -> amount of the charge]
          Worth     \* [Txns -> amounts a transaction of that id may be worth]

VARIABLES
    paid,           \* requests that are paid
    booked,         \* transactions on the books
    applied         \* [Charges -> money applied to the charge]

promised == <<paid, booked, applied>>

Init == paid = {} /\ booked = {} /\ applied = [c \in Charges |-> 0]

Settle(t) ==
    /\ t \notin booked
    /\ booked' = booked \cup {t}
    /\ paid' \in {paid} \cup {paid \cup {r} : r \in Requests}
    /\ applied' \in [Charges -> Nat]
    /\ \A c \in Charges : applied[c] <= applied'[c] /\ applied'[c] <= Price[c]
    /\ \E worth \in Worth[t] :
         SumFunction([c \in Charges |-> applied'[c] - applied[c]]) <= worth

Next == \E t \in Txns : Settle(t)

Spec == Init /\ [][Next]_promised
=============================================================================
