----------------------- MODULE PaymentReconciliation -----------------------
(***************************************************************************)
(* Payment requests of AIT CRM and the money recorded against them.        *)
(*                                                                         *)
(* A payment request asks a payer for an amount and carries the plan of    *)
(* the charges the money will settle.  Staff hand it to one of three       *)
(* surfaces: a hosted checkout page, a card terminal, or a payment         *)
(* recorded by hand.  The two card surfaces run outside the database:      *)
(* a handler commits its claim, calls the provider, and settles the answer *)
(* in a second transaction, so handlers of several server processes        *)
(* interleave between those points, crash at any of them, and act on an    *)
(* answer that is already old.  Provider callbacks arrive late, twice, out *)
(* of order or never.                                                      *)
(*                                                                         *)
(* Every database transaction of the code holds the row locks of what it   *)
(* reads until it commits, so it is one action here; what a handler read   *)
(* before the transaction is kept in its record in "work".                 *)
(***************************************************************************)
EXTENDS Integers, FiniteSets, Functions

CONSTANTS
    Requests,       \* payment requests (idempotency key = merchant reference)
    Charges,        \* student charges
    Tuition,        \* the charges of type tuition_four_week
    FallsDue,       \* the charges whose due date may pass during a run
    ProviderIds,    \* transaction ids the card provider hands out
    CollectKeys,    \* client keys of "record a payment on a charge"
    RequestKeys,    \* client keys of "record a payment on a request"
    Workers,        \* handlers that may be in flight at once
    Surfaces,       \* card surfaces in use: "hosted", "terminal"
    NoRequest, NoTxn

CONSTANTS
    Price,          \* [Charges -> amount of the charge]
    Plan,           \* [Requests -> [Charges -> amount planned for the charge]]
    Credit,         \* [Requests -> amount left as unapplied account credit]
    Source,         \* [Requests -> "staff", "portal" or "registration"]
    WithBook,       \* the registration requests whose quote holds a book
    ProviderId,     \* [Requests -> id the provider gives a capture for it]
    Misreported,    \* requests the provider may capture otherwise than asked
    Collect,        \* [CollectKeys -> [charge, amount] of the client's body]
    PayRequest,     \* [RequestKeys -> request of the client's body]
    NonPayment      \* which of the three final non-payment answers occur

FinalNonPayment == {"failed", "canceled", "expired"}

Txns == ProviderIds \cup CollectKeys \cup RequestKeys

ASSUME ConstantsAssumption ==
    /\ Tuition \subseteq Charges /\ FallsDue \subseteq Charges
    /\ Surfaces \subseteq {"hosted", "terminal"}
    /\ Price \in [Charges -> Nat \ {0}]
    /\ Plan \in [Requests -> [Charges -> Nat]]
    /\ Credit \in [Requests -> Nat]
    /\ Source \in [Requests -> {"staff", "portal", "registration"}]
    /\ WithBook \subseteq {r \in Requests : Source[r] = "registration"}
    /\ ProviderId \in [Requests -> ProviderIds]
    /\ Misreported \subseteq Requests
    /\ Collect \in [CollectKeys -> [charge : Charges, amount : Nat \ {0}]]
    /\ PayRequest \in [RequestKeys -> Requests]
    /\ NonPayment \subseteq FinalNonPayment
    /\ NoRequest \notin Requests
    /\ NoTxn \notin Txns

ASSUME KeysAreDistinct ==
    /\ ProviderIds \cap (CollectKeys \cup RequestKeys) = {}
    /\ CollectKeys \cap RequestKeys = {}

\* The ledger has finitely many rows: sums are taken over them.
ASSUME FiniteBooks == IsFiniteSet(Txns) /\ IsFiniteSet(Charges)

VARIABLES
    chargeStatus,   \* student_charges.status; "absent" before the row exists
    pastDue,        \* charges whose due date has passed
    request,        \* payment_requests.status; "absent" before the row exists
    latest,         \* [Charges -> newest request whose charge_id is the charge]
    hosted,         \* metadata_json.hostedPaymentAttempt.state
    terminal,       \* metadata_json.terminalPaymentAttempt.state
    book            \* book_fulfillments row of the request: status, transaction

VARIABLES
    recorded,       \* verified provider_transactions rows
    owner,          \* provider_transactions.payment_request_id
    alloc,          \* payment_allocations.amount by transaction and charge
    receipts,       \* number of Receipt documents issued for a transaction
    settled,        \* provider events in status processed
    unsettled,      \* provider events in status received or failed
    attention,      \* provider events with an operator-attention activity
    bookAttention   \* transactions with a fulfillment-attention activity

VARIABLES
    provider,       \* the provider's truth about the request's reference
    sales, pages,   \* Sale calls sent, checkout pages opened, per request
    notices         \* callback bodies the provider has sent at least once

VARIABLE work       \* what each handler in flight has claimed and read

ledger == <<recorded, owner, alloc, receipts>>
events == <<settled, unsettled, attention, bookAttention>>
outside == <<provider, sales, pages, notices>>
rows == <<chargeStatus, pastDue, request, latest, hosted, terminal, book>>
vars == <<rows, ledger, events, outside, work>>

OpenCharge == {"due", "partially_paid", "overdue"}
ChargeStatuses == OpenCharge \cup {"absent", "paid"}
RequestStatuses ==
    {"absent", "created", "pending", "completed"} \cup FinalNonPayment

\* What a status query or a Sale answer tells the code.  "pending" stands for
\* pending and unknown, "mismatch" for a success that fails verification and
\* "unavailable" for every answer that is not ok.
Replies == {"pending", "succeeded", "mismatch", "unavailable"} \cup FinalNonPayment
SaleResults == {"none", "approved", "failed", "canceled", "open", "uncertain", "rejected"}
Bodies == {"success", "failure"}

\* The outcome reconcileDejavooPayment returns.
Outcomes == {"duplicate", "verification_unavailable", "pending",
             "review_required", "completed"} \cup FinalNonPayment

HostedStates == {"none", "started", "created", "uncertain"}
TerminalStates == {"none", "started"} \cup Outcomes
BookStatuses == {"none", "payment_pending", "pending"}
ProviderStates ==
    {"none", "open", "pending", "captured", "misreported"} \cup FinalNonPayment
\* What the provider may make of an approved card: what was asked for, or money
\* with another amount or reference.
Captures(r) == {"captured"} \cup IF r \in Misreported THEN {"misreported"} ELSE {}

\* The idempotency key of a provider event: the hash of the callback body, or
\* of the terminal action with the answers it got.
EventKeys == [req : Requests, op : {"callback", "initiate", "recover"},
              sale : SaleResults, answer : Replies \cup Bodies]

Ops == {"none", "staff", "hosted", "initiate", "recover", "callback", "recheck"}
Stages == {"idle", "insert", "page", "finish", "sale", "query", "reconcile",
           "persist"}
Work == [op : Ops, req : Requests \cup {NoRequest}, stage : Stages,
         sale : SaleResults, reply : Replies \cup {"none"},
         body : Bodies \cup {"none"}, outcome : Outcomes \cup {"none"},
         fits : BOOLEAN]

Idle == [op |-> "none", req |-> NoRequest, stage |-> "idle", sale |-> "none",
         reply |-> "none", body |-> "none", outcome |-> "none", fits |-> FALSE]

-----------------------------------------------------------------------------
(* The ledger the transactions read.                                       *)

Amount(r) == SumFunction(Plan[r]) + Credit[r]

Planned(r) == {c \in Charges : Plan[r][c] > 0}

\* payment_requests.charge_id: set when the plan is one charge and no credit.
LinkedTo(r, c) == Credit[r] = 0 /\ Planned(r) = {c}

Allocated(c) == SumFunction([t \in Txns |-> alloc[t][c]])

\* summarizeChargeLedger after amount more is applied to charge c.  isPastDue
\* compares the first ten characters of the due date with an ISO day; the
\* driver hands a date column over as a Date object, whose text begins with a
\* weekday, and a letter sorts after a digit: no charge counts as past due.
StatusAfter(c, amount) ==
    IF Allocated(c) + amount = Price[c] THEN "paid" ELSE "partially_paid"

\* Mutant of Allocatable: no look at the balance.
AllocatableWhileOpen(c, amount) == chargeStatus[c] \in OpenCharge /\ amount > 0

\* assertPaymentAllocation: the charge is open and the amount fits its balance.
Allocatable(c, amount) ==
    /\ chargeStatus[c] \in OpenCharge
    /\ Allocated(c) + amount <= Price[c]

\* Mutant of Missing: a charge that cannot take its part is passed over.
MissingThatFits(t, r) ==
    {c \in Planned(r) : alloc[t][c] = 0 /\ Allocatable(c, Plan[r][c])}

\* The plan of r is applied once per transaction: an allocation whose key
\* exists already is returned as it is.
Missing(t, r) == {c \in Planned(r) : alloc[t][c] = 0}
PlanFits(t, r) == \A c \in Missing(t, r) : Allocatable(c, Plan[r][c])
ApplyPlan(t, r) ==
    /\ alloc' = [alloc EXCEPT ![t] =
                   [c \in Charges |-> IF c \in Missing(t, r)
                                      THEN Plan[r][c] ELSE alloc[t][c]]]
    /\ chargeStatus' =
         [c \in Charges |-> IF c \in Missing(t, r)
                            THEN StatusAfter(c, Plan[r][c]) ELSE chargeStatus[c]]

RecordTxn(t, r) ==
    /\ recorded' = recorded \cup {t}
    /\ owner' = IF t \in recorded THEN owner ELSE [owner EXCEPT ![t] = r]

\* Mutant of EnsureReceipt: one receipt per verification.
ReceiptEachTime(t) == receipts' = [receipts EXCEPT ![t] = @ + 1]

\* ensureReceipt: the receipt the transaction already has, or a new one.
EnsureReceipt(t) ==
    receipts' = [receipts EXCEPT ![t] = IF @ = 0 THEN @ + 1 ELSE @]

\* activateBookFulfillmentForVerifiedPayment refuses a book that another
\* transaction released.
BookConflict(r, t) == book[r].status # "none" /\ book[r].txn \notin {NoTxn, t}

\* Mutant of ReleasedBook: the book goes to the worklist unpaid.
BookWithoutTxn(r, t) ==
    IF book[r].status = "none" THEN book
    ELSE [book EXCEPT ![r].status = "pending"]

\* Otherwise the request's book, if it has one, goes to the worklist.
ReleasedBook(r, t) ==
    IF book[r].status = "none" THEN book
    ELSE [book EXCEPT ![r] = [status |-> "pending", txn |-> t]]

\* activateFulfillmentWithoutBlockingPayment: the release runs behind a
\* savepoint, and whatever error ends it (the conflict, a row that is not
\* there, the database) leaves the book as it was and an activity for staff,
\* one per transaction.
ReleaseBook(r, t) ==
    \/ /\ ~ BookConflict(r, t)
       /\ book' = ReleasedBook(r, t)
       /\ UNCHANGED bookAttention
    \/ /\ r \in WithBook
       /\ bookAttention' = bookAttention \cup {t}
       /\ UNCHANGED book

\* Mutants of MarkFrom: no guard on the old status; completed only from open.
MarkFromAnything(status) == IF status = "" THEN {} ELSE RequestStatuses \ {"absent"}
MarkFromOpen(status) == {"created", "pending", status}

\* markRequestStatus: which statuses may become the given one.
MarkFrom(status) ==
    CASE status = "completed" -> RequestStatuses \ {"absent"}
      [] status = "pending" -> {"created", "pending"}
      [] OTHER -> {"created", "pending", status}
Mark(r, status) ==
    request' = IF request[r] \in MarkFrom(status)
               THEN [request EXCEPT ![r] = status] ELSE request

\* Mutant of Bound: the callback only knows pages whose answer was kept.
BoundIfKept(r) == hosted[r] = "created" \/ terminal[r] # "none"

\* The provider and environment columns are set with the first attempt.
Bound(r) == hosted[r] # "none" \/ terminal[r] # "none"

\* Mutant of Unattempted: only the other terminal attempts count.
NoTerminalYet(r) == terminal[r] = "none"

\* No card surface has been tried for the request.
Unattempted(r) == hosted[r] = "none" /\ terminal[r] = "none"

Init ==
    /\ chargeStatus = [c \in Charges |->
         IF \E r \in Requests : Source[r] = "registration" /\ c \in Planned(r)
         THEN "absent" ELSE "due"]
    /\ pastDue = {}
    /\ request = [r \in Requests |-> "absent"]
    /\ latest = [c \in Charges |-> NoRequest]
    /\ hosted = [r \in Requests |-> "none"]
    /\ terminal = [r \in Requests |-> "none"]
    /\ book = [r \in Requests |-> [status |-> "none", txn |-> NoTxn]]
    /\ recorded = {}
    /\ owner = [t \in Txns |-> NoRequest]
    /\ alloc = [t \in Txns |-> [c \in Charges |-> 0]]
    /\ receipts = [t \in Txns |-> 0]
    /\ settled = {} /\ unsettled = {} /\ attention = {} /\ bookAttention = {}
    /\ provider = [r \in Requests |-> "none"]
    /\ sales = [r \in Requests |-> 0]
    /\ pages = [r \in Requests |-> 0]
    /\ notices = {}
    /\ work = [w \in Workers |-> Idle]
-----------------------------------------------------------------------------
(* Creating requests.                                                      *)

NewRequest(r) ==
    /\ request' = [request EXCEPT ![r] = "created"]
    /\ latest' = [c \in Charges |-> IF LinkedTo(r, c) THEN r ELSE latest[c]]

\* createStaffPaymentRequest locks the charge in the statement that also sums
\* its allocations: the sum is of the statement's snapshot, the charge row is
\* the one found when the lock is granted.  "fits" is what the sum will say.
StaffSnapshot(w, r) ==
    /\ work[w] = Idle
    /\ Source[r] = "staff" /\ request[r] = "absent"
    /\ work' = [work EXCEPT ![w] = [Idle EXCEPT
         !.op = "staff", !.req = r, !.stage = "insert",
         !.fits = \A c \in Planned(r) : Plan[r][c] <= Price[c] - Allocated(c)]]
    /\ UNCHANGED <<rows, ledger, events, outside>>

StaffInsert(w) ==
    LET r == work[w].req IN
    /\ work[w].stage = "insert"
    /\ IF /\ request[r] = "absent"
          /\ \A c \in Planned(r) : chargeStatus[c] \in OpenCharge
          /\ work[w].fits
       THEN NewRequest(r) ELSE UNCHANGED <<request, latest>>
    /\ work' = [work EXCEPT ![w] = Idle]
    /\ UNCHANGED <<chargeStatus, pastDue, hosted, terminal, book, ledger,
                   events, outside>>

\* createPortalPaymentRequest sums the allocations after it holds the charge.
PortalRequest(r) ==
    /\ Source[r] = "portal" /\ request[r] = "absent"
    /\ \A c \in Planned(r) : Plan[r][c] <= Price[c] - Allocated(c)
    /\ NewRequest(r)
    /\ UNCHANGED <<chargeStatus, pastDue, hosted, terminal, book, ledger,
                   events, outside, work>>

\* persistRegistrationBundle creates the charges, the request and the book.
Register(r) ==
    /\ Source[r] = "registration" /\ request[r] = "absent"
    /\ NewRequest(r)
    /\ chargeStatus' = [c \in Charges |->
         IF c \in Planned(r) /\ chargeStatus[c] = "absent" THEN "due"
         ELSE chargeStatus[c]]
    /\ book' = IF r \in WithBook
               THEN [book EXCEPT ![r].status = "payment_pending"] ELSE book
    /\ UNCHANGED <<pastDue, hosted, terminal, ledger, events, outside, work>>

\* Time: the due date of a charge passes.
DueDatePasses(c) ==
    /\ c \in FallsDue \ pastDue
    /\ pastDue' = pastDue \cup {c}
    /\ UNCHANGED <<chargeStatus, request, latest, hosted, terminal, book,
                   ledger, events, outside, work>>

-----------------------------------------------------------------------------
(* Payments recorded by hand.                                              *)

\* A replay of the key finds its allocation and returns it without the charge.
Fresh(k) == alloc[k][Collect[k].charge] = 0

\* Mutants of PaysOff: any new payment does; a replay counts once more.
AnyPaymentPaysOff(k) == Fresh(k) /\ latest[Collect[k].charge] # NoRequest
ReplayPaysOff(k) ==
    LET c == Collect[k].charge IN
    latest[c] # NoRequest /\ StatusAfter(c, Collect[k].amount) = "paid"

\* The payment brings the charge to "paid" and a request is linked to it.
PaysOff(k) ==
    LET c == Collect[k].charge IN
    Fresh(k) /\ latest[c] # NoRequest /\ StatusAfter(c, Collect[k].amount) = "paid"

\* recordManualCollectionPayment: money on a charge; when it pays the charge
\* off, the newest request of the charge is completed with it.
CollectManually(k) ==
    LET c == Collect[k].charge
        amount == Collect[k].amount
        r == latest[c]
    IN
    /\ chargeStatus[c] # "absent"
    /\ Fresh(k) => Allocatable(c, amount)
    /\ PaysOff(k) => ~ BookConflict(r, k)
    /\ RecordTxn(k, r)
    /\ alloc' = [alloc EXCEPT ![k][c] = IF Fresh(k) THEN amount ELSE @]
    /\ chargeStatus' = [chargeStatus EXCEPT ![c] =
                          IF Fresh(k) THEN StatusAfter(c, amount) ELSE @]
    /\ EnsureReceipt(k)
    /\ IF PaysOff(k)
       THEN /\ request' = [request EXCEPT ![r] = "completed"]
            /\ book' = ReleasedBook(r, k)
       ELSE UNCHANGED <<request, book>>
    /\ UNCHANGED <<pastDue, latest, hosted, terminal, events, outside, work>>

\* recordManualPaymentRequest: the whole plan of one request.  A completed
\* request only accepts the replay of the key that completed it.
PayRequestManually(k) ==
    LET r == PayRequest[k] IN
    /\ \/ request[r] = "created"
       \/ request[r] = "completed" /\ k \in recorded /\ owner[k] = r
    /\ Unattempted(r)
    /\ PlanFits(k, r)
    /\ Source[r] = "registration" => ~ BookConflict(r, k)
    /\ RecordTxn(k, r)
    /\ ApplyPlan(k, r)
    /\ EnsureReceipt(k)
    /\ request' = IF request[r] = "created"
                  THEN [request EXCEPT ![r] = "completed"] ELSE request
    /\ book' = IF Source[r] = "registration" THEN ReleasedBook(r, k) ELSE book
    /\ UNCHANGED <<pastDue, latest, hosted, terminal, events, outside, work>>

-----------------------------------------------------------------------------
(* Hosted checkout: claim, open the page, keep the result.                 *)

\* Mutant of HostedPayable: the charge is open, whatever was paid on it.
HostedWhileOpen(r) ==
    \A c \in Tuition : LinkedTo(r, c) =>
        chargeStatus[c] \in OpenCharge /\ Price[c] = Amount(r)

\* A linked tuition charge is paid online in full or not at all.
HostedPayable(r) ==
    \A c \in Tuition : LinkedTo(r, c) =>
        chargeStatus[c] \in {"due", "overdue"} /\ Price[c] = Amount(r)

\* createHostedCollectionLink, first transaction.
BeginHosted(w, r) ==
    /\ work[w] = Idle /\ "hosted" \in Surfaces
    /\ request[r] \notin {"absent", "completed"}
    /\ HostedPayable(r)
    /\ Unattempted(r)
    /\ hosted' = [hosted EXCEPT ![r] = "started"]
    /\ request' = [request EXCEPT ![r] = "pending"]
    /\ work' = [work EXCEPT ![w] = [Idle EXCEPT !.op = "hosted", !.req = r,
                                                !.stage = "page"]]
    /\ UNCHANGED <<chargeStatus, pastDue, latest, terminal, book, ledger,
                   events, outside>>

\* The provider call: the page opens and the answer may still be lost, or the
\* call fails.  Every answer but a page URL leaves the attempt uncertain.
OpenPage(w) ==
    LET r == work[w].req IN
    /\ work[w].stage = "page"
    /\ \E opened \in BOOLEAN, answered \in BOOLEAN :
         /\ pages' = IF opened THEN [pages EXCEPT ![r] = @ + 1] ELSE pages
         /\ provider' = IF opened THEN [provider EXCEPT ![r] = "open"]
                        ELSE provider
         /\ work' = [work EXCEPT ![w] = [@ EXCEPT !.stage = "finish",
              !.sale = IF opened /\ answered THEN "approved" ELSE "uncertain"]]
    /\ UNCHANGED <<rows, ledger, events, sales, notices>>

\* Second transaction: the outcome of the attempt.
FinishHosted(w) ==
    LET r == work[w].req IN
    /\ work[w].stage = "finish"
    /\ hosted' = [hosted EXCEPT ![r] =
                    IF work[w].sale = "approved" THEN "created" ELSE "uncertain"]
    /\ work' = [work EXCEPT ![w] = Idle]
    /\ UNCHANGED <<chargeStatus, pastDue, request, latest, terminal, book,
                   ledger, events, outside>>

-----------------------------------------------------------------------------
(* Terminal checkout: claim, Sale, status, reconcile, keep the outcome.    *)

\* loadAndMarkAttempt with action "initiate".
BeginSale(w, r) ==
    /\ work[w] = Idle /\ "terminal" \in Surfaces
    /\ request[r] \notin {"absent", "completed"}
    /\ Unattempted(r)
    /\ terminal' = [terminal EXCEPT ![r] = "started"]
    /\ request' = [request EXCEPT ![r] = "pending"]
    /\ work' = [work EXCEPT ![w] = [Idle EXCEPT !.op = "initiate", !.req = r,
                                                !.stage = "sale"]]
    /\ UNCHANGED <<chargeStatus, pastDue, latest, hosted, book, ledger, events,
                   outside>>

\* loadAndMarkAttempt with action "recover": nothing is written.
BeginRecover(w, r) ==
    /\ work[w] = Idle
    /\ request[r] \notin {"absent", "completed"}
    /\ terminal[r] # "none"
    /\ work' = [work EXCEPT ![w] = [Idle EXCEPT !.op = "recover", !.req = r,
                                                !.stage = "query"]]
    /\ UNCHANGED <<rows, ledger, events, outside>>

\* createTerminalSale.  A declined or canceled Sale is its own verification, a
\* Sale the provider refused is passed on as it is, and every other answer is
\* verified by a status query.
CallSale(w) ==
    LET r == work[w].req IN
    /\ work[w].stage = "sale"
    /\ \E truth \in {"none", "pending"} \cup Captures(r) \cup (NonPayment \ {"expired"}),
          sale \in SaleResults \ {"none"} :
         /\ sale = "rejected" => truth = "none"
         /\ sale = "approved" => truth \in Captures(r)
         /\ sale \in NonPayment => truth = sale
         /\ sale \in FinalNonPayment => sale \in NonPayment
         /\ provider' = [provider EXCEPT ![r] = truth]
         /\ sales' = [sales EXCEPT ![r] = @ + 1]
         /\ work' = [work EXCEPT ![w] = [@ EXCEPT !.sale = sale,
              !.stage = IF sale \in {"failed", "canceled", "rejected"}
                        THEN "reconcile" ELSE "query",
              !.reply = CASE sale = "rejected" -> "unavailable"
                          [] sale \in {"failed", "canceled"} -> sale
                          [] OTHER -> "none"]]
    /\ UNCHANGED <<rows, ledger, events, pages, notices>>

\* Mutant of PersistOutcome: keeps the provider's answer.
PersistReply(w) ==
    /\ work[w].stage = "persist"
    /\ terminal' = [terminal EXCEPT ![work[w].req] = work[w].reply]
    /\ work' = [work EXCEPT ![w] = Idle]
    /\ UNCHANGED <<chargeStatus, pastDue, request, latest, hosted, book, ledger,
                   events, outside>>

\* persistAttemptOutcome: one statement, no guard on what is there.
PersistOutcome(w) ==
    /\ work[w].stage = "persist"
    /\ terminal' = [terminal EXCEPT ![work[w].req] = work[w].outcome]
    /\ work' = [work EXCEPT ![w] = Idle]
    /\ UNCHANGED <<chargeStatus, pastDue, request, latest, hosted, book, ledger,
                   events, outside>>

-----------------------------------------------------------------------------
(* Callbacks, rechecks and the status query they share with the terminal.  *)

\* The callback route finds the request by its reference once the request is
\* bound to the provider; any body ever sent may arrive at any time.
BeginCallback(w, notice) ==
    /\ work[w] = Idle
    /\ Bound(notice.req)
    /\ work' = [work EXCEPT ![w] = [Idle EXCEPT !.op = "callback",
         !.req = notice.req, !.body = notice.body, !.stage = "query"]]
    /\ UNCHANGED <<rows, ledger, events, outside>>

CallbackKey(r, body) ==
    [req |-> r, op |-> "callback", sale |-> "none", answer |-> body]

\* recoverHppPayment: an administrator rechecks a pending request for which a
\* success callback was stored.
BeginRecheck(w, r) ==
    /\ work[w] = Idle
    /\ Bound(r) /\ request[r] = "pending"
    /\ CallbackKey(r, "success") \in settled \cup unsettled
    /\ work' = [work EXCEPT ![w] = [Idle EXCEPT !.op = "recheck",
         !.req = r, !.body = "success", !.stage = "query"]]
    /\ UNCHANGED <<rows, ledger, events, outside>>

\* What the provider may answer about a reference.
Answers(r) ==
    {"unavailable", "pending"} \cup
    CASE provider[r] = "captured" -> {"succeeded"}
      [] provider[r] = "misreported" -> {"mismatch"}
      [] provider[r] \in FinalNonPayment -> {provider[r]}
      [] OTHER -> {}

\* The read-only status query; a recheck that meets a final non-payment is
\* reported to the administrator and changes nothing.
QueryStatus(w) ==
    /\ work[w].stage = "query"
    /\ \E reply \in Answers(work[w].req) :
         work' = [work EXCEPT ![w] =
           IF work[w].op = "recheck" /\ reply \in FinalNonPayment THEN Idle
           ELSE [@ EXCEPT !.reply = reply, !.stage = "reconcile"]]
    /\ UNCHANGED <<rows, ledger, events, outside>>

-----------------------------------------------------------------------------
(* reconcileDejavooPayment: one transaction under the lock of the request. *)

Key(w) ==
    IF work[w].op \in {"callback", "recheck"}
    THEN CallbackKey(work[w].req, work[w].body)
    ELSE [req |-> work[w].req, op |-> work[w].op, sale |-> work[w].sale,
          answer |-> work[w].reply]

\* The terminal handler goes on to keep the outcome, the others answer.
Conclude(w, outcome) ==
    work' = [work EXCEPT ![w] =
      IF work[w].op \in {"initiate", "recover"}
      THEN [@ EXCEPT !.stage = "persist", !.outcome = outcome] ELSE Idle]

Settle(w) ==
    /\ settled' = settled \cup {Key(w)}
    /\ unsettled' = unsettled \ {Key(w)}
Leave(w) ==
    /\ unsettled' = unsettled \cup {Key(w)}
    /\ UNCHANGED settled

Reconciling(w) == work[w].stage = "reconcile"

NewEvent(w) == Reconciling(w) /\ Key(w) \notin settled

\* The event was processed before: commit and report a duplicate.
ReconcileDuplicate(w) ==
    /\ Reconciling(w) /\ Key(w) \in settled
    /\ Conclude(w, "duplicate")
    /\ UNCHANGED <<rows, ledger, events, outside>>

\* No answer, or none that is final: the event stays open for a replay.
ReconcileOpen(w) ==
    /\ NewEvent(w) /\ work[w].reply \in {"unavailable", "pending"}
    /\ Mark(work[w].req, "pending")
    /\ Leave(w)
    /\ Conclude(w, IF work[w].reply = "pending" THEN "pending"
                   ELSE "verification_unavailable")
    /\ UNCHANGED <<chargeStatus, pastDue, latest, hosted, terminal, book,
                   ledger, attention, bookAttention, outside>>

\* A final non-payment; a completed request is left alone.
ReconcileNonPayment(w) ==
    /\ NewEvent(w) /\ work[w].reply \in FinalNonPayment
    /\ Mark(work[w].req, work[w].reply)
    /\ Settle(w)
    /\ Conclude(w, work[w].reply)
    /\ UNCHANGED <<chargeStatus, pastDue, latest, hosted, terminal, book,
                   ledger, attention, bookAttention, outside>>

\* A success that does not verify: no money, one attention activity.
ReconcileMismatch(w) ==
    /\ NewEvent(w) /\ work[w].reply = "mismatch"
    /\ Leave(w)
    /\ attention' = attention \cup {Key(w)}
    /\ Conclude(w, "review_required")
    /\ UNCHANGED <<rows, ledger, bookAttention, outside>>

\* transactionInvariant and the allocations of the plan.
TxnConflict(t, r) == t \in recorded /\ owner[t] # r
Recordable(t, r) == ~ TxnConflict(t, r) /\ PlanFits(t, r)

\* A verified success: transaction, allocations, receipt, request and event in
\* one commit, whatever becomes of the book.
ReconcileSuccess(w) ==
    LET r == work[w].req
        t == ProviderId[r]
    IN
    /\ NewEvent(w) /\ work[w].reply = "succeeded"
    /\ Recordable(t, r)
    /\ RecordTxn(t, r)
    /\ ApplyPlan(t, r)
    /\ EnsureReceipt(t)
    /\ Mark(r, "completed")
    /\ ReleaseBook(r, t)
    /\ Settle(w)
    /\ Conclude(w, "completed")
    /\ UNCHANGED <<pastDue, latest, hosted, terminal, attention, outside>>

\* A verified success the ledger refuses: the exception rolls everything back,
\* the provider event included, and the handler ends with an error.
ReconcileRefused(w) ==
    LET r == work[w].req IN
    /\ NewEvent(w) /\ work[w].reply = "succeeded"
    /\ ~ Recordable(ProviderId[r], r)
    /\ work' = [work EXCEPT ![w] = Idle]
    /\ UNCHANGED <<rows, ledger, events, outside>>

-----------------------------------------------------------------------------
(* The world: payers, the provider, and processes that die.                *)

\* The payer at the hosted page: pay, fail, cancel, or let the page expire.  A
\* page that is still open can be tried again, and each result is posted.
PayerActs(r) ==
    /\ pages[r] > 0 /\ provider[r] \notin {"captured", "misreported", "expired"}
    /\ \E truth \in {"pending"} \cup Captures(r) \cup NonPayment :
         /\ provider' = [provider EXCEPT ![r] = truth]
         /\ notices' = notices \cup
              CASE truth \in Captures(r) -> {[req |-> r, body |-> "success"]}
                [] truth \in FinalNonPayment -> {[req |-> r, body |-> "failure"]}
                [] OTHER -> {}
    /\ UNCHANGED <<rows, ledger, events, sales, pages, work>>

\* A terminal transaction whose Sale answer was open resolves later.
TerminalResolves(r) ==
    /\ sales[r] > 0 /\ provider[r] = "pending"
    /\ \E truth \in Captures(r) \cup (NonPayment \ {"expired"}) :
         provider' = [provider EXCEPT ![r] = truth]
    /\ UNCHANGED <<rows, ledger, events, sales, pages, notices, work>>

\* The process of a handler dies, or its connection does, between two steps.
Crash(w) ==
    /\ work[w] # Idle
    /\ work' = [work EXCEPT ![w] = Idle]
    /\ UNCHANGED <<rows, ledger, events, outside>>

-----------------------------------------------------------------------------

Reconcile(w) ==
    \/ ReconcileDuplicate(w) \/ ReconcileOpen(w) \/ ReconcileNonPayment(w)
    \/ ReconcileMismatch(w) \/ ReconcileSuccess(w) \/ ReconcileRefused(w)

\* A step of a handler that has already begun.
Proceed(w) ==
    \/ StaffInsert(w) \/ OpenPage(w) \/ FinishHosted(w) \/ CallSale(w)
    \/ QueryStatus(w) \/ Reconcile(w) \/ PersistOutcome(w)

Begin(w) ==
    \/ \E r \in Requests : \/ StaffSnapshot(w, r) \/ BeginHosted(w, r)
                            \/ BeginSale(w, r) \/ BeginRecover(w, r)
                            \/ BeginRecheck(w, r)
    \/ \E notice \in notices : BeginCallback(w, notice)

Next ==
    \/ \E w \in Workers : Begin(w) \/ Proceed(w) \/ Crash(w)
    \/ \E r \in Requests : PortalRequest(r) \/ Register(r)
    \/ \E k \in CollectKeys : CollectManually(k)
    \/ \E k \in RequestKeys : PayRequestManually(k)
    \/ \E c \in Charges : DueDatePasses(c)
    \/ \E r \in Requests : PayerActs(r) \/ TerminalResolves(r)

Spec == Init /\ [][Next]_vars

-----------------------------------------------------------------------------
(* Properties.                                                             *)

RowsOK ==
    /\ chargeStatus \in [Charges -> ChargeStatuses]
    /\ pastDue \subseteq FallsDue
    /\ request \in [Requests -> RequestStatuses]
    /\ latest \in [Charges -> Requests \cup {NoRequest}]
    /\ hosted \in [Requests -> HostedStates]
    /\ terminal \in [Requests -> TerminalStates]
    /\ book \in [Requests -> [status : BookStatuses, txn : Txns \cup {NoTxn}]]

LedgerOK ==
    /\ recorded \subseteq Txns
    /\ owner \in [Txns -> Requests \cup {NoRequest}]
    /\ alloc \in [Txns -> [Charges -> Nat]]
    /\ receipts \in [Txns -> Nat]

EventsOK ==
    settled \subseteq EventKeys /\ unsettled \subseteq EventKeys
        /\ attention \subseteq EventKeys /\ bookAttention \subseteq Txns

OutsideOK ==
    /\ provider \in [Requests -> ProviderStates]
    /\ sales \in [Requests -> Nat]
    /\ pages \in [Requests -> Nat]
    /\ notices \subseteq [req : Requests, body : Bodies]

WorkOK == work \in [Workers -> Work]

TypeOK == RowsOK /\ LedgerOK /\ EventsOK /\ OutsideOK /\ WorkOK

\* A payer is asked for the money of a request through the provider at most
\* once, however many handlers run, crash and retry: one checkout page or one
\* Sale, never both.
OneProviderAttempt == \A r \in Requests : sales[r] + pages[r] <= 1

\* Whatever order payments arrive in, a charge never absorbs more than it is,
\* and its stored status agrees with the allocations it summarises.
ChargesAddUp ==
    \A c \in Charges :
        /\ Allocated(c) <= Price[c]
        /\ chargeStatus[c] = "paid" <=> Allocated(c) = Price[c]
        /\ chargeStatus[c] = "partially_paid" => Allocated(c) > 0
        /\ chargeStatus[c] \in {"absent", "due"} => Allocated(c) = 0

\* A card payment is recorded whole or not at all: the provider did capture it,
\* its plan is applied, it has one receipt and its request is completed.
CaptureIsWhole ==
    \A t \in recorded \cap ProviderIds :
        LET r == owner[t] IN
        /\ r \in Requests /\ ProviderId[r] = t
        /\ provider[r] = "captured"
        /\ alloc[t] = Plan[r]
        /\ receipts[t] = 1
        /\ request[r] = "completed"

\* A completed request was paid: a transaction of its own covers its plan, or
\* money recorded on its charge paid the charge off.
CompletedIsPaid ==
    \A r \in Requests : request[r] = "completed" =>
        \E t \in recorded :
            /\ owner[t] = r /\ receipts[t] = 1
            /\ \/ alloc[t] = Plan[r]
               \/ \A c \in Planned(r) : chargeStatus[c] = "paid"

\* No family gets its book unpaid, and none pays for a book that nobody knows
\* of: a book is on the worklist only with a recorded transaction of its own
\* completed request, and when a request is completed and its book is not there,
\* because the release failed, an activity names the transaction that paid.
BookFollowsMoney ==
    \A r \in WithBook :
        /\ book[r].status = "pending" =>
             /\ request[r] = "completed"
             /\ book[r].txn \in recorded /\ owner[book[r].txn] = r
        /\ request[r] = "completed" =>
             \/ book[r].status = "pending"
             \/ \E t \in bookAttention \cap recorded : owner[t] = r

\* A final status is left only by a payment that turns out to be real, and a
\* completed request stays completed whatever stale answer arrives after it.
NeverRegresses ==
    [][\A r \in Requests :
         /\ request[r] = "completed" => request'[r] = "completed"
         /\ request[r] \in FinalNonPayment =>
              request'[r] \in {request[r], "completed"}]_vars

\* What is on the books stays as it was written: a replay neither moves a
\* transaction to another request, nor changes or repeats its allocations or
\* its receipt.
BooksAreFinal ==
    [][\A t \in recorded : /\ t \in recorded'
                           /\ owner'[t] = owner[t]
                           /\ alloc'[t] = alloc[t]
                           /\ receipts'[t] = receipts[t]]_vars

\* A provider event is processed once: a key that was settled is never opened
\* again by the answer of a handler that began earlier.
SettledOnce == [][settled \subseteq settled' /\ settled' \cap unsettled' = {}]_vars

\* A hosted page is opened for a tuition charge only while nothing is paid on
\* it, so the amount the payer is shown is the amount that is owed.
HostedAsksTheBalance ==
    [][\A r \in Requests, c \in Tuition :
         (LinkedTo(r, c) /\ hosted[r] = "none" /\ hosted'[r] = "started") =>
            Allocated(c) = 0 /\ Amount(r) = Price[c]]_vars

-----------------------------------------------------------------------------
(* Liveness.  Processes may die at any step, but not at every step; staff   *)
(* check the terminal and administrators recheck the page again and again;  *)
(* the provider repeats a callback until it was accepted, which is once its *)
(* event is stored, and answers some of the status queries.                 *)

Accepted(r) == CallbackKey(r, "success") \in settled \cup unsettled
Redeliver(w, r) ==
    ~ Accepted(r) /\ [req |-> r, body |-> "success"] \in notices
        /\ BeginCallback(w, [req |-> r, body |-> "success"])
Verified(w) == QueryStatus(w) /\ work'[w].reply = "succeeded"

Fairness ==
    /\ \A w \in Workers : /\ WF_vars(Proceed(w)) /\ SF_vars(ReconcileSuccess(w))
                           /\ SF_vars(Verified(w))
    /\ \A r \in Requests :
         /\ SF_vars(\E w \in Workers : Redeliver(w, r))
         /\ SF_vars(\E w \in Workers : BeginRecheck(w, r))
         /\ SF_vars(\E w \in Workers : BeginRecover(w, r))

FairSpec == Spec /\ Fairness

\* Money the provider captured gets onto the books, whatever crashed, was lost
\* or answered late, unless an earlier final non-payment answer closed the
\* request first.
CapturedIsResolved ==
    \A r \in Requests : provider[r] = "captured" ~>
        request[r] \in {"completed"} \cup FinalNonPayment

-----------------------------------------------------------------------------
(* What a client of the payment code may rely on: PaymentPromise.          *)

\* Two requests may be captured under one id; only one of them is recorded.
Worth == [t \in Txns |->
    CASE t \in CollectKeys -> {Collect[t].amount}
      [] t \in RequestKeys -> {Amount(PayRequest[t])}
      [] OTHER -> {Amount(r) : r \in {q \in Requests : ProviderId[q] = t}}]

Promise == INSTANCE PaymentPromise WITH
    paid <- {r \in Requests : request[r] = "completed"},
    booked <- recorded,
    applied <- [c \in Charges |-> Allocated(c)]

\* However requests, handlers and manual payments interleave, the books only
\* ever move as the promise says.
KeepsPromise == Promise!Spec
=============================================================================
