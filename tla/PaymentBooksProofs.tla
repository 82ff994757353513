------------------------- MODULE PaymentBooksProofs -------------------------
(***************************************************************************)
(* A capture is booked whole, what is booked stays as it was written, a    *)
(* provider event is processed once, a completed request was paid, and a   *)
(* registration's book is released by its payment and by nothing else, or  *)
(* staff are told that it was not, for any instance.                       *)
(***************************************************************************)
EXTENDS PaymentReconciliationProofs

USE DEF FinalNonPayment, RequestStatuses, Replies, SaleResults, Outcomes,
        HostedStates, TerminalStates, ProviderStates, Captures, Ops, Stages

-----------------------------------------------------------------------------
(* Events.                                                                 *)

EventsApart == settled \cap unsettled = {}

EventStep == /\ settled \subseteq settled'
             /\ settled' \cap unsettled' = {}

LEMMA EventsStep == EventsApart /\ [Next]_vars => EventStep
  <1> SUFFICES ASSUME EventsApart, [Next]_vars PROVE EventStep
    OBVIOUS
  <1>0. ASSUME UNCHANGED <<settled, unsettled>> PROVE EventStep
    BY <1>0 DEF EventsApart, EventStep
  <1>1. ASSUME NEW w, NewEvent(w), Settle(w) \/ Leave(w) PROVE EventStep
    BY <1>1 DEF EventsApart, EventStep, NewEvent, Settle, Leave
  <1>2. ASSUME NEW w \in Workers, Begin(w) PROVE UNCHANGED <<settled, unsettled>>
    BY <1>2 DEF Begin, StaffSnapshot, BeginHosted, BeginSale, BeginRecover,
                BeginRecheck, BeginCallback, events
  <1>3. ASSUME NEW w \in Workers, Reconcile(w)
        PROVE  \/ UNCHANGED <<settled, unsettled>>
               \/ NewEvent(w) /\ (Settle(w) \/ Leave(w))
    BY <1>3 DEF Reconcile, ReconcileDuplicate, ReconcileOpen, ReconcileNonPayment,
                ReconcileMismatch, ReconcileSuccess, ReconcileRefused, events
  <1>4. ASSUME NEW w \in Workers, Proceed(w) \/ Crash(w), ~ Reconcile(w)
        PROVE  UNCHANGED <<settled, unsettled>>
    BY <1>4 DEF Proceed, StaffInsert, OpenPage, FinishHosted, CallSale,
                QueryStatus, PersistOutcome, Crash, events
  <1>5. ASSUME NEW q, \/ PortalRequest(q) \/ Register(q) \/ CollectManually(q)
                      \/ PayRequestManually(q) \/ DueDatePasses(q)
                      \/ PayerActs(q) \/ TerminalResolves(q)
        PROVE  UNCHANGED <<settled, unsettled>>
    BY <1>5 DEF PortalRequest, Register, CollectManually, PayRequestManually,
                DueDatePasses, PayerActs, TerminalResolves, events
  <1>6. CASE UNCHANGED vars
    BY <1>6, <1>0 DEF vars, events
  <1> QED
    BY <1>0, <1>1, <1>2, <1>3, <1>4, <1>5, <1>6 DEF Next

\* Whichever handler answers last, a provider event that was processed is not
\* opened again: reconcileDejavooPayment reads its status under the lock.
THEOREM EventsSettleOnce == Spec => SettledOnce
  <1>1. Init => EventsApart
    BY DEF Init, EventsApart
  <1>2. EventsApart /\ [Next]_vars => EventsApart' /\ EventStep
    BY EventsStep DEF EventStep, EventsApart
  <1> QED
    BY <1>1, <1>2, PTL DEF Spec, SettledOnce, EventStep

-----------------------------------------------------------------------------
(* The provider.                                                           *)

\* Money is captured only from a payer who was asked for it.
CapturedAsked ==
    \A r \in Requests : provider[r] = "captured" => sales[r] > 0 \/ pages[r] > 0

\* A handler that holds a verified success holds the truth.
AnswersTrue ==
    \A w \in Workers :
        Reconciling(w) /\ work[w].reply = "succeeded" =>
            provider[work[w].req] = "captured"

\* What a step does to the provider's record of a request.
LEMMA ProviderStep ==
  ASSUME ProtocolInv, CapturedAsked, [Next]_vars, NEW r \in Requests
  PROVE  /\ provider[r] = "captured" => provider'[r] = "captured"
         /\ provider'[r] = "captured" => sales'[r] > 0 \/ pages'[r] > 0
  <1> DEFINE Goal ==
               /\ provider[r] = "captured" => provider'[r] = "captured"
               /\ provider'[r] = "captured" => sales'[r] > 0 \/ pages'[r] > 0
  <1> SUFFICES Goal
    OBVIOUS
  <1> USE DEF ProtocolInv, TypeInv, TypeOK, OutsideOK, outside
  <1>0. ASSUME UNCHANGED <<provider, sales, pages>> PROVE Goal
    BY <1>0 DEF CapturedAsked
  <1>1. ASSUME NEW w \in Workers, OpenPage(w) PROVE Goal
    <2>1. PICK q \in Requests : q = work[w].req /\ sales[q] = 0 /\ pages[q] = 0
      BY <1>1, ShapedWork
         DEF OpenPage, Shaped, AttemptInv, ClaimsHold, Claiming
    <2>2. /\ UNCHANGED sales
          /\ \/ UNCHANGED <<provider, pages>>
             \/ /\ provider' = [provider EXCEPT ![q] = "open"]
                /\ pages' = [pages EXCEPT ![q] = @ + 1]
      BY <1>1, <2>1 DEF OpenPage
    <2>3. CASE r # q
      BY <2>2, <2>3 DEF CapturedAsked
    <2>4. CASE r = q
      BY <2>1, <2>2, <2>4 DEF CapturedAsked
    <2> QED
      BY <2>3, <2>4
  <1>2. ASSUME NEW w \in Workers, CallSale(w) PROVE Goal
    <2>1. PICK q \in Requests : q = work[w].req /\ sales[q] = 0 /\ pages[q] = 0
      BY <1>2, ShapedWork
         DEF CallSale, Shaped, AttemptInv, ClaimsHold, Claiming
    <2>2. PICK truth : provider' = [provider EXCEPT ![q] = truth]
      BY <1>2, <2>1 DEF CallSale
    <2>3. UNCHANGED pages /\ sales' = [sales EXCEPT ![q] = @ + 1]
      BY <1>2, <2>1 DEF CallSale
    <2>4. CASE r # q
      BY <2>2, <2>3, <2>4 DEF CapturedAsked
    <2>5. CASE r = q
      BY <2>1, <2>3, <2>5 DEF CapturedAsked
    <2> QED
      BY <2>4, <2>5
  <1>3. ASSUME NEW q \in Requests, PayerActs(q) PROVE Goal
    <2>1. /\ UNCHANGED <<sales, pages>> /\ pages[q] > 0 /\ provider[q] # "captured"
          /\ \E truth : provider' = [provider EXCEPT ![q] = truth]
      BY <1>3 DEF PayerActs
    <2> QED
      BY <2>1 DEF CapturedAsked
  <1>4. ASSUME NEW q \in Requests, TerminalResolves(q) PROVE Goal
    <2>1. /\ UNCHANGED <<sales, pages>> /\ sales[q] > 0 /\ provider[q] # "captured"
          /\ \E truth : provider' = [provider EXCEPT ![q] = truth]
      BY <1>4 DEF TerminalResolves
    <2> QED
      BY <2>1 DEF CapturedAsked
  <1>5. ASSUME UNCHANGED outside PROVE Goal
    BY <1>5, <1>0
  <1>6. ASSUME NEW w \in Workers, Begin(w) PROVE Goal
    BY <1>5, <1>6 DEF Begin, StaffSnapshot, BeginHosted, BeginSale, BeginRecover,
                      BeginRecheck, BeginCallback
  <1>7. ASSUME NEW w \in Workers, Proceed(w), ~ OpenPage(w), ~ CallSale(w)
        PROVE  Goal
    <2>1. CASE Reconcile(w)
      BY <2>1, <1>5
         DEF Reconcile, ReconcileDuplicate, ReconcileOpen, ReconcileNonPayment,
             ReconcileMismatch, ReconcileSuccess, ReconcileRefused
    <2> QED
      BY <1>5, <1>7, <2>1
         DEF Proceed, StaffInsert, FinishHosted, QueryStatus, PersistOutcome
  <1>8. ASSUME NEW q, \/ PortalRequest(q) \/ Register(q) \/ CollectManually(q)
                      \/ PayRequestManually(q) \/ DueDatePasses(q)
        PROVE  Goal
    BY <1>5, <1>8 DEF PortalRequest, Register, CollectManually,
                      PayRequestManually, DueDatePasses
  <1>9. ASSUME NEW w \in Workers, Crash(w) PROVE Goal
    BY <1>5, <1>9 DEF Crash
  <1>10. CASE UNCHANGED vars
    BY <1>5, <1>10 DEF vars
  <1> HIDE DEF Goal
  <1>11. ASSUME NEW w \in Workers, Begin(w) \/ Proceed(w) \/ Crash(w) PROVE Goal
    BY <1>11, <1>1, <1>2, <1>6, <1>7, <1>9
  <1>12. CASE \E q \in Requests : PayerActs(q) \/ TerminalResolves(q)
    BY <1>3, <1>4, <1>12
  <1>13. CASE \E q : \/ PortalRequest(q) \/ Register(q) \/ CollectManually(q)
                     \/ PayRequestManually(q) \/ DueDatePasses(q)
    BY <1>8, <1>13
  <1>14. CASE \E w \in Workers : Begin(w) \/ Proceed(w) \/ Crash(w)
    BY <1>11, <1>14
  <1> QED
    BY <1>10, <1>12, <1>13, <1>14, Zenon DEF Next

\* A handler comes to reconcile a success only by a status query.
LEMMA AnswerStep ==
  ASSUME ProtocolInv, [Next]_vars, NEW v \in Workers, Reconciling(v)',
         work'[v].reply = "succeeded"
  PROVE  \/ work'[v] = work[v]
         \/ /\ QueryStatus(v) /\ work'[v].req = work[v].req
            /\ "succeeded" \in Answers(work[v].req)
  <1> DEFINE Goal == \/ work'[v] = work[v]
                     \/ /\ QueryStatus(v) /\ work'[v].req = work[v].req
                        /\ "succeeded" \in Answers(work[v].req)
  <1> USE DEF ProtocolInv, TypeInv, TypeOK, WorkOK
  <1>0. work[v] \in Work /\ Shaped(work[v])
    BY ShapedWork
  <1>1. ASSUME NEW w \in Workers, Begin(w) PROVE Goal
    <2>1. CASE v # w
      BY <1>1, <2>1, BeginClaims
    <2>2. CASE v = w
      <3>1. ASSUME NEW r \in Requests,
                   \/ StaffSnapshot(v, r) \/ BeginHosted(v, r) \/ BeginSale(v, r)
                   \/ BeginRecover(v, r) \/ BeginRecheck(v, r)
            PROVE  work'[v].reply = "none"
        BY <3>1 DEF StaffSnapshot, BeginHosted, BeginSale, BeginRecover,
                    BeginRecheck, Idle
      <3>2. ASSUME NEW notice \in notices, BeginCallback(v, notice)
            PROVE  work'[v].reply = "none"
        BY <3>2 DEF BeginCallback, Idle
      <3>3. work'[v].reply = "none"
        BY <1>1, <2>2, <3>1, <3>2 DEF Begin
      <3> QED
        BY <3>3
    <2> QED
      BY <2>1, <2>2
  <1>2. ASSUME NEW w \in Workers, Proceed(w), v # w PROVE Goal
    BY <1>2, ProceedMoves DEF Moves
  <1>3. ASSUME Proceed(v) PROVE Goal
    <2>1. CASE StaffInsert(v) \/ FinishHosted(v) \/ PersistOutcome(v)
      BY <2>1 DEF StaffInsert, FinishHosted, PersistOutcome, Idle, Reconciling
    <2>2. CASE OpenPage(v)
      <3>1. PICK sale \in SaleResults :
              work' = [work EXCEPT ![v] =
                         [@ EXCEPT !.stage = "finish", !.sale = sale]]
        BY <2>2 DEF OpenPage
      <3> HIDE DEF SaleResults
      <3> DEFINE g == [work[v] EXCEPT !.stage = "finish"]
                 h == [g EXCEPT !.sale = sale]
      <3>2. work' = [work EXCEPT ![v] = h]
        BY <3>1
      <3>3. g \in Work /\ g.stage = "finish"
        BY <1>0, SetStage
      <3> HIDE DEF g
      <3>4. h.stage = "finish"
        BY <3>3, SetSale
      <3> HIDE DEF h
      <3> QED
        BY <3>2, <3>4 DEF Reconciling
    <2>3. CASE CallSale(v)
      <3>1. PICK sale \in SaleResults, stage \in {"query", "reconcile"},
                 reply \in Replies \cup {"none"} :
              /\ reply # "succeeded"
              /\ work' = [work EXCEPT ![v] =
                         [@ EXCEPT !.sale = sale, !.stage = stage, !.reply = reply]]
        BY <2>3 DEF CallSale
      <3>2. stage \in Stages
        OBVIOUS
      <3> HIDE DEF SaleResults, Stages
      <3> DEFINE f == [work[v] EXCEPT !.sale = sale]
                 g == [f EXCEPT !.stage = stage]
                 h == [g EXCEPT !.reply = reply]
      <3>3. work' = [work EXCEPT ![v] = h]
        BY <3>1
      <3>4. f \in Work
        BY <1>0, SetSale
      <3> HIDE DEF f
      <3>5. g \in Work
        BY <3>2, <3>4, SetStage
      <3> HIDE DEF g
      <3>6. h.reply = reply
        BY <3>5, SetReply
      <3> HIDE DEF h
      <3> QED
        BY <3>1, <3>3, <3>6
    <2>4. CASE QueryStatus(v)
      <3>1. PICK reply \in Answers(work[v].req) :
              work' = [work EXCEPT ![v] =
                IF work[v].op = "recheck" /\ reply \in FinalNonPayment THEN Idle
                ELSE [@ EXCEPT !.reply = reply, !.stage = "reconcile"]]
        BY <2>4 DEF QueryStatus
      <3>2. reply \in Replies
        BY DEF Answers
      <3> DEFINE g == [work[v] EXCEPT !.reply = reply]
                 h == [g EXCEPT !.stage = "reconcile"]
      <3>3. work' = [work EXCEPT ![v] = h] \/ work' = [work EXCEPT ![v] = Idle]
        BY <3>1
      <3>4. g \in Work /\ g.reply = reply /\ g.req = work[v].req
        BY <1>0, <3>2, SetReply
      <3> HIDE DEF g
      <3>5. h.reply = reply /\ h.req = work[v].req
        BY <3>4, SetStage
      <3> HIDE DEF h
      <3>6. work'[v] # Idle
        BY DEF Reconciling, Idle
      <3>7. work'[v].reply = reply /\ work'[v].req = work[v].req
        BY <3>3, <3>5, <3>6
      <3> QED
        BY <2>4, <3>7
    <2>5. CASE Reconcile(v)
      <3>1. \/ work' = [work EXCEPT ![v] = Idle]
            \/ \E o \in Outcomes : work' = [work EXCEPT ![v] =
                         [@ EXCEPT !.stage = "persist", !.outcome = o]]
        BY <2>5, ShapedWork
           DEF Reconcile, ReconcileDuplicate, ReconcileOpen, ReconcileNonPayment,
               ReconcileMismatch, ReconcileSuccess, ReconcileRefused, Conclude
      <3>2. CASE work' = [work EXCEPT ![v] = Idle]
        BY <3>2 DEF Reconciling, Idle
      <3>3. ASSUME NEW o \in Outcomes, work' = [work EXCEPT ![v] =
                         [@ EXCEPT !.stage = "persist", !.outcome = o]]
            PROVE  FALSE
        <4> DEFINE g == [work[v] EXCEPT !.stage = "persist"]
                   h == [g EXCEPT !.outcome = o]
        <4>1. work' = [work EXCEPT ![v] = h]
          BY <3>3
        <4>2. g \in Work /\ g.stage = "persist"
          BY <1>0, SetStage
        <4> HIDE DEF g
        <4>3. h.stage = "persist"
          BY <4>2, SetOutcome
        <4> HIDE DEF h
        <4> QED
          BY <4>1, <4>3 DEF Reconciling
      <3> QED
        BY <3>1, <3>2, <3>3
    <2> QED
      BY <1>3, <2>1, <2>2, <2>3, <2>4, <2>5 DEF Proceed
  <1>4. ASSUME NEW w \in Workers, Crash(w) PROVE Goal
    BY <1>4 DEF Crash, Idle, Reconciling
  <1>5. ASSUME NEW q, \/ PortalRequest(q) \/ Register(q) \/ CollectManually(q)
                      \/ PayRequestManually(q) \/ DueDatePasses(q)
                      \/ PayerActs(q) \/ TerminalResolves(q)
        PROVE  UNCHANGED work
    BY <1>5 DEF PortalRequest, Register, CollectManually, PayRequestManually,
                DueDatePasses, PayerActs, TerminalResolves
  <1>6. CASE UNCHANGED vars
    BY <1>6 DEF vars
  <1> QED
    BY <1>1, <1>2, <1>3, <1>4, <1>5, <1>6 DEF Next

LEMMA AnswersTrueStep ==
  ASSUME ProtocolInv, CapturedAsked, AnswersTrue, [Next]_vars
  PROVE  CapturedAsked' /\ AnswersTrue'
  <1>1. CapturedAsked'
    BY ProviderStep DEF CapturedAsked
  <1>2. ASSUME NEW v \in Workers, Reconciling(v)', work'[v].reply = "succeeded"
        PROVE  provider'[work'[v].req] = "captured"
    <2>1. work[v].req \in Requests /\ work'[v].req = work[v].req
      BY <1>2, AnswerStep, ShapedWork
         DEF ProtocolInv, Reconciling, Shaped, QueryStatus
    <2>2. provider[work[v].req] = "captured"
      <3>1. CASE work'[v] = work[v]
        BY <1>2, <3>1 DEF AnswersTrue, Reconciling
      <3>2. CASE "succeeded" \in Answers(work[v].req)
        BY <3>2 DEF Answers
      <3> QED
        BY <1>2, <3>1, <3>2, AnswerStep
    <2>3. PICK r \in Requests : r = work[v].req
      BY <2>1
    <2> QED
      BY <2>1, <2>2, <2>3, ProviderStep
  <1> QED
    BY <1>1, <1>2 DEF AnswersTrue

-----------------------------------------------------------------------------
(* The ledger.                                                             *)

\* An attempt is made for a request that exists.
AttemptedExists == \A r \in Requests : Bound(r) => request[r] # "absent"

\* Nothing is written for a transaction before it is recorded.
Unbooked ==
    \A t \in Txns \ recorded :
        receipts[t] = 0 /\ \A c \in Charges : alloc[t][c] = 0

Receipted == \A t \in recorded : receipts[t] = 1

\* A transaction that pays a request applies its plan and completes it.
PaysRequest(t, r) ==
    /\ r \in Requests
    /\ alloc[t] = Plan[r]
    /\ request[r] = "completed"
    /\ t \in ProviderIds => /\ ProviderId[r] = t
                            /\ provider[r] = "captured"
    /\ t \in RequestKeys => PayRequest[t] = r

PlanApplied == \A t \in recorded \ CollectKeys : PaysRequest(t, owner[t])

\* Money recorded on a charge is applied to it.
Collected == \A k \in recorded \cap CollectKeys : ~ Fresh(k)

BooksInv == /\ Unbooked /\ Receipted /\ PlanApplied /\ Collected
            /\ CapturedAsked /\ AnswersTrue /\ AttemptedExists

\* What a step that books transaction t does to the ledger.
Books(t) ==
    /\ recorded' = recorded \cup {t}
    /\ receipts'[t] = 1
    /\ t \in recorded => owner'[t] = owner[t] /\ alloc'[t] = alloc[t]
    /\ \A u \in Txns \ {t} : /\ owner'[u] = owner[u]
                             /\ alloc'[u] = alloc[u]
                             /\ receipts'[u] = receipts[u]

LEMMA BookPlan ==
  ASSUME TypeInv, BooksInv, NEW t \in ProviderIds \cup RequestKeys,
         NEW r \in Requests, t \in recorded => owner[t] = r,
         RecordTxn(t, r), ApplyPlan(t, r), EnsureReceipt(t)
  PROVE  Books(t) /\ owner'[t] = r /\ alloc'[t] = Plan[r]
  <1> USE DEF TypeInv, TypeOK, LedgerOK
  <1>1. t \in Txns /\ t \notin CollectKeys
    BY KeysAreDistinct DEF KeysAreDistinct, Txns
  <1>2. Plan[r] \in [Charges -> Nat]
    BY ConstantsAssumption DEF ConstantsAssumption
  <1>3. recorded' = recorded \cup {t} /\ owner'[t] = r
    BY <1>1 DEF RecordTxn
  <1>4. receipts'[t] = 1
    BY <1>1 DEF EnsureReceipt, BooksInv, Receipted, Unbooked
  <1>5. alloc'[t] = Plan[r]
    <2>1. alloc'[t] = [c \in Charges |-> IF c \in Missing(t, r) THEN Plan[r][c]
                                         ELSE alloc[t][c]]
      BY <1>1 DEF ApplyPlan
    <2>2. CASE t \in recorded
      <3>1. alloc[t] = Plan[r]
        BY <1>1, <2>2 DEF BooksInv, PlanApplied, PaysRequest
      <3> QED
        BY <1>2, <2>1, <3>1
    <2>3. CASE t \notin recorded
      <3>1. \A c \in Charges : alloc[t][c] = 0
        BY <1>1, <2>3 DEF BooksInv, Unbooked
      <3>2. \A c \in Charges : c \in Missing(t, r) <=> Plan[r][c] > 0
        BY <3>1 DEF Missing, Planned
      <3> QED
        BY <1>2, <2>1, <3>1, <3>2
    <2> QED
      BY <2>2, <2>3
  <1>6. t \in recorded => alloc[t] = Plan[r]
    BY <1>1 DEF BooksInv, PlanApplied, PaysRequest
  <1>7. \A u \in Txns \ {t} : /\ owner'[u] = owner[u]
                              /\ alloc'[u] = alloc[u]
                              /\ receipts'[u] = receipts[u]
    BY <1>1 DEF RecordTxn, ApplyPlan, EnsureReceipt
  <1> QED
    BY <1>3, <1>4, <1>5, <1>6, <1>7 DEF Books

LEMMA BookCollected ==
  ASSUME TypeInv, BooksInv, NEW k \in CollectKeys, CollectManually(k)
  PROVE  Books(k) /\ ~ Fresh(k)'
  <1> DEFINE c == Collect[k].charge
             amount == Collect[k].amount
  <1> USE DEF TypeInv, TypeOK, LedgerOK
  <1>1. k \in Txns /\ c \in Charges /\ amount \in Nat \ {0}
    BY ConstantsAssumption DEF Txns, ConstantsAssumption
  <1>2. /\ RecordTxn(k, latest[c]) /\ EnsureReceipt(k)
        /\ alloc' = [alloc EXCEPT ![k][c] = IF Fresh(k) THEN amount ELSE @]
    BY DEF CollectManually
  <1> HIDE DEF c, amount
  <1>3. recorded' = recorded \cup {k} /\ (k \in recorded => owner'[k] = owner[k])
    BY <1>1, <1>2 DEF RecordTxn
  <1>4. receipts'[k] = 1
    BY <1>1, <1>2 DEF EnsureReceipt, BooksInv, Receipted, Unbooked
  <1>5. alloc'[k] = [alloc[k] EXCEPT ![c] = IF Fresh(k) THEN amount ELSE @]
    BY <1>1, <1>2
  <1>6. alloc'[k][c] # 0
    BY <1>1, <1>5 DEF Fresh, c
  <1>7. k \in recorded => alloc'[k] = alloc[k]
    BY <1>1, <1>5 DEF BooksInv, Collected
  <1>8. \A u \in Txns \ {k} : /\ owner'[u] = owner[u]
                              /\ alloc'[u] = alloc[u]
                              /\ receipts'[u] = receipts[u]
    BY <1>1, <1>2 DEF RecordTxn, EnsureReceipt
  <1> QED
    BY <1>3, <1>4, <1>6, <1>7, <1>8 DEF Books, Fresh, c

LEMMA AttemptedExistsStep ==
  ASSUME ProtocolInv, AttemptedExists, [Next]_vars
  PROVE  AttemptedExists'
  <1> SUFFICES ASSUME NEW r \in Requests, Bound(r)' PROVE request'[r] # "absent"
    BY DEF AttemptedExists
  <1> USE DEF ProtocolInv, TypeInv, TypeOK, RowsOK
  <1>0. StatusStep(r)
    BY RequestStep DEF AttemptInv
  <1>1. CASE Bound(r)
    BY <1>0, <1>1 DEF AttemptedExists, StatusStep, Claims, Closes
  <1>2. ASSUME UNCHANGED <<hosted, terminal>> PROVE request'[r] # "absent"
    BY <1>1, <1>2 DEF Bound
  <1>3. ASSUME NEW w \in Workers, Begin(w) PROVE request'[r] # "absent"
    <2>1. ASSUME NEW q \in Requests, BeginHosted(w, q) \/ BeginSale(w, q)
          PROVE  request'[r] # "absent"
      BY <2>1, <1>1 DEF BeginHosted, BeginSale, Bound
    <2>2. ASSUME NEW q, \/ StaffSnapshot(w, q) \/ BeginRecover(w, q)
                        \/ BeginRecheck(w, q) \/ BeginCallback(w, q)
          PROVE  UNCHANGED <<hosted, terminal>>
      BY <2>2 DEF StaffSnapshot, BeginRecover, BeginRecheck, BeginCallback, rows
    <2> QED
      BY <1>2, <1>3, <2>1, <2>2 DEF Begin
  <1>4. ASSUME NEW w \in Workers, FinishHosted(w) \/ PersistOutcome(w)
        PROVE  request'[r] # "absent"
    <2>1. work[w].req \in Requests /\ Bound(work[w].req)
      BY <1>4, ShapedWork DEF FinishHosted, PersistOutcome, Shaped, AttemptInv,
                              BoundWork, Underway
    <2>2. CASE r = work[w].req
      BY <1>1, <2>1, <2>2
    <2>3. CASE r # work[w].req
      BY <1>1, <1>4, <2>3 DEF FinishHosted, PersistOutcome, Bound
    <2> QED
      BY <2>2, <2>3
  <1>5. ASSUME NEW w \in Workers, \/ StaffInsert(w) \/ OpenPage(w) \/ CallSale(w)
                                  \/ QueryStatus(w) \/ Crash(w)
        PROVE  UNCHANGED <<hosted, terminal>>
    BY <1>5 DEF StaffInsert, OpenPage, CallSale, QueryStatus, Crash, rows
  <1>6. ASSUME NEW w \in Workers, Reconcile(w) PROVE UNCHANGED <<hosted, terminal>>
    BY <1>6 DEF Reconcile, ReconcileDuplicate, ReconcileOpen, ReconcileNonPayment,
                ReconcileMismatch, ReconcileSuccess, ReconcileRefused, rows
  <1>7. ASSUME NEW q, \/ PortalRequest(q) \/ Register(q) \/ CollectManually(q)
                      \/ PayRequestManually(q) \/ DueDatePasses(q)
                      \/ PayerActs(q) \/ TerminalResolves(q)
        PROVE  UNCHANGED <<hosted, terminal>>
    BY <1>7 DEF PortalRequest, Register, CollectManually, PayRequestManually,
                DueDatePasses, PayerActs, TerminalResolves, rows
  <1>8. CASE UNCHANGED vars
    BY <1>2, <1>8 DEF vars, rows
  <1> QED
    BY <1>2, <1>3, <1>4, <1>5, <1>6, <1>7, <1>8 DEF Next, Proceed

\* A step leaves the ledger alone, books a transaction that pays a request, or
\* books money recorded on a charge.
Pays(t, r) == /\ Books(t) /\ owner'[t] = r /\ alloc'[t] = Plan[r]
              /\ request'[r] = "completed"
              /\ t \in ProviderIds =>
                   /\ ProviderId[r] = t
                   /\ provider[r] = "captured"
              /\ t \in RequestKeys => PayRequest[t] = r

LedgerStep ==
    \/ UNCHANGED ledger
    \/ \E t \in ProviderIds \cup RequestKeys, r \in Requests : Pays(t, r)
    \/ \E k \in CollectKeys : Books(k) /\ ~ Fresh(k)'

LEMMA ReconcilePays ==
  ASSUME ProtocolInv, BooksInv, NEW w \in Workers, ReconcileSuccess(w)
  PROVE  LET r == work[w].req IN
         /\ r \in Requests /\ ProviderId[r] \in ProviderIds
         /\ Pays(ProviderId[r], r)
  <1> DEFINE r == work[w].req
             t == ProviderId[r]
  <1>1. /\ NewEvent(w) /\ work[w].reply = "succeeded" /\ Recordable(t, r)
        /\ RecordTxn(t, r) /\ ApplyPlan(t, r) /\ EnsureReceipt(t)
        /\ Mark(r, "completed")
    BY DEF ReconcileSuccess
  <1>2. r \in Requests /\ Bound(r)
    BY <1>1, ShapedWork DEF NewEvent, Reconciling, Shaped, ProtocolInv, AttemptInv,
                            BoundWork, Underway
  <1>3. provider[r] = "captured"
    BY <1>1 DEF NewEvent, BooksInv, AnswersTrue
  <1> HIDE DEF r
  <1>4. t \in ProviderIds
    BY <1>2, ConstantsAssumption DEF ConstantsAssumption
  <1>5. request'[r] = "completed"
    BY <1>1, <1>2
       DEF Mark, MarkFrom, ProtocolInv, TypeInv, TypeOK, RowsOK, BooksInv,
           AttemptedExists
  <1>6. t \in recorded => owner[t] = r
    BY <1>1 DEF Recordable, TxnConflict
  <1> HIDE DEF t
  <1>7. Books(t) /\ owner'[t] = r /\ alloc'[t] = Plan[r]
    BY <1>1, <1>2, <1>4, <1>6, BookPlan DEF ProtocolInv
  <1>8. t \notin RequestKeys /\ ProviderId[r] = t
    BY <1>4, KeysAreDistinct DEF KeysAreDistinct, t
  <1>9. Pays(t, r)
    BY <1>3, <1>5, <1>7, <1>8 DEF Pays
  <1> QED
    BY <1>2, <1>4, <1>9 DEF r, t

LEMMA ManualPays ==
  ASSUME ProtocolInv, BooksInv, NEW k \in RequestKeys, PayRequestManually(k)
  PROVE  PayRequest[k] \in Requests /\ Pays(k, PayRequest[k])
  <1> DEFINE r == PayRequest[k]
  <1>1. r \in Requests
    BY ConstantsAssumption DEF ConstantsAssumption
  <1>2. /\ RecordTxn(k, r) /\ ApplyPlan(k, r) /\ EnsureReceipt(k)
        /\ request' = IF request[r] = "created"
                      THEN [request EXCEPT ![r] = "completed"] ELSE request
        /\ request[r] \in {"created", "completed"}
    BY DEF PayRequestManually
  <1>3. request'[r] = "completed"
    BY <1>1, <1>2 DEF ProtocolInv, TypeInv, TypeOK, RowsOK
  <1>4. k \notin CollectKeys /\ k \notin ProviderIds
    BY KeysAreDistinct DEF KeysAreDistinct
  <1>5. k \in recorded => owner[k] = r
    BY <1>4 DEF BooksInv, PlanApplied, PaysRequest
  <1>6. PayRequest[k] = r
    OBVIOUS
  <1> HIDE DEF r
  <1>7. Books(k) /\ owner'[k] = r /\ alloc'[k] = Plan[r]
    BY <1>1, <1>2, <1>5, BookPlan DEF ProtocolInv
  <1>8. Pays(k, r)
    BY <1>3, <1>4, <1>6, <1>7 DEF Pays
  <1> QED
    BY <1>1, <1>8 DEF r

\* Only three actions write the ledger.
LEMMA LedgerWriters ==
  ASSUME [Next]_vars
  PROVE  \/ UNCHANGED ledger
         \/ \E w \in Workers : ReconcileSuccess(w)
         \/ \E k \in CollectKeys : CollectManually(k)
         \/ \E k \in RequestKeys : PayRequestManually(k)
  <1>1. ASSUME NEW w \in Workers, Begin(w) PROVE UNCHANGED ledger
    BY <1>1 DEF Begin, StaffSnapshot, BeginHosted, BeginSale, BeginRecover,
                BeginRecheck, BeginCallback
  <1>2. ASSUME NEW w \in Workers, Reconcile(w), ~ ReconcileSuccess(w)
        PROVE  UNCHANGED ledger
    BY <1>2 DEF Reconcile, ReconcileDuplicate, ReconcileOpen, ReconcileNonPayment,
                ReconcileMismatch, ReconcileRefused
  <1>3. ASSUME NEW w \in Workers, Proceed(w), ~ Reconcile(w)
        PROVE  UNCHANGED ledger
    BY <1>3 DEF Proceed, StaffInsert, OpenPage, FinishHosted, CallSale,
                QueryStatus, PersistOutcome
  <1>4. ASSUME NEW w \in Workers, Crash(w) PROVE UNCHANGED ledger
    BY <1>4 DEF Crash
  <1>5. ASSUME NEW q, \/ PortalRequest(q) \/ Register(q) \/ DueDatePasses(q)
                      \/ PayerActs(q) \/ TerminalResolves(q)
        PROVE  UNCHANGED ledger
    BY <1>5 DEF PortalRequest, Register, DueDatePasses, PayerActs,
                TerminalResolves
  <1>6. CASE UNCHANGED vars
    BY <1>6 DEF vars, ledger
  <1> QED
    BY <1>1, <1>2, <1>3, <1>4, <1>5, <1>6 DEF Next

LEMMA LedgerSteps ==
  ASSUME ProtocolInv, BooksInv, [Next]_vars
  PROVE  LedgerStep
  <1>1. ASSUME UNCHANGED ledger PROVE LedgerStep
    BY <1>1 DEF LedgerStep
  <1>2. ASSUME NEW w \in Workers, ReconcileSuccess(w) PROVE LedgerStep
    BY <1>2, ReconcilePays DEF LedgerStep
  <1>3. ASSUME NEW k \in CollectKeys, CollectManually(k) PROVE LedgerStep
    BY <1>3, BookCollected DEF ProtocolInv, LedgerStep
  <1>4. ASSUME NEW k \in RequestKeys, PayRequestManually(k) PROVE LedgerStep
    BY <1>4, ManualPays DEF LedgerStep
  <1> QED
    BY <1>1, <1>2, <1>3, <1>4, LedgerWriters

\* What is true of the books stays true.
LEMMA BooksStep ==
  ASSUME ProtocolInv, BooksInv, [Next]_vars
  PROVE  Unbooked' /\ Receipted' /\ PlanApplied' /\ Collected'
  <1> USE DEF ProtocolInv, TypeInv, TypeOK, LedgerOK
  <1>0. \A u \in recorded \ CollectKeys :
          owner'[u] = owner[u] /\ alloc'[u] = alloc[u]
            => PaysRequest(u, owner[u])'
    <2> SUFFICES ASSUME NEW u \in recorded \ CollectKeys,
                        owner'[u] = owner[u], alloc'[u] = alloc[u]
                 PROVE  PaysRequest(u, owner[u])'
      OBVIOUS
    <2>1. PICK r \in Requests : r = owner[u] /\ PaysRequest(u, r)
      BY DEF BooksInv, PlanApplied, PaysRequest
    <2>2. request'[r] = "completed"
      <3>1. StatusStep(r)
        BY RequestStep DEF AttemptInv
      <3> QED
        BY <2>1, <3>1 DEF PaysRequest, StatusStep, Claims, Closes, AttemptInv, Untouched
    <2>3. provider[r] = "captured" => provider'[r] = "captured"
      BY ProviderStep DEF BooksInv
    <2> QED
      BY <2>1, <2>2, <2>3 DEF PaysRequest
  <1>1. CASE UNCHANGED ledger
    <2>1. UNCHANGED <<recorded, owner, alloc, receipts>>
      BY <1>1 DEF ledger
    <2>2. Unbooked' /\ Receipted' /\ Collected'
      BY <2>1 DEF BooksInv, Unbooked, Receipted, Collected, Fresh
    <2>3. PlanApplied'
      BY <1>0, <2>1 DEF PlanApplied
    <2> QED
      BY <2>2, <2>3
  <1>2. ASSUME NEW t \in Txns, Books(t),
               t \in CollectKeys => ~ Fresh(t)',
               t \notin CollectKeys => PaysRequest(t, owner[t])'
        PROVE  Unbooked' /\ Receipted' /\ PlanApplied' /\ Collected'
    <2>1. Unbooked'
      BY <1>2 DEF Books, BooksInv, Unbooked
    <2>2. Receipted'
      BY <1>2 DEF Books, BooksInv, Receipted
    <2>3. ASSUME NEW u \in recorded' \ CollectKeys PROVE PaysRequest(u, owner[u])'
      <3>1. CASE u = t
        BY <1>2, <2>3, <3>1
      <3>2. CASE u # t
        BY <1>0, <1>2, <2>3, <3>2 DEF Books
      <3> QED
        BY <3>1, <3>2
    <2>4. Collected'
      BY <1>2 DEF Books, BooksInv, Collected, Fresh
    <2> QED
      BY <2>1, <2>2, <2>3, <2>4 DEF PlanApplied
  <1>3. ASSUME NEW t \in ProviderIds \cup RequestKeys, NEW r \in Requests, Pays(t, r)
        PROVE  Unbooked' /\ Receipted' /\ PlanApplied' /\ Collected'
    <2>1. t \in Txns /\ t \notin CollectKeys
      BY KeysAreDistinct DEF KeysAreDistinct, Txns
    <2>2. provider[r] = "captured" => provider'[r] = "captured"
      BY ProviderStep DEF BooksInv
    <2>3. PaysRequest(t, owner[t])'
      BY <1>3, <2>2 DEF Pays, PaysRequest
    <2> QED
      BY <1>2, <1>3, <2>1, <2>3 DEF Pays
  <1>4. ASSUME NEW k \in CollectKeys, Books(k), ~ Fresh(k)'
        PROVE  Unbooked' /\ Receipted' /\ PlanApplied' /\ Collected'
    BY <1>2, <1>4 DEF Txns
  <1> QED
    BY <1>1, <1>3, <1>4, LedgerSteps DEF LedgerStep

LEMMA BooksInductive ==
    /\ Init => ProtocolInv /\ BooksInv
    /\ ProtocolInv /\ BooksInv /\ [Next]_vars => ProtocolInv' /\ BooksInv'
  <1>1. Init => BooksInv
    BY DEF Init, BooksInv, Unbooked, Receipted, PlanApplied, Collected,
           CapturedAsked, AnswersTrue, AttemptedExists, Bound, Reconciling, Idle
  <1>2. ProtocolInv /\ BooksInv /\ [Next]_vars => BooksInv'
    BY BooksStep, AnswersTrueStep, AttemptedExistsStep DEF BooksInv
  <1> QED
    BY <1>1, <1>2, ProtocolInductive

\* A card payment is on the books whole or not at all: the money was captured
\* for this very request, its plan is applied, it has its receipt and the
\* request is completed, because reconcileDejavooPayment commits them together
\* and nothing that follows takes any of them back.
THEOREM CapturesAreWhole == Spec => []CaptureIsWhole
  <1>1. ProtocolInv /\ BooksInv => CaptureIsWhole
    BY KeysAreDistinct DEF KeysAreDistinct, BooksInv, PlanApplied, PaysRequest,
                           Receipted, CaptureIsWhole
  <1> QED
    BY <1>1, BooksInductive, PTL DEF Spec

\* No replay of a callback, a recheck or a client key moves a transaction to
\* another request, allocates it again or issues a second receipt.
THEOREM WrittenOnce == Spec => BooksAreFinal
  <1>1. ProtocolInv /\ BooksInv /\ [Next]_vars =>
          \A t \in recorded : /\ t \in recorded'
                              /\ owner'[t] = owner[t]
                              /\ alloc'[t] = alloc[t]
                              /\ receipts'[t] = receipts[t]
    <2> SUFFICES ASSUME ProtocolInv, BooksInv, [Next]_vars, NEW t \in recorded
                 PROVE  /\ t \in recorded'
                        /\ owner'[t] = owner[t]
                        /\ alloc'[t] = alloc[t]
                        /\ receipts'[t] = receipts[t]
      OBVIOUS
    <2>1. t \in Txns /\ receipts[t] = 1
      BY DEF ProtocolInv, TypeInv, TypeOK, LedgerOK, BooksInv, Receipted
    <2>2. UNCHANGED ledger \/ \E u \in Txns : Books(u)
      BY LedgerSteps DEF LedgerStep, Pays, Txns
    <2> QED
      BY <2>1, <2>2 DEF ledger, Books
  <1> QED
    BY <1>1, BooksInductive, PTL DEF Spec, BooksAreFinal

-----------------------------------------------------------------------------
(* What completes a request.                                               *)

USE DEF OpenCharge, ChargeStatuses, BookStatuses
HIDE DEF Replies, SaleResults, Outcomes, HostedStates, TerminalStates,
         ProviderStates, Captures

\* The steps that write no charge, release no book and complete no request.
Quiet ==
    /\ UNCHANGED <<chargeStatus, book>>
    /\ \A r \in Requests :
         /\ request'[r] = "completed" => request[r] = "completed"
         /\ Source[r] = "registration" /\ request[r] = "absent" =>
              request'[r] = "absent"

\* Only staff requests are inserted by a handler.
StaffSourced ==
    \A w \in Workers : work[w].stage = "insert" => Source[work[w].req] = "staff"

\* A handler reaches the insertion of a request only from its snapshot.
LEMMA StaffSourcedStep ==
  ASSUME ProtocolInv, StaffSourced, [Next]_vars
  PROVE  StaffSourced'
  <1> SUFFICES ASSUME NEW v \in Workers, work'[v].stage = "insert"
               PROVE  Source[work'[v].req] = "staff"
    BY DEF StaffSourced
  <1> USE DEF ProtocolInv, TypeInv, TypeOK, WorkOK
  <1>1. CASE work'[v] = work[v]
    BY <1>1 DEF StaffSourced
  <1>2. ASSUME NEW w \in Workers, Begin(w) PROVE Source[work'[v].req] = "staff"
    <2>1. ASSUME NEW r \in Requests, StaffSnapshot(w, r)
          PROVE  work'[w].req = r /\ Source[r] = "staff"
      BY <2>1 DEF StaffSnapshot, Idle
    <2>2. ASSUME NEW r \in Requests, \/ BeginHosted(w, r) \/ BeginSale(w, r)
                                     \/ BeginRecover(w, r) \/ BeginRecheck(w, r)
          PROVE  work'[w].stage # "insert"
      BY <2>2 DEF BeginHosted, BeginSale, BeginRecover, BeginRecheck, Idle
    <2>3. ASSUME NEW notice \in notices, BeginCallback(w, notice)
          PROVE  work'[w].stage # "insert"
      BY <2>3 DEF BeginCallback, Idle
    <2>4. CASE v # w
      BY <1>1, <1>2, <2>4, BeginClaims
    <2>5. CASE v = w
      BY <1>2, <2>1, <2>2, <2>3, <2>5 DEF Begin
    <2> QED
      BY <2>4, <2>5
  <1>3. ASSUME NEW w \in Workers, Moves(w) PROVE Source[work'[v].req] = "staff"
    BY <1>1, <1>3 DEF Moves
  <1>4. CASE UNCHANGED work
    BY <1>1, <1>4
  <1> QED
    BY <1>2, <1>3, <1>4, OtherSteps, ProceedMoves

\* Everything but the four writers of charges, books and completions is quiet.
LEMMA OutcomeSteps ==
  ASSUME ProtocolInv, StaffSourced, [Next]_vars
  PROVE  \/ Quiet
         \/ \E w \in Workers : ReconcileSuccess(w)
         \/ \E k \in CollectKeys : CollectManually(k)
         \/ \E k \in RequestKeys : PayRequestManually(k)
         \/ \E r \in Requests : Register(r)
  <1> USE DEF ProtocolInv, TypeInv, TypeOK, RowsOK
  <1>0. ASSUME UNCHANGED <<chargeStatus, book, request>> PROVE Quiet
    BY <1>0 DEF Quiet
  <1>1. ASSUME NEW r \in Requests, NEW status \in RequestStatuses \ {"completed"},
               request[r] # "absent" \/ status = "absent"
                 \/ Source[r] # "registration",
               request' = [request EXCEPT ![r] = status],
               UNCHANGED <<chargeStatus, book>>
        PROVE  Quiet
    BY <1>1 DEF Quiet
  <1>2. ASSUME NEW w \in Workers, Begin(w) PROVE Quiet
    <2>1. ASSUME NEW r \in Requests, BeginHosted(w, r) \/ BeginSale(w, r)
          PROVE  Quiet
      BY <1>1, <2>1 DEF BeginHosted, BeginSale
    <2>2. ASSUME NEW r, \/ StaffSnapshot(w, r) \/ BeginRecover(w, r)
                        \/ BeginRecheck(w, r) \/ BeginCallback(w, r)
          PROVE  Quiet
      BY <1>0, <2>2
         DEF StaffSnapshot, BeginRecover, BeginRecheck, BeginCallback, rows
    <2> QED
      BY <1>2, <2>1, <2>2 DEF Begin
  <1>3. ASSUME NEW w \in Workers, StaffInsert(w) PROVE Quiet
    <2>1. work[w].req \in Requests /\ Source[work[w].req] = "staff"
      BY <1>3, ShapedWork DEF StaffInsert, Shaped, StaffSourced
    <2>2. /\ UNCHANGED <<chargeStatus, book>>
          /\ \/ UNCHANGED request
             \/ request' = [request EXCEPT ![work[w].req] = "created"]
      BY <1>3 DEF StaffInsert, NewRequest
    <2>3. PICK r \in Requests : r = work[w].req
      BY <2>1
    <2> QED
      BY <1>0, <1>1, <2>1, <2>2, <2>3
  <1>4. ASSUME NEW r \in Requests, PortalRequest(r) PROVE Quiet
    BY <1>1, <1>4 DEF PortalRequest, NewRequest
  <1>5. ASSUME NEW w \in Workers, Reconcile(w) PROVE Quiet \/ ReconcileSuccess(w)
    <2> DEFINE q == work[w].req
    <2>1. q \in Requests /\ work[w].reply \in Replies
      BY <1>5, ShapedWork
         DEF Reconcile, ReconcileDuplicate, ReconcileOpen, ReconcileNonPayment,
             ReconcileMismatch, ReconcileSuccess, ReconcileRefused, NewEvent,
             Reconciling, Shaped
    <2>2. CASE ReconcileDuplicate(w) \/ ReconcileMismatch(w) \/ ReconcileRefused(w)
      BY <1>0, <2>2
         DEF ReconcileDuplicate, ReconcileMismatch, ReconcileRefused, rows
    <2>3. ASSUME NEW status \in FinalNonPayment \cup {"pending"}, Mark(q, status),
                 UNCHANGED <<chargeStatus, book>>
          PROVE  Quiet
      <3>1. \/ UNCHANGED request
            \/ /\ request[q] # "absent"
               /\ request' = [request EXCEPT ![q] = status]
        BY <2>1, <2>3 DEF Mark, MarkFrom
      <3> HIDE DEF q
      <3> QED
        BY <1>0, <1>1, <2>1, <2>3, <3>1
    <2>4. CASE ReconcileOpen(w)
      BY <2>3, <2>4 DEF ReconcileOpen
    <2>5. CASE ReconcileNonPayment(w)
      BY <2>3, <2>5 DEF ReconcileNonPayment
    <2> QED
      BY <1>5, <2>2, <2>4, <2>5 DEF Reconcile
  <1>6. ASSUME NEW w \in Workers, \/ OpenPage(w) \/ FinishHosted(w) \/ CallSale(w)
                                  \/ QueryStatus(w) \/ PersistOutcome(w) \/ Crash(w)
        PROVE  Quiet
    BY <1>0, <1>6 DEF OpenPage, FinishHosted, CallSale, QueryStatus,
                      PersistOutcome, Crash, rows
  <1>7. ASSUME NEW q, DueDatePasses(q) \/ PayerActs(q) \/ TerminalResolves(q)
        PROVE  Quiet
    BY <1>0, <1>7 DEF DueDatePasses, PayerActs, TerminalResolves, rows
  <1>8. CASE UNCHANGED vars
    BY <1>0, <1>8 DEF vars, rows
  <1> QED
    BY <1>2, <1>3, <1>4, <1>5, <1>6, <1>7, <1>8 DEF Next, Proceed

\* The three ways to complete a request: the step books a transaction of the
\* request, whose plan it applies or whose only charge it pays off.
Completes(t, r) ==
    /\ Books(t) /\ owner'[t] = r
    /\ request[r] # "absent" /\ request'[r] = "completed"
    /\ \A q \in Requests \ {r} : request'[q] = request[q]
    /\ \/ alloc'[t] = Plan[r]
       \/ \A c \in Planned(r) : chargeStatus'[c] = "paid"

\* The newest request of a charge asks for that charge and no other.
LatestLinked ==
    \A c \in Charges : latest[c] \in Requests => Planned(latest[c]) = {c}

OutcomeInv == ProtocolInv /\ BooksInv /\ StaffSourced /\ LatestLinked

\* What becomes of the book of the request that t completes: it is released by
\* t, or stays as it was and t is in an activity for staff.
ReleasedOrTold(t, r) ==
    \/ ~ BookConflict(r, t) /\ book' = ReleasedBook(r, t)
    \/ t \in bookAttention' /\ UNCHANGED book

LEMMA SuccessCompletes ==
  ASSUME OutcomeInv, NEW w \in Workers, ReconcileSuccess(w)
  PROVE  \E t \in Txns, r \in Requests :
           Completes(t, r) /\ ReleasedOrTold(t, r)
  <1> USE DEF OutcomeInv, ProtocolInv, TypeInv, TypeOK, RowsOK
  <1>1. PICK r \in Requests, t \in ProviderIds :
          r = work[w].req /\ t = ProviderId[r] /\ Pays(t, r)
    BY ReconcilePays
  <1>2. Mark(r, "completed") /\ ReleasedOrTold(t, r)
    BY <1>1 DEF ReconcileSuccess, ReleaseBook, ReleasedOrTold
  <1>3. request[r] # "absent"
    BY <1>1, <1>2 DEF Mark, MarkFrom, Pays
  <1>4. \A q \in Requests \ {r} : request'[q] = request[q]
    BY <1>2 DEF Mark
  <1> QED
    BY <1>1, <1>2, <1>3, <1>4 DEF Pays, Completes, Txns

LEMMA ManualCompletes ==
  ASSUME OutcomeInv, NEW k \in RequestKeys, PayRequestManually(k)
  PROVE  \E t \in Txns, r \in Requests :
           /\ Completes(t, r)
           /\ IF Source[r] = "registration" THEN ReleasedOrTold(t, r)
              ELSE book' = book
  <1> USE DEF OutcomeInv, ProtocolInv, TypeInv, TypeOK, RowsOK
  <1>1. PICK r \in Requests : r = PayRequest[k] /\ Pays(k, r)
    BY ManualPays
  <1>2. /\ request[r] \in {"created", "completed"}
        /\ request' = IF request[r] = "created"
                      THEN [request EXCEPT ![r] = "completed"] ELSE request
        /\ IF Source[r] = "registration" THEN ReleasedOrTold(k, r) ELSE book' = book
    BY <1>1 DEF PayRequestManually, ReleasedOrTold
  <1> QED
    BY <1>1, <1>2 DEF Pays, Completes, Txns

LEMMA CollectionCompletes ==
  ASSUME OutcomeInv, NEW k \in CollectKeys, CollectManually(k)
  PROVE  \/ UNCHANGED <<request, book>>
         \/ \E t \in Txns, r \in Requests :
              Completes(t, r) /\ ReleasedOrTold(t, r)
  <1> USE DEF OutcomeInv, ProtocolInv, TypeInv, TypeOK, RowsOK, LedgerOK
  <1> DEFINE c == Collect[k].charge
  <1>1. CASE ~ PaysOff(k)
    BY <1>1 DEF CollectManually
  <1>2. ASSUME PaysOff(k)
        PROVE  \E r \in Requests : Completes(k, r) /\ ReleasedOrTold(k, r)
    <2>1. c \in Charges /\ k \in Txns
      BY KeysAreTxns, ConstantsAssumption DEF ConstantsAssumption
    <2>2. latest[c] \in Requests
      BY <1>2, <2>1 DEF PaysOff
    <2>3. PICK r \in Requests : r = latest[c]
      BY <2>2
    <2>4. request[r] # "absent" /\ Planned(r) = {c}
      BY <2>1, <2>3 DEF LatestExists, LatestLinked
    <2>5. /\ request' = [request EXCEPT ![r] = "completed"]
          /\ ReleasedOrTold(k, r) /\ RecordTxn(k, r)
      BY <1>2, <2>3 DEF CollectManually, ReleasedOrTold
    <2>6. chargeStatus'[c] = "paid"
      BY <1>2, <2>1 DEF CollectManually, PaysOff
    <2>7. Books(k)
      BY BookCollected
    <2>8. owner'[k] = r
      <3>1. k \notin recorded
        BY <1>2 DEF PaysOff, BooksInv, Collected
      <3> QED
        BY <2>1, <2>5, <3>1 DEF RecordTxn
    <2> HIDE DEF c
    <2> QED
      BY <2>4, <2>5, <2>6, <2>7, <2>8 DEF Completes
  <1> QED
    BY <1>1, <1>2, KeysAreTxns DEF Txns

\* A charge that is paid stays paid.
LEMMA PaidStays ==
  ASSUME OutcomeInv, [Next]_vars, NEW c \in Charges, chargeStatus[c] = "paid"
  PROVE  chargeStatus'[c] = "paid"
  <1> USE DEF OutcomeInv, ProtocolInv, TypeInv, TypeOK, RowsOK
  <1>1. ASSUME NEW t, NEW r, PlanFits(t, r), ApplyPlan(t, r)
        PROVE  chargeStatus'[c] = "paid"
    <2>1. c \notin Missing(t, r)
      BY <1>1 DEF PlanFits, Allocatable
    <2> QED
      BY <1>1, <2>1 DEF ApplyPlan
  <1>2. ASSUME NEW w \in Workers, ReconcileSuccess(w) PROVE chargeStatus'[c] = "paid"
    BY <1>1, <1>2 DEF ReconcileSuccess, Recordable
  <1>3. ASSUME NEW k \in RequestKeys, PayRequestManually(k)
        PROVE  chargeStatus'[c] = "paid"
    BY <1>1, <1>3 DEF PayRequestManually
  <1>4. ASSUME NEW k \in CollectKeys, CollectManually(k)
        PROVE  chargeStatus'[c] = "paid"
    BY <1>4 DEF CollectManually, Allocatable
  <1>5. ASSUME NEW r \in Requests, Register(r) PROVE chargeStatus'[c] = "paid"
    BY <1>5 DEF Register
  <1> QED
    BY <1>2, <1>3, <1>4, <1>5, OutcomeSteps DEF Quiet

LEMMA LatestLinkedStep ==
  ASSUME OutcomeInv, [Next]_vars
  PROVE  LatestLinked'
  <1> SUFFICES ASSUME NEW c \in Charges, latest'[c] \in Requests
               PROVE  Planned(latest'[c]) = {c}
    BY DEF LatestLinked, Planned
  <1>1. \/ latest'[c] = latest[c]
        \/ \E r \in Requests : latest'[c] = r /\ LinkedTo(r, c)
    BY LatestStep DEF OutcomeInv, ProtocolInv
  <1> QED
    BY <1>1 DEF OutcomeInv, LatestLinked, LinkedTo

LEMMA OutcomeInductive ==
    /\ Init => OutcomeInv
    /\ OutcomeInv /\ [Next]_vars => OutcomeInv'
  <1>1. Init => StaffSourced /\ LatestLinked
    BY ConstantsAssumption
       DEF Init, StaffSourced, LatestLinked, Idle, ConstantsAssumption
  <1>2. OutcomeInv /\ [Next]_vars => StaffSourced' /\ LatestLinked'
    BY StaffSourcedStep, LatestLinkedStep DEF OutcomeInv
  <1> QED
    BY <1>1, <1>2, BooksInductive DEF OutcomeInv

-----------------------------------------------------------------------------
(* Completed requests.                                                     *)

\* A request that is completed now was so before, or the step completed it.
LEMMA CompletedStep ==
  ASSUME OutcomeInv, [Next]_vars, NEW r \in Requests, request'[r] = "completed"
  PROVE  request[r] = "completed" \/ \E t \in Txns : Completes(t, r)
  <1>1. ASSUME NEW t \in Txns, NEW q \in Requests, Completes(t, q)
        PROVE  request[r] = "completed" \/ \E u \in Txns : Completes(u, r)
    BY <1>1 DEF Completes
  <1>2. ASSUME NEW q \in Requests, Register(q) PROVE request[r] = "completed"
    BY <1>2 DEF Register, NewRequest, OutcomeInv, ProtocolInv, TypeInv, TypeOK, RowsOK
  <1>3. ASSUME NEW k \in CollectKeys, CollectManually(k)
        PROVE  request[r] = "completed" \/ \E u \in Txns : Completes(u, r)
    BY <1>1, <1>3, CollectionCompletes
  <1> QED
    BY <1>1, <1>2, <1>3, OutcomeSteps, SuccessCompletes, ManualCompletes
       DEF Quiet, OutcomeInv

LEMMA PaidStep ==
  ASSUME OutcomeInv, CompletedIsPaid, [Next]_vars
  PROVE  CompletedIsPaid'
  <1> USE DEF OutcomeInv, ProtocolInv, TypeInv, TypeOK, LedgerOK
  <1> SUFFICES ASSUME NEW r \in Requests, request'[r] = "completed"
               PROVE  \E t \in recorded' :
                        /\ owner'[t] = r /\ receipts'[t] = 1
                        /\ \/ alloc'[t] = Plan[r]
                           \/ \A c \in Planned(r) : chargeStatus'[c] = "paid"
    BY DEF CompletedIsPaid, Planned
  <1>1. CASE request[r] = "completed"
    <2>1. PICK t \in recorded :
            /\ owner[t] = r /\ receipts[t] = 1
            /\ \/ alloc[t] = Plan[r]
               \/ \A c \in Planned(r) : chargeStatus[c] = "paid"
      BY <1>1 DEF CompletedIsPaid
    <2>2. UNCHANGED ledger \/ \E u \in Txns : Books(u)
      BY LedgerSteps DEF LedgerStep, Pays, Txns
    <2>3. /\ t \in recorded' /\ owner'[t] = r /\ receipts'[t] = 1
          /\ alloc'[t] = alloc[t]
      BY <2>1, <2>2 DEF ledger, Books
    <2>4. \A c \in Planned(r) :
            chargeStatus[c] = "paid" => chargeStatus'[c] = "paid"
      BY PaidStays DEF Planned
    <2> QED
      BY <2>1, <2>3, <2>4
  <1>2. CASE request[r] # "completed"
    BY <1>2, CompletedStep DEF Completes, Books
  <1> QED
    BY <1>1, <1>2

\* Whoever completes a request books money for it in the same transaction: its
\* whole plan, or the last of the only charge it asks for.
THEOREM CompletedWasPaid == Spec => []CompletedIsPaid
  <1>1. Init => CompletedIsPaid
    BY DEF Init, CompletedIsPaid
  <1> QED
    BY <1>1, PaidStep, OutcomeInductive, PTL DEF Spec

-----------------------------------------------------------------------------
(* Books.                                                                  *)

BookOf(r) ==
    /\ book[r].status = "none" <=> request[r] = "absent"
    /\ book[r].status # "pending" => book[r].txn = NoTxn
    /\ book[r].status = "pending" =>
         /\ request[r] = "completed"
         /\ book[r].txn \in recorded /\ owner[book[r].txn] = r
    /\ request[r] = "completed" =>
         \/ book[r].status = "pending"
         \/ \E t \in bookAttention \cap recorded : owner[t] = r

BookInv == \A r \in WithBook : BookOf(r)

\* An activity that names a transaction is not taken back.
LEMMA AttentionStays == [Next]_vars => bookAttention \subseteq bookAttention'
  <1> SUFFICES ASSUME [Next]_vars PROVE bookAttention \subseteq bookAttention'
    OBVIOUS
  <1>1. ASSUME NEW w \in Workers, Begin(w) PROVE UNCHANGED bookAttention
    BY <1>1 DEF Begin, StaffSnapshot, BeginHosted, BeginSale, BeginRecover,
                BeginRecheck, BeginCallback, events
  <1>2. ASSUME NEW w \in Workers, ReconcileSuccess(w)
        PROVE  bookAttention \subseteq bookAttention'
    BY <1>2 DEF ReconcileSuccess, ReleaseBook
  <1>3. ASSUME NEW w \in Workers, Proceed(w) \/ Crash(w), ~ ReconcileSuccess(w)
        PROVE  UNCHANGED bookAttention
    BY <1>3 DEF Proceed, StaffInsert, OpenPage, FinishHosted, CallSale,
                QueryStatus, PersistOutcome, Crash, Reconcile,
                ReconcileDuplicate, ReconcileOpen, ReconcileNonPayment,
                ReconcileMismatch, ReconcileRefused, events
  <1>4. ASSUME NEW q, \/ PortalRequest(q) \/ Register(q) \/ CollectManually(q)
                      \/ PayRequestManually(q) \/ DueDatePasses(q)
                      \/ PayerActs(q) \/ TerminalResolves(q)
        PROVE  UNCHANGED bookAttention
    BY <1>4 DEF PortalRequest, Register, CollectManually, PayRequestManually,
                DueDatePasses, PayerActs, TerminalResolves, events
  <1>5. CASE UNCHANGED vars
    BY <1>5 DEF vars, events
  <1> QED
    BY <1>1, <1>2, <1>3, <1>4, <1>5 DEF Next

\* The step that completes a request releases its book or tells staff of it.
LEMMA ReleaseStep ==
  ASSUME OutcomeInv, [Next]_vars, NEW t \in Txns, NEW q \in Requests,
         Completes(t, q), ReleasedOrTold(t, q), NEW r \in WithBook, BookOf(r)
  PROVE  BookOf(r)'
  <1> USE DEF OutcomeInv, ProtocolInv, TypeInv, TypeOK, RowsOK, LedgerOK
  <1>0. r \in Requests /\ NoTxn \notin Txns
    BY ConstantsAssumption DEF ConstantsAssumption
  <1>1. /\ \A u \in recorded : u \in recorded' /\ owner'[u] = owner[u]
        /\ bookAttention \subseteq bookAttention'
    BY AttentionStays DEF Completes, Books
  <1>2. t \in recorded' /\ owner'[t] = q
    BY DEF Completes, Books
  <1>3. CASE r # q
    <2>1. book'[r] = book[r] /\ request'[r] = request[r]
      BY <1>0, <1>3 DEF ReleasedOrTold, ReleasedBook, Completes
    <2> QED
      BY <1>1, <2>1 DEF BookOf
  <1>4. CASE r = q
    <2>1. request[r] # "absent" /\ request'[r] = "completed"
      BY <1>4 DEF Completes
    <2>2. CASE t \in bookAttention' /\ UNCHANGED book
      BY <1>1, <1>2, <1>4, <2>1, <2>2 DEF BookOf
    <2>3. CASE book' = ReleasedBook(q, t)
      <3>1. book'[r] = [status |-> "pending", txn |-> t]
        BY <1>0, <1>4, <2>1, <2>3 DEF BookOf, ReleasedBook
      <3> QED
        BY <1>0, <1>2, <1>4, <2>1, <3>1 DEF BookOf
    <2> QED
      BY <2>2, <2>3 DEF ReleasedOrTold
  <1> QED
    BY <1>3, <1>4

LEMMA BookStep ==
  ASSUME OutcomeInv, BookInv, [Next]_vars
  PROVE  BookInv'
  <1> SUFFICES ASSUME NEW r \in WithBook PROVE BookOf(r)'
    BY DEF BookInv
  <1> USE DEF OutcomeInv, ProtocolInv, TypeInv, TypeOK, RowsOK, LedgerOK
  <1>0. /\ BookOf(r) /\ r \in Requests /\ Source[r] = "registration"
        /\ NoTxn \notin Txns
    BY ConstantsAssumption DEF ConstantsAssumption, BookInv
  <1>1. /\ \A u \in recorded : u \in recorded' /\ owner'[u] = owner[u]
        /\ bookAttention \subseteq bookAttention'
    BY AttentionStays, LedgerSteps DEF LedgerStep, ledger, Pays, Books
  <1>2. StatusStep(r) /\ (Unattempted(r) =>
                            request[r] \in {"absent", "created", "completed"})
    BY <1>0, RequestStep DEF AttemptInv, Untouched
  <1>3. ASSUME book'[r] = book[r],
               request'[r] = "completed" => request[r] = "completed",
               request[r] = "absent" => request'[r] = "absent"
        PROVE  BookOf(r)'
    <2>1. /\ request[r] = "completed" => request'[r] = "completed"
          /\ request'[r] = "absent" => request[r] = "absent"
      BY <1>2 DEF StatusStep, Claims, Closes
    <2> QED
      BY <1>0, <1>1, <1>3, <2>1 DEF BookOf
  <1>4. CASE Quiet
    BY <1>0, <1>3, <1>4 DEF Quiet
  <1>5. ASSUME NEW q \in Requests, Register(q) PROVE BookOf(r)'
    <2>1. CASE r # q
      BY <1>0, <1>3, <1>5, <2>1 DEF Register, NewRequest
    <2>2. CASE r = q
      <3>1. /\ request[r] = "absent" /\ request'[r] = "created"
            /\ book' = [book EXCEPT ![r].status = "payment_pending"]
        BY <1>0, <1>5, <2>2 DEF Register, NewRequest
      <3>2. book'[r].status = "payment_pending" /\ book'[r].txn = book[r].txn
        BY <1>0, <3>1
      <3> QED
        BY <1>0, <3>1, <3>2 DEF BookOf
    <2> QED
      BY <2>1, <2>2
  <1>6. ASSUME NEW w \in Workers, ReconcileSuccess(w) PROVE BookOf(r)'
    BY <1>0, <1>6, SuccessCompletes, ReleaseStep
  <1>7. ASSUME NEW k \in CollectKeys, CollectManually(k) PROVE BookOf(r)'
    BY <1>0, <1>3, <1>7, CollectionCompletes, ReleaseStep
  <1>8. ASSUME NEW k \in RequestKeys, PayRequestManually(k) PROVE BookOf(r)'
    <2>1. PICK t \in Txns, q \in Requests :
            /\ Completes(t, q)
            /\ IF Source[q] = "registration" THEN ReleasedOrTold(t, q)
               ELSE book' = book
      BY <1>8, ManualCompletes
    <2>2. CASE Source[q] = "registration"
      BY <1>0, <2>1, <2>2, ReleaseStep
    <2>3. CASE Source[q] # "registration"
      BY <1>0, <1>3, <2>1, <2>3 DEF Completes
    <2> QED
      BY <2>2, <2>3
  <1> QED
    BY <1>4, <1>5, <1>6, <1>7, <1>8, OutcomeSteps

\* activateFulfillmentWithoutBlockingPayment lets a payment stand whose book it
\* could not release.  Whatever fails, and however often: a book is on the
\* worklist only by a transaction of its own completed request, and a completed
\* request whose book is not there has an activity that names the transaction.
THEOREM BooksFollowMoney == Spec => []BookFollowsMoney
  <1>1. Init => BookInv
    BY ConstantsAssumption DEF Init, BookInv, BookOf, ConstantsAssumption
  <1>2. BookInv => BookFollowsMoney
    BY DEF BookInv, BookOf, BookFollowsMoney
  <1> QED
    BY <1>1, <1>2, BookStep, OutcomeInductive, PTL DEF Spec
=============================================================================
