--------------------- MODULE PaymentReconciliationProofs ---------------------
(***************************************************************************)
(* Theorems about PaymentReconciliation for any requests, charges, keys,   *)
(* handlers, prices and plans: its types, and the claims of handlers, by   *)
(* which a payer is charged at most once per request and a final status is *)
(* left only for "completed".                                              *)
(***************************************************************************)
EXTENDS PaymentReconciliation, TLAPS

USE DEF FinalNonPayment, OpenCharge, ChargeStatuses, RequestStatuses, Replies,
        SaleResults, Bodies, Outcomes, HostedStates, TerminalStates,
        BookStatuses, ProviderStates, Ops, Stages

\* What a handler in flight has claimed and read at each of its stages.
Shaped(h) ==
    /\ h.op = "none" <=> h.stage = "idle"
    /\ h.op # "none" => h.req \in Requests
    /\ h.stage \in {"page", "finish"} <=> h.op = "hosted"
    /\ h.stage = "sale" => h.op = "initiate"
    /\ h.stage \in {"query", "reconcile"} =>
         h.op \in {"initiate", "recover", "callback", "recheck"}
    /\ h.stage = "reconcile" => h.reply \in Replies
    /\ h.op \in {"callback", "recheck"} => h.body \in Bodies
    /\ h.stage = "persist" => h.outcome \in Outcomes

HandlersOK == \A w \in Workers : Shaped(work[w])

TypeInv == TypeOK /\ HandlersOK

LEMMA IdleOK == Idle \in Work /\ Shaped(Idle)
  BY DEF Idle, Work, Shaped

LEMMA TypeInit == Init => TypeInv
  <1> SUFFICES ASSUME Init PROVE TypeInv
    OBVIOUS
  <1>1. RowsOK
    BY DEF Init, RowsOK
  <1>2. LedgerOK
    BY DEF Init, LedgerOK
  <1>3. EventsOK
    BY DEF Init, EventsOK
  <1>4. OutsideOK
    BY DEF Init, OutsideOK
  <1>5. WorkOK /\ HandlersOK
    BY IdleOK DEF Init, WorkOK, HandlersOK
  <1> QED
    BY <1>1, <1>2, <1>3, <1>4, <1>5 DEF TypeInv, TypeOK

\* A step that gives one handler a well-shaped record keeps them all so.
LEMMA SetWork ==
  ASSUME NEW w \in Workers, NEW h, WorkOK, HandlersOK, h \in Work, Shaped(h),
         work' = [work EXCEPT ![w] = h]
  PROVE  WorkOK' /\ HandlersOK'
  <1>1. \A v \in Workers : work'[v] = IF v = w THEN h ELSE work[v]
    BY DEF WorkOK
  <1>2. WorkOK'
    BY DEF WorkOK
  <1>3. HandlersOK'
    BY <1>1 DEF HandlersOK, Shaped
  <1> QED
    BY <1>2, <1>3

\* The parts of the state a step leaves alone keep their types.
LEMMA PartsStay ==
    /\ RowsOK /\ UNCHANGED rows => RowsOK'
    /\ LedgerOK /\ UNCHANGED ledger => LedgerOK'
    /\ EventsOK /\ UNCHANGED events => EventsOK'
    /\ OutsideOK /\ UNCHANGED outside => OutsideOK'
    /\ WorkOK /\ HandlersOK /\ UNCHANGED work => WorkOK' /\ HandlersOK'
  <1>1. RowsOK /\ UNCHANGED rows => RowsOK'
    BY DEF RowsOK, rows
  <1>2. LedgerOK /\ UNCHANGED ledger => LedgerOK'
    BY DEF LedgerOK, ledger
  <1>3. EventsOK /\ UNCHANGED events => EventsOK'
    BY DEF EventsOK, events
  <1>4. OutsideOK /\ UNCHANGED outside => OutsideOK'
    BY DEF OutsideOK, outside
  <1>5. WorkOK /\ HandlersOK /\ UNCHANGED work => WorkOK' /\ HandlersOK'
    BY DEF WorkOK, HandlersOK, Shaped
  <1> QED
    BY <1>1, <1>2, <1>3, <1>4, <1>5

\* The helpers of the ledger keep its types, whatever transaction they record.
LEMMA LedgerHelpers ==
  ASSUME NEW t \in Txns, NEW r \in Requests, TypeInv
  PROVE  /\ RecordTxn(t, r) => recorded' \subseteq Txns
                               /\ owner' \in [Txns -> Requests \cup {NoRequest}]
         /\ ApplyPlan(t, r) => alloc' \in [Txns -> [Charges -> Nat]]
                               /\ chargeStatus' \in [Charges -> ChargeStatuses]
         /\ EnsureReceipt(t) => receipts' \in [Txns -> Nat]
         /\ ReleasedBook(r, t) \in
              [Requests -> [status : BookStatuses, txn : Txns \cup {NoTxn}]]
         /\ ReleaseBook(r, t) =>
              /\ book' \in [Requests -> [status : BookStatuses,
                                         txn : Txns \cup {NoTxn}]]
              /\ bookAttention' \subseteq Txns
  <1> USE DEF TypeInv, TypeOK, RowsOK, LedgerOK, EventsOK
  <1>1. RecordTxn(t, r) => recorded' \subseteq Txns
                           /\ owner' \in [Txns -> Requests \cup {NoRequest}]
    BY DEF RecordTxn
  <1>2. ApplyPlan(t, r) => alloc' \in [Txns -> [Charges -> Nat]]
    BY ConstantsAssumption DEF ApplyPlan, ConstantsAssumption
  <1>3. ApplyPlan(t, r) => chargeStatus' \in [Charges -> ChargeStatuses]
    <2>1. \A c \in Charges : StatusAfter(c, Plan[r][c]) \in ChargeStatuses
      BY DEF StatusAfter
    <2> QED
      BY <2>1 DEF ApplyPlan
  <1>4. EnsureReceipt(t) => receipts' \in [Txns -> Nat]
    BY DEF EnsureReceipt
  <1>5. ReleasedBook(r, t) \in
          [Requests -> [status : BookStatuses, txn : Txns \cup {NoTxn}]]
    BY DEF ReleasedBook
  <1>6. ReleaseBook(r, t) =>
          /\ book' \in [Requests -> [status : BookStatuses,
                                     txn : Txns \cup {NoTxn}]]
          /\ bookAttention' \subseteq Txns
    BY <1>5 DEF ReleaseBook
  <1> QED
    BY <1>1, <1>2, <1>3, <1>4, <1>5, <1>6

\* The status a request is marked with is a status.
LEMMA MarkOK ==
  ASSUME NEW r \in Requests, NEW status \in RequestStatuses, TypeInv,
         Mark(r, status)
  PROVE  request' \in [Requests -> RequestStatuses]
  BY DEF Mark, TypeInv, TypeOK, RowsOK

\* Every provider event a reconciling handler writes has a key of its own kind.
LEMMA KeyOK ==
  ASSUME NEW w \in Workers, TypeInv, Reconciling(w)
  PROVE  Key(w) \in EventKeys
  <1>1. work[w] \in Work /\ Shaped(work[w])
    BY DEF TypeInv, TypeOK, WorkOK, HandlersOK
  <1> QED
    BY <1>1 DEF Work, Shaped, Key, CallbackKey, EventKeys, Reconciling


\* One field of a record of work at a time.
LEMMA SetStage ==
  ASSUME NEW h \in Work, NEW s \in Stages
  PROVE  LET g == [h EXCEPT !.stage = s] IN
         /\ g \in Work /\ g.stage = s
         /\ g.op = h.op /\ g.req = h.req /\ g.sale = h.sale
         /\ g.reply = h.reply /\ g.body = h.body /\ g.outcome = h.outcome
  BY DEF Work

LEMMA SetOutcome ==
  ASSUME NEW h \in Work, NEW o \in Outcomes
  PROVE  LET g == [h EXCEPT !.outcome = o] IN
         /\ g \in Work /\ g.outcome = o
         /\ g.op = h.op /\ g.req = h.req /\ g.sale = h.sale
         /\ g.reply = h.reply /\ g.body = h.body /\ g.stage = h.stage
  BY DEF Work

LEMMA ConcludeOK ==
  ASSUME NEW w \in Workers, NEW outcome \in Outcomes, TypeInv, Reconciling(w),
         Conclude(w, outcome)
  PROVE  WorkOK' /\ HandlersOK'
  <1> DEFINE s == [work[w] EXCEPT !.stage = "persist"]
             p == [s EXCEPT !.outcome = outcome]
             h == IF work[w].op \in {"initiate", "recover"} THEN p ELSE Idle
  <1>1. work[w] \in Work /\ Shaped(work[w]) /\ WorkOK /\ HandlersOK
    BY DEF TypeInv, TypeOK, WorkOK, HandlersOK
  <1>2. /\ s \in Work /\ s.stage = "persist"
        /\ s.op = work[w].op /\ s.req = work[w].req /\ s.body = work[w].body
    BY <1>1, SetStage
  <1>3. work' = [work EXCEPT ![w] = h]
    BY DEF Conclude
  <1> HIDE DEF s
  <1>4. /\ p \in Work /\ p.stage = "persist" /\ p.outcome = outcome
        /\ p.op = work[w].op /\ p.req = work[w].req /\ p.body = work[w].body
    BY <1>2, SetOutcome
  <1> HIDE DEF p
  <1>5. h \in Work /\ Shaped(h)
    BY <1>1, <1>4, IdleOK DEF Shaped, Reconciling
  <1> HIDE DEF h
  <1> QED
    BY <1>1, <1>3, <1>5, SetWork

LEMMA SetSale ==
  ASSUME NEW h \in Work, NEW x \in SaleResults
  PROVE  LET g == [h EXCEPT !.sale = x] IN
         /\ g \in Work /\ g.sale = x
         /\ g.op = h.op /\ g.req = h.req /\ g.stage = h.stage
         /\ g.reply = h.reply /\ g.body = h.body /\ g.outcome = h.outcome
  BY DEF Work

LEMMA SetReply ==
  ASSUME NEW h \in Work, NEW y \in Replies \cup {"none"}
  PROVE  LET g == [h EXCEPT !.reply = y] IN
         /\ g \in Work /\ g.reply = y
         /\ g.op = h.op /\ g.req = h.req /\ g.stage = h.stage
         /\ g.sale = h.sale /\ g.body = h.body /\ g.outcome = h.outcome
  BY DEF Work

\* The records with which handlers begin.
LEMMA Claimed ==
  ASSUME NEW r \in Requests, NEW op \in {"hosted", "initiate", "recover"},
         NEW stage \in {"page", "sale", "query"},
         stage = "page" <=> op = "hosted", stage = "sale" => op = "initiate",
         stage = "query" => op = "recover"
  PROVE  LET h == [Idle EXCEPT !.op = op, !.req = r, !.stage = stage]
         IN  h \in Work /\ Shaped(h)
  BY DEF Idle, Work, Shaped

LEMMA ClaimedBody ==
  ASSUME NEW r \in Requests, NEW op \in {"callback", "recheck"},
         NEW body \in Bodies
  PROVE  LET h == [Idle EXCEPT !.op = op, !.req = r, !.body = body,
                               !.stage = "query"]
         IN  h \in Work /\ Shaped(h)
  BY DEF Idle, Work, Shaped

LEMMA ClaimedSnapshot ==
  ASSUME NEW r \in Requests, NEW fits \in BOOLEAN
  PROVE  LET h == [Idle EXCEPT !.op = "staff", !.req = r, !.stage = "insert",
                               !.fits = fits]
         IN  h \in Work /\ Shaped(h)
  BY DEF Idle, Work, Shaped

\* What a step does to the handlers, whichever step it is.
LEMMA WorkStep ==
  ASSUME TypeInv, [Next]_vars
  PROVE  WorkOK' /\ HandlersOK'
  <1> USE DEF TypeInv, TypeOK
  <1>1. ASSUME UNCHANGED work PROVE WorkOK' /\ HandlersOK'
    BY <1>1, PartsStay
  <1>2. ASSUME NEW w \in Workers, work' = [work EXCEPT ![w] = Idle]
        PROVE  WorkOK' /\ HandlersOK'
    BY <1>2, IdleOK, SetWork
  <1>3. ASSUME NEW w \in Workers, Begin(w) PROVE WorkOK' /\ HandlersOK'
    <2>1. ASSUME NEW r \in Requests, StaffSnapshot(w, r)
          PROVE  WorkOK' /\ HandlersOK'
      <3> DEFINE fits == \A c \in Planned(r) : Plan[r][c] <= Price[c] - Allocated(c)
                 h == [Idle EXCEPT !.op = "staff", !.req = r,
                                   !.stage = "insert", !.fits = fits]
      <3>1. fits \in BOOLEAN
        OBVIOUS
      <3>2. work' = [work EXCEPT ![w] = h]
        BY <2>1 DEF StaffSnapshot
      <3> HIDE DEF fits
      <3>3. h \in Work /\ Shaped(h)
        BY <3>1, ClaimedSnapshot
      <3> HIDE DEF h
      <3> QED
        BY <3>2, <3>3, SetWork
    <2>2. ASSUME NEW r \in Requests, NEW op \in {"hosted", "initiate", "recover"},
                 NEW stage \in {"page", "sale", "query"},
                 stage = "page" <=> op = "hosted",
                 stage = "sale" => op = "initiate",
                 stage = "query" => op = "recover",
                 work' = [work EXCEPT ![w] =
                            [Idle EXCEPT !.op = op, !.req = r, !.stage = stage]]
          PROVE  WorkOK' /\ HandlersOK'
      <3> DEFINE h == [Idle EXCEPT !.op = op, !.req = r, !.stage = stage]
      <3>1. h \in Work /\ Shaped(h)
        BY <2>2, Claimed
      <3>2. work' = [work EXCEPT ![w] = h]
        BY <2>2
      <3> HIDE DEF h
      <3> QED
        BY <3>1, <3>2, SetWork
    <2>3. ASSUME NEW r \in Requests, NEW op \in {"callback", "recheck"},
                 NEW body \in Bodies,
                 work' = [work EXCEPT ![w] =
                            [Idle EXCEPT !.op = op, !.req = r, !.body = body,
                                         !.stage = "query"]]
          PROVE  WorkOK' /\ HandlersOK'
      <3> DEFINE h == [Idle EXCEPT !.op = op, !.req = r, !.body = body,
                                   !.stage = "query"]
      <3>1. h \in Work /\ Shaped(h)
        BY <2>3, ClaimedBody
      <3>2. work' = [work EXCEPT ![w] = h]
        BY <2>3
      <3> HIDE DEF h
      <3> QED
        BY <3>1, <3>2, SetWork
    <2>4. ASSUME NEW r \in Requests, BeginHosted(w, r)
          PROVE  WorkOK' /\ HandlersOK'
      BY <2>4, <2>2 DEF BeginHosted
    <2>5. ASSUME NEW r \in Requests, BeginSale(w, r)
          PROVE  WorkOK' /\ HandlersOK'
      BY <2>5, <2>2 DEF BeginSale
    <2>6. ASSUME NEW r \in Requests, BeginRecover(w, r)
          PROVE  WorkOK' /\ HandlersOK'
      BY <2>6, <2>2 DEF BeginRecover
    <2>7. ASSUME NEW r \in Requests, BeginRecheck(w, r)
          PROVE  WorkOK' /\ HandlersOK'
      BY <2>7, <2>3 DEF BeginRecheck
    <2>8. ASSUME NEW notice \in notices, BeginCallback(w, notice)
          PROVE  WorkOK' /\ HandlersOK'
      <3>1. notice.req \in Requests /\ notice.body \in Bodies
        BY DEF OutsideOK
      <3> QED
        BY <2>8, <3>1, <2>3 DEF BeginCallback
    <2> QED
      BY <1>3, <2>1, <2>4, <2>5, <2>6, <2>7, <2>8 DEF Begin
  <1>4. ASSUME NEW w \in Workers, Proceed(w) PROVE WorkOK' /\ HandlersOK'
    <2>0. work[w] \in Work /\ Shaped(work[w])
      BY DEF WorkOK, HandlersOK
    <2>1. CASE StaffInsert(w)
      BY <2>1, <1>2 DEF StaffInsert
    <2>2. CASE OpenPage(w)
      <3>0. PICK sale \in SaleResults :
            work' = [work EXCEPT ![w] =
                       [@ EXCEPT !.stage = "finish", !.sale = sale]]
        BY <2>2 DEF OpenPage
      <3> HIDE DEF SaleResults
      <3> DEFINE g == [work[w] EXCEPT !.stage = "finish"]
                 h == [g EXCEPT !.sale = sale]
      <3>1. work' = [work EXCEPT ![w] = h]
        BY <3>0
      <3>2. g \in Work /\ g.stage = "finish" /\ g.op = work[w].op
            /\ g.req = work[w].req /\ g.body = work[w].body
        BY <2>0, SetStage
      <3> HIDE DEF g
      <3>3. h \in Work /\ h.stage = "finish" /\ h.op = work[w].op
            /\ h.req = work[w].req /\ h.body = work[w].body
        BY <3>2, SetSale
      <3> HIDE DEF h
      <3>4. Shaped(h)
        BY <2>0, <2>2, <3>3 DEF Shaped, OpenPage
      <3> QED
        BY <3>1, <3>3, <3>4, SetWork
    <2>3. CASE FinishHosted(w)
      BY <2>3, <1>2 DEF FinishHosted
    <2>4. CASE CallSale(w)
      <3>0. PICK sale \in SaleResults,
               stage \in {"query", "reconcile"}, reply \in Replies \cup {"none"} :
            /\ work' = [work EXCEPT ![w] = [@ EXCEPT !.sale = sale,
                          !.stage = stage, !.reply = reply]]
            /\ stage = "reconcile" => reply \in Replies
        BY <2>4 DEF CallSale
      <3>1. stage \in Stages
        OBVIOUS
      <3> HIDE DEF SaleResults, Stages
      <3> DEFINE f == [work[w] EXCEPT !.sale = sale]
                 g == [f EXCEPT !.stage = stage]
                 h == [g EXCEPT !.reply = reply]
      <3>2. work' = [work EXCEPT ![w] = h]
        BY <3>0
      <3>3. f \in Work /\ f.op = work[w].op /\ f.req = work[w].req
            /\ f.body = work[w].body
        BY <2>0, SetSale
      <3> HIDE DEF f
      <3>4. g \in Work /\ g.stage = stage /\ g.op = work[w].op
            /\ g.req = work[w].req /\ g.body = work[w].body
        BY <3>3, <3>1, SetStage
      <3> HIDE DEF g
      <3>5. h \in Work /\ h.stage = stage /\ h.op = work[w].op
            /\ h.req = work[w].req /\ h.body = work[w].body /\ h.reply = reply
        BY <3>4, SetReply
      <3> HIDE DEF h
      <3>6. work[w].op = "initiate"
        BY <2>0, <2>4 DEF Shaped, CallSale
      <3>7. Shaped(h)
        BY <2>0, <3>0, <3>5, <3>6 DEF Shaped
      <3> QED
        BY <3>2, <3>5, <3>7, SetWork
    <2>5. CASE QueryStatus(w)
      <3>1. PICK reply \in Answers(work[w].req) :
              work' = [work EXCEPT ![w] =
                IF work[w].op = "recheck" /\ reply \in FinalNonPayment THEN Idle
                ELSE [@ EXCEPT !.reply = reply, !.stage = "reconcile"]]
        BY <2>5 DEF QueryStatus
      <3>2. reply \in Replies
        BY DEF Answers
      <3> DEFINE g == [work[w] EXCEPT !.reply = reply]
                 p == [g EXCEPT !.stage = "reconcile"]
                 h == IF work[w].op = "recheck" /\ reply \in FinalNonPayment
                      THEN Idle ELSE p
      <3>3. work' = [work EXCEPT ![w] = h]
        BY <3>1
      <3>4. g \in Work /\ g.reply = reply /\ g.op = work[w].op
            /\ g.req = work[w].req /\ g.body = work[w].body
        BY <2>0, <3>2, SetReply
      <3> HIDE DEF g
      <3>5. p \in Work /\ p.stage = "reconcile" /\ p.reply = reply
            /\ p.op = work[w].op /\ p.req = work[w].req /\ p.body = work[w].body
        BY <3>4, SetStage
      <3> HIDE DEF p
      <3>6. h \in Work /\ Shaped(h)
        BY <2>0, <2>5, <3>2, <3>5, IdleOK DEF Shaped, QueryStatus
      <3> HIDE DEF h
      <3> QED
        BY <3>3, <3>6, SetWork
    <2>6. CASE Reconcile(w)
      BY <2>6, <1>2, ConcludeOK
         DEF Reconcile, ReconcileDuplicate, ReconcileOpen, ReconcileNonPayment,
             ReconcileMismatch, ReconcileSuccess, ReconcileRefused, NewEvent
    <2>7. CASE PersistOutcome(w)
      BY <2>7, <1>2 DEF PersistOutcome
    <2> QED
      BY <1>4, <2>1, <2>2, <2>3, <2>4, <2>5, <2>6, <2>7 DEF Proceed
  <1>5. ASSUME NEW w \in Workers, Crash(w) PROVE WorkOK' /\ HandlersOK'
    BY <1>5, <1>2 DEF Crash
  <1>6. ASSUME NEW r \in Requests,
               PortalRequest(r) \/ Register(r) \/ PayerActs(r) \/ TerminalResolves(r)
        PROVE  UNCHANGED work
    BY <1>6 DEF PortalRequest, Register, PayerActs, TerminalResolves
  <1>7. ASSUME NEW k, CollectManually(k) \/ PayRequestManually(k)
        PROVE  UNCHANGED work
    BY <1>7 DEF CollectManually, PayRequestManually
  <1>8. ASSUME NEW c, DueDatePasses(c) PROVE UNCHANGED work
    BY <1>8 DEF DueDatePasses
  <1>9. CASE UNCHANGED vars
    BY <1>9, <1>1 DEF vars
  <1> QED
    BY <1>1, <1>3, <1>4, <1>5, <1>6, <1>7, <1>8, <1>9 DEF Next

\* The transaction ids and keys of the model are transactions.
LEMMA KeysAreTxns ==
    /\ \A r \in Requests : ProviderId[r] \in Txns
    /\ \A k \in CollectKeys : k \in Txns
         /\ Collect[k].charge \in Charges /\ Collect[k].amount \in Nat \ {0}
    /\ \A k \in RequestKeys : k \in Txns /\ PayRequest[k] \in Requests
  BY ConstantsAssumption DEF ConstantsAssumption, Txns

\* The rows, the ledger, the events and the outside world keep their types.
LEMMA PartsStep ==
  ASSUME TypeInv, [Next]_vars
  PROVE  RowsOK' /\ LedgerOK' /\ EventsOK' /\ OutsideOK'
  <1> DEFINE Goal == RowsOK' /\ LedgerOK' /\ EventsOK' /\ OutsideOK'
  <1> USE DEF TypeInv, TypeOK
  <1>1. ASSUME NEW w \in Workers, Begin(w) PROVE Goal
    <2>1. UNCHANGED <<ledger, events, outside>>
      BY <1>1 DEF Begin, StaffSnapshot, BeginHosted, BeginSale, BeginRecover,
                  BeginRecheck, BeginCallback
    <2>2. RowsOK'
      <3>1. ASSUME NEW r \in Requests, BeginHosted(w, r) PROVE RowsOK'
        BY <3>1 DEF RowsOK, BeginHosted
      <3>2. ASSUME NEW r \in Requests, BeginSale(w, r) PROVE RowsOK'
        BY <3>2 DEF RowsOK, BeginSale
      <3>3. ASSUME NEW r \in Requests, StaffSnapshot(w, r) \/ BeginRecover(w, r)
                                         \/ BeginRecheck(w, r)
            PROVE  UNCHANGED rows
        BY <3>3 DEF StaffSnapshot, BeginRecover, BeginRecheck
      <3>4. ASSUME NEW notice \in notices, BeginCallback(w, notice)
            PROVE  UNCHANGED rows
        BY <3>4 DEF BeginCallback
      <3> QED
        BY <1>1, <3>1, <3>2, <3>3, <3>4, PartsStay DEF Begin
    <2> QED
      BY <2>1, <2>2, PartsStay
  <1>2. ASSUME NEW w \in Workers, StaffInsert(w) PROVE Goal
    <2>1. work[w].req \in Requests
      BY <1>2 DEF StaffInsert, HandlersOK, Shaped
    <2>2. RowsOK'
      BY <1>2, <2>1 DEF RowsOK, StaffInsert, NewRequest
    <2> QED
      BY <1>2, <2>2, PartsStay DEF StaffInsert
  <1>3. ASSUME NEW w \in Workers, OpenPage(w) PROVE Goal
    <2>0. work[w].req \in Requests
      BY <1>3 DEF HandlersOK, Shaped, OpenPage
    <2> DEFINE r == work[w].req
    <2>a. /\ pages' \in {pages, [pages EXCEPT ![r] = @ + 1]}
          /\ provider' \in {provider, [provider EXCEPT ![r] = "open"]}
          /\ UNCHANGED <<sales, notices>>
      BY <1>3 DEF OpenPage
    <2> HIDE DEF r
    <2>b. pages' \in [Requests -> Nat]
      BY <2>a DEF OutsideOK
    <2>c. provider' \in [Requests -> ProviderStates]
      BY <2>a DEF OutsideOK
    <2>1. OutsideOK'
      BY <2>a, <2>b, <2>c DEF OutsideOK
    <2> QED
      BY <1>3, <2>1, PartsStay DEF OpenPage
  <1>4. ASSUME NEW w \in Workers, FinishHosted(w) PROVE Goal
    <2>1. RowsOK'
      BY <1>4 DEF RowsOK, FinishHosted
    <2> QED
      BY <1>4, <2>1, PartsStay DEF FinishHosted
  <1>5. ASSUME NEW w \in Workers, CallSale(w) PROVE Goal
    <2> DEFINE r == work[w].req
    <2>a. PICK truth \in {"none", "pending"} \cup Captures(r)
                            \cup (NonPayment \ {"expired"}) :
            provider' = [provider EXCEPT ![r] = truth]
      BY <1>5 DEF CallSale
    <2>b. /\ sales' = [sales EXCEPT ![r] = @ + 1]
          /\ UNCHANGED <<pages, notices>>
      BY <1>5 DEF CallSale
    <2> HIDE DEF r
    <2>c. truth \in ProviderStates
      BY ConstantsAssumption DEF ConstantsAssumption, Captures
    <2>d. provider' \in [Requests -> ProviderStates]
      BY <2>a, <2>c DEF OutsideOK
    <2>e. sales' \in [Requests -> Nat]
      <3>1. \A q \in Requests : sales[q] + 1 \in Nat
        BY DEF OutsideOK
      <3>2. sales \in [Requests -> Nat]
        BY DEF OutsideOK
      <3> QED
        BY <2>b, <3>1, <3>2
    <2>1. OutsideOK'
      BY <2>b, <2>d, <2>e DEF OutsideOK
    <2> QED
      BY <1>5, <2>1, PartsStay DEF CallSale
  <1>6. ASSUME NEW w \in Workers, QueryStatus(w) \/ Crash(w) PROVE Goal
    BY <1>6, PartsStay DEF QueryStatus, Crash
  <1>7. ASSUME NEW w \in Workers, PersistOutcome(w) PROVE Goal
    <2>1. work[w].outcome \in Outcomes
      BY <1>7 DEF PersistOutcome, HandlersOK, Shaped
    <2>2. RowsOK'
      BY <1>7, <2>1 DEF RowsOK, PersistOutcome
    <2> QED
      BY <1>7, <2>2, PartsStay DEF PersistOutcome
  <1>8. ASSUME NEW w \in Workers, Reconcile(w) PROVE Goal
    <2>1. /\ Reconciling(w) /\ work[w].req \in Requests
          /\ work[w].reply \in Replies /\ Key(w) \in EventKeys
      <3>1. Reconciling(w)
        BY <1>8 DEF Reconcile, ReconcileDuplicate, ReconcileOpen, NewEvent,
                    ReconcileNonPayment, ReconcileMismatch, ReconcileSuccess,
                    ReconcileRefused
      <3>2. Shaped(work[w])
        BY DEF HandlersOK
      <3> QED
        BY <3>1, <3>2, KeyOK DEF Reconciling, Shaped
    <2>2. CASE ReconcileDuplicate(w) \/ ReconcileRefused(w)
      BY <2>2, PartsStay DEF ReconcileDuplicate, ReconcileRefused
    <2>3. CASE ReconcileOpen(w)
      <3>1. RowsOK'
        BY <2>1, <2>3, MarkOK DEF RowsOK, ReconcileOpen
      <3>2. EventsOK'
        BY <2>1, <2>3 DEF EventsOK, ReconcileOpen, Leave
      <3> QED
        BY <2>3, <3>1, <3>2, PartsStay DEF ReconcileOpen
    <2>4. CASE ReconcileNonPayment(w)
      <3>1. RowsOK'
        BY <2>1, <2>4, MarkOK DEF RowsOK, ReconcileNonPayment
      <3>2. EventsOK'
        BY <2>1, <2>4 DEF EventsOK, ReconcileNonPayment, Settle
      <3> QED
        BY <2>4, <3>1, <3>2, PartsStay DEF ReconcileNonPayment
    <2>5. CASE ReconcileMismatch(w)
      <3>1. EventsOK'
        BY <2>1, <2>5 DEF EventsOK, ReconcileMismatch, Leave
      <3> QED
        BY <2>5, <3>1, PartsStay DEF ReconcileMismatch
    <2>6. CASE ReconcileSuccess(w)
      <3>1. ProviderId[work[w].req] \in Txns
        BY <2>1, KeysAreTxns
      <3>2. RowsOK'
        BY <2>1, <2>6, <3>1, MarkOK, LedgerHelpers DEF RowsOK, ReconcileSuccess
      <3>3. LedgerOK'
        BY <2>1, <2>6, <3>1, LedgerHelpers DEF LedgerOK, ReconcileSuccess
      <3>4. EventsOK'
        BY <2>1, <2>6, <3>1, LedgerHelpers DEF EventsOK, ReconcileSuccess, Settle
      <3> QED
        BY <2>6, <3>2, <3>3, <3>4, PartsStay DEF ReconcileSuccess
    <2> QED
      BY <1>8, <2>2, <2>3, <2>4, <2>5, <2>6 DEF Reconcile
  <1>9. ASSUME NEW r \in Requests, PortalRequest(r) \/ Register(r) PROVE Goal
    <2>a. ASSUME PortalRequest(r) PROVE RowsOK'
      BY <2>a DEF RowsOK, PortalRequest, NewRequest
    <2>b. ASSUME Register(r) PROVE RowsOK'
      <3>1. book' \in [Requests -> [status : BookStatuses, txn : Txns \cup {NoTxn}]]
        BY <2>b DEF RowsOK, Register
      <3> QED
        BY <2>b, <3>1 DEF RowsOK, Register, NewRequest
    <2>1. RowsOK'
      BY <1>9, <2>a, <2>b
    <2> QED
      BY <1>9, <2>1, PartsStay DEF PortalRequest, Register
  <1>10. ASSUME NEW k \in CollectKeys, CollectManually(k) PROVE Goal
    <2>1. /\ k \in Txns /\ Collect[k].charge \in Charges
          /\ Collect[k].amount \in Nat
          /\ latest[Collect[k].charge] \in Requests \cup {NoRequest}
      BY KeysAreTxns DEF RowsOK
    <2>2. StatusAfter(Collect[k].charge, Collect[k].amount) \in ChargeStatuses
      BY DEF StatusAfter
    <2> DEFINE c == Collect[k].charge
               r == latest[c]
    <2>a. chargeStatus' \in [Charges -> ChargeStatuses]
      BY <1>10, <2>1, <2>2 DEF RowsOK, CollectManually
    <2>b. ASSUME PaysOff(k) PROVE RowsOK'
      <3>1. /\ request' = [request EXCEPT ![r] = "completed"]
            /\ book' = ReleasedBook(r, k)
            /\ UNCHANGED <<pastDue, latest, hosted, terminal>>
        BY <1>10, <2>b DEF CollectManually
      <3>2. r \in Requests
        BY <2>1, <2>b DEF PaysOff
      <3> HIDE DEF r
      <3>3. request' \in [Requests -> RequestStatuses]
        BY <3>1 DEF RowsOK
      <3>4. book' \in [Requests -> [status : BookStatuses, txn : Txns \cup {NoTxn}]]
        BY <2>1, <3>1, <3>2, LedgerHelpers
      <3> QED
        BY <2>a, <3>1, <3>3, <3>4 DEF RowsOK
    <2>c. ASSUME ~ PaysOff(k) PROVE RowsOK'
      <3>1. UNCHANGED <<pastDue, request, latest, hosted, terminal, book>>
        BY <1>10, <2>c DEF CollectManually
      <3> QED
        BY <2>a, <3>1 DEF RowsOK
    <2>3. RowsOK'
      BY <2>b, <2>c
    <2>4. LedgerOK'
      BY <1>10, <2>1 DEF LedgerOK, CollectManually, RecordTxn, EnsureReceipt
    <2> QED
      BY <1>10, <2>3, <2>4, PartsStay DEF CollectManually
  <1>11. ASSUME NEW k \in RequestKeys, PayRequestManually(k) PROVE Goal
    <2>1. k \in Txns /\ PayRequest[k] \in Requests
      BY KeysAreTxns
    <2> DEFINE r == PayRequest[k]
    <2>a. /\ ApplyPlan(k, r)
          /\ request' \in {request, [request EXCEPT ![r] = "completed"]}
          /\ book' \in {book, ReleasedBook(r, k)}
          /\ UNCHANGED <<pastDue, latest, hosted, terminal>>
      BY <1>11 DEF PayRequestManually
    <2>b. r \in Requests
      BY <2>1
    <2> HIDE DEF r
    <2>c. request' \in [Requests -> RequestStatuses]
      BY <2>a DEF RowsOK
    <2>d. chargeStatus' \in [Charges -> ChargeStatuses]
      BY <2>a, <2>b, <2>1, LedgerHelpers
    <2>e. book' \in [Requests -> [status : BookStatuses, txn : Txns \cup {NoTxn}]]
      BY <2>a, <2>b, <2>1, LedgerHelpers DEF RowsOK
    <2>2. RowsOK'
      BY <2>a, <2>c, <2>d, <2>e DEF RowsOK
    <2> USE DEF r
    <2>3. LedgerOK'
      BY <1>11, <2>1, LedgerHelpers DEF LedgerOK, PayRequestManually
    <2> QED
      BY <1>11, <2>2, <2>3, PartsStay DEF PayRequestManually
  <1>12. ASSUME NEW c \in Charges, DueDatePasses(c) PROVE Goal
    <2>1. RowsOK'
      BY <1>12 DEF RowsOK, DueDatePasses
    <2> QED
      BY <1>12, <2>1, PartsStay DEF DueDatePasses
  <1>13. ASSUME NEW r \in Requests, PayerActs(r) \/ TerminalResolves(r)
         PROVE  Goal
    <2>1. OutsideOK'
      BY <1>13, ConstantsAssumption
         DEF OutsideOK, PayerActs, TerminalResolves, Captures,
             ConstantsAssumption
    <2> QED
      BY <1>13, <2>1, PartsStay DEF PayerActs, TerminalResolves
  <1>14. CASE UNCHANGED vars
    BY <1>14, PartsStay DEF vars
  <1> QED
    BY <1>1, <1>2, <1>3, <1>4, <1>5, <1>6, <1>7, <1>8, <1>9, <1>10, <1>11,
       <1>12, <1>13, <1>14 DEF Next, Proceed

\* Every variable holds the values the code can give it, whatever the handlers,
\* the payers and the crashes do.
THEOREM TypeCorrect == Spec => []TypeOK
  <1>1. TypeInv /\ [Next]_vars => TypeInv'
    BY PartsStep, WorkStep DEF TypeInv, TypeOK
  <1>2. TypeInv => TypeOK
    BY DEF TypeInv
  <1> QED
    BY <1>1, <1>2, TypeInit, PTL DEF Spec

-----------------------------------------------------------------------------
(* The claims of handlers.                                                 *)

HIDE DEF OpenCharge, ChargeStatuses, Bodies, BookStatuses, ProviderStates

\* The handler is about to ask the payer for money.
Claiming(w) == work[w].stage \in {"page", "sale"}

\* The handler works on an attempt, its own or another's.
Underway(w) == work[w].stage \notin {"idle", "insert"}

BoundWork == \A w \in Workers : Underway(w) => Bound(work[w].req)

AskedOnce == \A r \in Requests : sales[r] + pages[r] <= 1

\* Without an attempt nobody was asked and no provider answer was applied.
Untouched ==
    \A r \in Requests : Unattempted(r) =>
        /\ sales[r] = 0 /\ pages[r] = 0
        /\ request[r] \in {"absent", "created", "completed"}

ClaimsHold ==
    \A w \in Workers : Claiming(w) =>
        sales[work[w].req] = 0 /\ pages[work[w].req] = 0

ClaimsAreSole ==
    \A v, w \in Workers :
        Claiming(v) /\ Claiming(w) /\ work[v].req = work[w].req => v = w

AttemptInv == BoundWork /\ AskedOnce /\ Untouched /\ ClaimsHold /\ ClaimsAreSole

LEMMA BoundIsAttempted == \A r : Bound(r) <=> ~ Unattempted(r)
  BY DEF Bound, Unattempted

LEMMA ShapedWork ==
  ASSUME TypeInv, NEW w \in Workers
  PROVE  work[w] \in Work /\ Shaped(work[w])
  BY DEF TypeInv, TypeOK, WorkOK, HandlersOK

LEMMA AttemptInit == Init => AttemptInv
  BY DEF Init, AttemptInv, BoundWork, AskedOnce, Untouched, ClaimsHold,
         ClaimsAreSole, Claiming, Underway, Idle

-----------------------------------------------------------------------------
\* A step of a handler that has begun: it asks no more once it has asked, and
\* it stays with its request until it is done.
Moves(w) ==
    /\ \A v \in Workers \ {w} : work'[v] = work[v]
    /\ ~ Claiming(w)' /\ work'[w].stage # "insert"
    /\ Underway(w)' => Underway(w) /\ work'[w].req = work[w].req

LEMMA IdleMoves ==
  ASSUME TypeInv, NEW w \in Workers, work' = [work EXCEPT ![w] = Idle]
  PROVE  Moves(w)
  BY DEF TypeInv, TypeOK, WorkOK, Moves, Claiming, Underway, Idle

LEMMA ChangeMoves ==
  ASSUME TypeInv, NEW w \in Workers, Underway(w), NEW h,
         work' = [work EXCEPT ![w] = h], h.req = work[w].req,
         h.stage \in Stages \ {"page", "sale", "insert"}
  PROVE  Moves(w)
  BY DEF TypeInv, TypeOK, WorkOK, Moves, Claiming, Underway

LEMMA ConcludeMoves ==
  ASSUME TypeInv, NEW w \in Workers, NEW outcome \in Outcomes, Reconciling(w),
         Conclude(w, outcome)
  PROVE  Moves(w)
  <1> DEFINE s == [work[w] EXCEPT !.stage = "persist"]
             h == [s EXCEPT !.outcome = outcome]
  <1>1. /\ s \in Work /\ s.stage = "persist" /\ s.req = work[w].req
    BY ShapedWork, SetStage
  <1>2. \/ work' = [work EXCEPT ![w] = h]
        \/ work' = [work EXCEPT ![w] = Idle]
    BY DEF Conclude
  <1> HIDE DEF s
  <1>3. h.stage = "persist" /\ h.req = work[w].req
    BY <1>1, SetOutcome
  <1> HIDE DEF h
  <1>4. Underway(w)
    BY DEF Reconciling, Underway
  <1> QED
    BY <1>2, <1>3, <1>4, IdleMoves, ChangeMoves

LEMMA ProceedMoves ==
  ASSUME TypeInv, NEW w \in Workers, Proceed(w)
  PROVE  Moves(w)
  <1>0. work[w] \in Work /\ Shaped(work[w])
    BY ShapedWork
  <1>1. CASE StaffInsert(w) \/ FinishHosted(w) \/ PersistOutcome(w)
    BY <1>1, IdleMoves DEF StaffInsert, FinishHosted, PersistOutcome
  <1>2. CASE OpenPage(w)
    <2>0. PICK sale \in SaleResults :
            work' = [work EXCEPT ![w] = [@ EXCEPT !.stage = "finish", !.sale = sale]]
      BY <1>2 DEF OpenPage
    <2> HIDE DEF SaleResults
    <2> DEFINE g == [work[w] EXCEPT !.stage = "finish"]
               h == [g EXCEPT !.sale = sale]
    <2>1. work' = [work EXCEPT ![w] = h]
      BY <2>0
    <2>2. g \in Work /\ g.stage = "finish" /\ g.req = work[w].req
      BY <1>0, SetStage
    <2> HIDE DEF g
    <2>3. h.stage = "finish" /\ h.req = work[w].req
      BY <2>2, SetSale
    <2> HIDE DEF h
    <2>4. Underway(w)
      BY <1>2 DEF OpenPage, Underway
    <2> QED
      BY <2>1, <2>3, <2>4, ChangeMoves
  <1>3. CASE CallSale(w)
    <2>0. PICK sale \in SaleResults, stage \in {"query", "reconcile"},
               reply \in Replies \cup {"none"} :
            work' = [work EXCEPT ![w] =
                       [@ EXCEPT !.sale = sale, !.stage = stage, !.reply = reply]]
      BY <1>3 DEF CallSale
    <2>a. stage \in Stages \ {"page", "sale", "insert"}
      OBVIOUS
    <2> HIDE DEF SaleResults, Stages
    <2> DEFINE f == [work[w] EXCEPT !.sale = sale]
               g == [f EXCEPT !.stage = stage]
               h == [g EXCEPT !.reply = reply]
    <2>1. work' = [work EXCEPT ![w] = h]
      BY <2>0
    <2>2. f \in Work /\ f.req = work[w].req
      BY <1>0, SetSale
    <2> HIDE DEF f
    <2>3. g \in Work /\ g.stage = stage /\ g.req = work[w].req
      BY <2>2, <2>a, SetStage
    <2> HIDE DEF g
    <2>4. h.stage = stage /\ h.req = work[w].req
      BY <2>3, SetReply
    <2> HIDE DEF h
    <2>5. Underway(w)
      BY <1>3 DEF CallSale, Underway
    <2> QED
      BY <2>1, <2>4, <2>5, <2>a, ChangeMoves
  <1>4. CASE QueryStatus(w)
    <2>0. PICK reply \in Replies :
            \/ work' = [work EXCEPT ![w] = Idle]
            \/ work' = [work EXCEPT ![w] =
                          [@ EXCEPT !.reply = reply, !.stage = "reconcile"]]
      BY <1>4 DEF QueryStatus, Answers
    <2> DEFINE g == [work[w] EXCEPT !.reply = reply]
               h == [g EXCEPT !.stage = "reconcile"]
    <2>1. g \in Work /\ g.req = work[w].req
      BY <1>0, SetReply
    <2>2. \/ work' = [work EXCEPT ![w] = Idle]
          \/ work' = [work EXCEPT ![w] = h]
      BY <2>0
    <2> HIDE DEF g
    <2>3. h.stage = "reconcile" /\ h.req = work[w].req
      BY <2>1, SetStage
    <2> HIDE DEF h
    <2>4. Underway(w)
      BY <1>4 DEF QueryStatus, Underway
    <2> QED
      BY <2>2, <2>3, <2>4, IdleMoves, ChangeMoves
  <1>5. CASE Reconcile(w)
    BY <1>5, IdleMoves, ConcludeMoves
       DEF Reconcile, ReconcileDuplicate, ReconcileOpen, ReconcileNonPayment,
           ReconcileMismatch, ReconcileSuccess, ReconcileRefused, NewEvent
  <1> QED
    BY <1>1, <1>2, <1>3, <1>4, <1>5 DEF Proceed

-----------------------------------------------------------------------------
\* A handler that begins claims a request nobody tried, or follows an attempt.
LEMMA BeginClaims ==
  ASSUME TypeInv, NEW w \in Workers, Begin(w)
  PROVE  /\ \A v \in Workers \ {w} : work'[v] = work[v]
         /\ UNCHANGED <<sales, pages>>
         /\ Underway(w)' =>
              /\ Bound(work[w].req)'
              /\ Claiming(w)' => Unattempted(work'[w].req)
  <1> DEFINE Goal == /\ \A v \in Workers \ {w} : work'[v] = work[v]
                     /\ UNCHANGED <<sales, pages>>
                     /\ Underway(w)' =>
                          /\ Bound(work[w].req)'
                          /\ Claiming(w)' => Unattempted(work'[w].req)
  <1> USE DEF TypeInv, TypeOK, WorkOK, outside
  <1>1. ASSUME NEW r \in Requests, StaffSnapshot(w, r) PROVE Goal
    <2>1. work'[w].stage = "insert"
      BY <1>1 DEF StaffSnapshot, Idle
    <2> QED
      BY <1>1, <2>1 DEF StaffSnapshot, Underway
  <1>2. ASSUME NEW r \in Requests, BeginHosted(w, r) PROVE Goal
    <2>1. work'[w].req = r /\ Bound(r)'
      BY <1>2 DEF BeginHosted, Idle, RowsOK, Bound
    <2> QED
      BY <1>2, <2>1 DEF BeginHosted, Bound
  <1>3. ASSUME NEW r \in Requests, BeginSale(w, r) PROVE Goal
    <2>1. work'[w].req = r /\ Bound(r)'
      BY <1>3 DEF BeginSale, Idle, RowsOK, Bound
    <2> QED
      BY <1>3, <2>1 DEF BeginSale, Bound
  <1>4. ASSUME NEW r \in Requests, BeginRecover(w, r) PROVE Goal
    <2>1. work'[w].req = r /\ Bound(r)' /\ work'[w].stage = "query"
      BY <1>4 DEF BeginRecover, Idle, Bound, rows
    <2> QED
      BY <1>4, <2>1 DEF BeginRecover, Claiming, Bound
  <1>5. ASSUME NEW r \in Requests, BeginRecheck(w, r) PROVE Goal
    <2>1. work'[w].req = r /\ Bound(r)' /\ work'[w].stage = "query"
      BY <1>5 DEF BeginRecheck, Idle, Bound, rows
    <2> QED
      BY <1>5, <2>1 DEF BeginRecheck, Claiming, Bound
  <1>6. ASSUME NEW notice \in notices, BeginCallback(w, notice) PROVE Goal
    <2>1. /\ work'[w].req = notice.req /\ Bound(notice.req)'
          /\ work'[w].stage = "query"
      BY <1>6 DEF BeginCallback, Idle, Bound, rows
    <2> QED
      BY <1>6, <2>1 DEF BeginCallback, Claiming, Bound
  <1> QED
    BY <1>1, <1>2, <1>3, <1>4, <1>5, <1>6 DEF Begin

\* An attempt is never forgotten.
LEMMA BoundStays ==
  ASSUME TypeInv, [Next]_vars, NEW r \in Requests, Bound(r)
  PROVE  Bound(r)'
  <1> USE DEF TypeInv, TypeOK, RowsOK, Bound, rows
  <1>1. ASSUME NEW w \in Workers, Begin(w) PROVE Bound(r)'
    BY <1>1 DEF Begin, StaffSnapshot, BeginHosted, BeginSale, BeginRecover,
                BeginRecheck, BeginCallback
  <1>2. ASSUME NEW w \in Workers, PersistOutcome(w) PROVE Bound(r)'
    <2>1. work[w].outcome \in Outcomes
      BY <1>2, ShapedWork DEF PersistOutcome, Shaped
    <2> QED
      BY <1>2, <2>1 DEF PersistOutcome
  <1>3. ASSUME NEW w \in Workers, FinishHosted(w) PROVE Bound(r)'
    BY <1>3 DEF FinishHosted
  <1>4. ASSUME NEW w \in Workers, StaffInsert(w) \/ OpenPage(w) \/ CallSale(w)
                                    \/ QueryStatus(w) \/ Crash(w)
        PROVE  UNCHANGED <<hosted, terminal>>
    BY <1>4 DEF StaffInsert, OpenPage, CallSale, QueryStatus, Crash
  <1>5. ASSUME NEW w \in Workers, Reconcile(w) PROVE UNCHANGED <<hosted, terminal>>
    BY <1>5 DEF Reconcile, ReconcileDuplicate, ReconcileOpen, ReconcileNonPayment,
                ReconcileMismatch, ReconcileSuccess, ReconcileRefused
  <1>6. ASSUME NEW q, \/ PortalRequest(q) \/ Register(q) \/ CollectManually(q)
                      \/ PayRequestManually(q) \/ DueDatePasses(q)
                      \/ PayerActs(q) \/ TerminalResolves(q)
        PROVE  UNCHANGED <<hosted, terminal>>
    BY <1>6 DEF PortalRequest, Register, CollectManually, PayRequestManually,
                DueDatePasses, PayerActs, TerminalResolves
  <1>7. CASE UNCHANGED vars
    BY <1>7 DEF vars
  <1> QED
    BY <1>1, <1>2, <1>3, <1>4, <1>5, <1>6, <1>7 DEF Next, Proceed

\* Only a claim asks the payer, and it asks once.
LEMMA AskedStep ==
  ASSUME TypeInv, NEW w \in Workers, Proceed(w)
  PROVE  \/ UNCHANGED <<sales, pages>>
         \/ /\ Claiming(w) /\ work[w].req \in Requests
            /\ \A r \in Requests : r # work[w].req =>
                 sales'[r] = sales[r] /\ pages'[r] = pages[r]
            /\ LET r == work[w].req IN
                 sales'[r] + pages'[r] = sales[r] + pages[r] + 1
  <1> USE DEF TypeInv, TypeOK, OutsideOK, outside
  <1>0. Shaped(work[w])
    BY ShapedWork
  <1>1. CASE OpenPage(w)
    <2> DEFINE r == work[w].req
    <2>1. /\ pages' \in {pages, [pages EXCEPT ![r] = @ + 1]} /\ UNCHANGED sales
          /\ Claiming(w) /\ r \in Requests
      BY <1>0, <1>1 DEF OpenPage, Claiming, Shaped
    <2> HIDE DEF r
    <2>2. CASE pages' = pages
      BY <2>1, <2>2
    <2>3. CASE pages' = [pages EXCEPT ![r] = @ + 1]
      <3>1. sales'[r] + pages'[r] = sales[r] + pages[r] + 1
        <4>1. sales[r] \in Nat /\ pages[r] \in Nat /\ sales'[r] = sales[r]
          BY <2>1
        <4>2. pages'[r] = pages[r] + 1
          BY <2>1, <2>3
        <4> QED
          BY <4>1, <4>2
      <3> QED
        BY <2>1, <2>3, <3>1 DEF r
    <2> QED
      BY <2>1, <2>2, <2>3
  <1>2. CASE CallSale(w)
    <2> DEFINE r == work[w].req
    <2>1. /\ sales' = [sales EXCEPT ![r] = @ + 1] /\ UNCHANGED pages
          /\ Claiming(w) /\ r \in Requests
      BY <1>0, <1>2 DEF CallSale, Claiming, Shaped
    <2> HIDE DEF r
    <2>2. sales'[r] + pages'[r] = sales[r] + pages[r] + 1
      <3>1. sales[r] \in Nat /\ pages[r] \in Nat /\ pages'[r] = pages[r]
        BY <2>1
      <3>2. sales'[r] = sales[r] + 1
        BY <2>1
      <3> QED
        BY <3>1, <3>2
    <2> QED
      BY <2>1, <2>2 DEF r
  <1>3. CASE StaffInsert(w) \/ FinishHosted(w) \/ QueryStatus(w) \/ PersistOutcome(w)
    BY <1>3 DEF StaffInsert, FinishHosted, QueryStatus, PersistOutcome
  <1>4. CASE Reconcile(w)
    BY <1>4 DEF Reconcile, ReconcileDuplicate, ReconcileOpen, ReconcileNonPayment,
                ReconcileMismatch, ReconcileSuccess, ReconcileRefused
  <1> QED
    BY <1>1, <1>2, <1>3, <1>4 DEF Proceed

-----------------------------------------------------------------------------
\* How the status of a request may change in a step.
Closes(r) ==
    /\ request[r] \in {"created", "pending"}
    /\ request'[r] \in {"pending"} \cup FinalNonPayment
    /\ Bound(r)

Claims(r) ==
    /\ Unattempted(r) /\ Bound(r)' /\ request[r] \notin {"absent", "completed"}
    /\ request'[r] = "pending"

StatusStep(r) ==
    \/ request'[r] = request[r]
    \/ request[r] = "absent" /\ request'[r] = "created"
    \/ Claims(r) \/ Closes(r)
    \/ request[r] # "absent" /\ request'[r] = "completed"

LEMMA MarkStep ==
  ASSUME TypeInv, NEW q \in Requests, NEW status \in RequestStatuses,
         Mark(q, status), NEW r \in Requests
  PROVE  \/ request'[r] = request[r]
         \/ r = q /\ request[r] \in MarkFrom(status) /\ request'[r] = status
  BY DEF Mark, TypeInv, TypeOK, RowsOK

LEMMA ReconcileStatus ==
  ASSUME TypeInv, BoundWork, NEW w \in Workers, Reconcile(w), NEW r \in Requests
  PROVE  StatusStep(r)
  <1> DEFINE q == work[w].req
  <1>1. Reconciling(w) /\ q \in Requests /\ work[w].reply \in Replies /\ Bound(q)
    <2>1. Reconciling(w)
      BY DEF Reconcile, ReconcileDuplicate, ReconcileOpen, ReconcileNonPayment,
             ReconcileMismatch, ReconcileSuccess, ReconcileRefused, NewEvent
    <2> QED
      BY <2>1, ShapedWork DEF Reconciling, Shaped, BoundWork, Underway
  <1>2. CASE ReconcileDuplicate(w) \/ ReconcileRefused(w) \/ ReconcileMismatch(w)
    BY <1>2 DEF ReconcileDuplicate, ReconcileRefused, ReconcileMismatch,
                StatusStep, rows
  <1>3. CASE ReconcileOpen(w)
    <2>1. Mark(q, "pending")
      BY <1>3 DEF ReconcileOpen
    <2> HIDE DEF q
    <2>2. \/ request'[r] = request[r]
          \/ r = q /\ request[r] \in {"created", "pending"} /\ request'[r] = "pending"
      BY <1>1, <2>1, MarkStep DEF MarkFrom
    <2> QED
      BY <1>1, <2>2 DEF StatusStep, Closes
  <1>4. CASE ReconcileNonPayment(w)
    <2>1. Mark(q, work[w].reply) /\ work[w].reply \in FinalNonPayment
      BY <1>4 DEF ReconcileNonPayment
    <2> HIDE DEF q
    <2>2. \/ request'[r] = request[r]
          \/ /\ r = q /\ request[r] \in {"created", "pending"}
             /\ request'[r] \in FinalNonPayment
      BY <1>1, <2>1, MarkStep DEF MarkFrom
    <2> QED
      BY <1>1, <2>2 DEF StatusStep, Closes
  <1>5. CASE ReconcileSuccess(w)
    <2>1. Mark(q, "completed")
      BY <1>5 DEF ReconcileSuccess
    <2> HIDE DEF q
    <2>2. \/ request'[r] = request[r]
          \/ request[r] # "absent" /\ request'[r] = "completed"
      BY <1>1, <2>1, MarkStep DEF MarkFrom
    <2> QED
      BY <2>2 DEF StatusStep
  <1> QED
    BY <1>2, <1>3, <1>4, <1>5 DEF Reconcile

\* The linked request of a charge exists.
LatestExists ==
    \A c \in Charges : latest[c] \in Requests => request[latest[c]] # "absent"

LEMMA RequestStep ==
  ASSUME TypeInv, BoundWork, LatestExists, [Next]_vars, NEW r \in Requests
  PROVE  StatusStep(r)
  <1> USE DEF TypeInv, TypeOK, RowsOK
  <1>1. ASSUME NEW w \in Workers, NEW q \in Requests, BeginHosted(w, q)
        PROVE  StatusStep(r)
    BY <1>1 DEF BeginHosted, StatusStep, Claims, Bound
  <1>2. ASSUME NEW w \in Workers, NEW q \in Requests, BeginSale(w, q)
        PROVE  StatusStep(r)
    BY <1>2 DEF BeginSale, StatusStep, Claims, Bound
  <1>3. ASSUME NEW w, NEW q, \/ StaffSnapshot(w, q) \/ BeginRecover(w, q)
                             \/ BeginRecheck(w, q) \/ BeginCallback(w, q)
        PROVE  StatusStep(r)
    BY <1>3 DEF StaffSnapshot, BeginRecover, BeginRecheck, BeginCallback, rows,
                StatusStep
  <1>4. ASSUME NEW w \in Workers, StaffInsert(w) PROVE StatusStep(r)
    BY <1>4 DEF StaffInsert, NewRequest, StatusStep
  <1>5. ASSUME NEW w \in Workers, \/ OpenPage(w) \/ FinishHosted(w) \/ CallSale(w)
                                  \/ QueryStatus(w) \/ PersistOutcome(w) \/ Crash(w)
        PROVE  StatusStep(r)
    BY <1>5 DEF OpenPage, FinishHosted, CallSale, QueryStatus, PersistOutcome,
                Crash, rows, StatusStep
  <1>6. ASSUME NEW w \in Workers, Reconcile(w) PROVE StatusStep(r)
    BY <1>6, ReconcileStatus
  <1>7. ASSUME NEW q \in Requests, PortalRequest(q) \/ Register(q)
        PROVE  StatusStep(r)
    BY <1>7 DEF PortalRequest, Register, NewRequest, StatusStep
  <1>8. ASSUME NEW k \in CollectKeys, CollectManually(k) PROVE StatusStep(r)
    <2>1. Collect[k].charge \in Charges
      BY KeysAreTxns
    <2>2. CASE PaysOff(k)
      <3> DEFINE q == latest[Collect[k].charge]
      <3>1. q \in Requests /\ request[q] # "absent"
        BY <2>1, <2>2 DEF PaysOff, LatestExists
      <3>2. request' = [request EXCEPT ![q] = "completed"]
        BY <1>8, <2>2 DEF CollectManually
      <3> HIDE DEF q
      <3> QED
        BY <3>1, <3>2 DEF StatusStep
    <2>3. CASE ~ PaysOff(k)
      BY <1>8, <2>3 DEF CollectManually, StatusStep
    <2> QED
      BY <2>2, <2>3
  <1>9. ASSUME NEW k \in RequestKeys, PayRequestManually(k) PROVE StatusStep(r)
    <2> DEFINE q == PayRequest[k]
    <2>1. q \in Requests
      BY KeysAreTxns
    <2>2. \/ UNCHANGED request
          \/ request[q] = "created" /\ request' = [request EXCEPT ![q] = "completed"]
      BY <1>9 DEF PayRequestManually
    <2> HIDE DEF q
    <2> QED
      BY <2>1, <2>2 DEF StatusStep
  <1>10. ASSUME NEW q, DueDatePasses(q) \/ PayerActs(q) \/ TerminalResolves(q)
         PROVE  StatusStep(r)
    BY <1>10 DEF DueDatePasses, PayerActs, TerminalResolves, rows, StatusStep
  <1>11. CASE UNCHANGED vars
    BY <1>11 DEF vars, rows, StatusStep
  <1> QED
    BY <1>1, <1>2, <1>3, <1>4, <1>5, <1>6, <1>7, <1>8, <1>9, <1>10, <1>11
       DEF Next, Begin, Proceed

\* A charge is linked to the request that was just created for it.
LEMMA LatestStep ==
  ASSUME TypeInv, [Next]_vars, NEW c \in Charges
  PROVE  \/ latest'[c] = latest[c]
         \/ \E r \in Requests :
              latest'[c] = r /\ LinkedTo(r, c) /\ request'[r] = "created"
  <1> USE DEF TypeInv, TypeOK, RowsOK
  <1>1. ASSUME NEW w \in Workers, Begin(w) PROVE UNCHANGED latest
    BY <1>1 DEF Begin, StaffSnapshot, BeginHosted, BeginSale, BeginRecover,
                BeginRecheck, BeginCallback, rows
  <1>2. ASSUME NEW r \in Requests, NewRequest(r)
        PROVE  \/ latest'[c] = latest[c]
               \/ latest'[c] = r /\ LinkedTo(r, c) /\ request'[r] = "created"
    BY <1>2 DEF NewRequest
  <1>3. ASSUME NEW w \in Workers, StaffInsert(w)
        PROVE  UNCHANGED latest \/ \E r \in Requests : NewRequest(r)
    <2>1. work[w].req \in Requests
      BY <1>3, ShapedWork DEF StaffInsert, Shaped
    <2> QED
      BY <1>3, <2>1 DEF StaffInsert
  <1>4. ASSUME NEW w \in Workers, \/ OpenPage(w) \/ FinishHosted(w) \/ CallSale(w)
                                  \/ QueryStatus(w) \/ PersistOutcome(w) \/ Crash(w)
        PROVE  UNCHANGED latest
    BY <1>4 DEF OpenPage, FinishHosted, CallSale, QueryStatus, PersistOutcome,
                Crash, rows
  <1>5. ASSUME NEW w \in Workers, Reconcile(w) PROVE UNCHANGED latest
    BY <1>5 DEF Reconcile, ReconcileDuplicate, ReconcileOpen, ReconcileNonPayment,
                ReconcileMismatch, ReconcileSuccess, ReconcileRefused, rows
  <1>6. ASSUME NEW r \in Requests, PortalRequest(r) \/ Register(r)
        PROVE  NewRequest(r)
    BY <1>6 DEF PortalRequest, Register
  <1>7. ASSUME NEW q, \/ CollectManually(q) \/ PayRequestManually(q)
                      \/ DueDatePasses(q) \/ PayerActs(q) \/ TerminalResolves(q)
        PROVE  UNCHANGED latest
    BY <1>7 DEF CollectManually, PayRequestManually, DueDatePasses, PayerActs,
                TerminalResolves, rows
  <1>8. CASE UNCHANGED vars
    BY <1>8 DEF vars, rows
  <1> QED
    BY <1>1, <1>2, <1>3, <1>4, <1>5, <1>6, <1>7, <1>8 DEF Next, Proceed

LEMMA LatestExistsStep ==
  ASSUME TypeInv, BoundWork, LatestExists, [Next]_vars
  PROVE  LatestExists'
  <1> SUFFICES ASSUME NEW c \in Charges, latest'[c] \in Requests
               PROVE  request'[latest'[c]] # "absent"
    BY DEF LatestExists
  <1>1. CASE latest'[c] = latest[c]
    <2>1. latest[c] \in Requests /\ request[latest[c]] # "absent"
      BY <1>1 DEF LatestExists
    <2>2. StatusStep(latest[c])
      BY <2>1, RequestStep
    <2> QED
      BY <1>1, <2>1, <2>2 DEF StatusStep, Claims, Closes
  <1> QED
    BY <1>1, LatestStep

\* The other steps neither begin nor continue the work of a handler.
LEMMA OtherSteps ==
  ASSUME TypeInv, [Next]_vars
  PROVE  \/ \E w \in Workers : Begin(w)
         \/ \E w \in Workers : Proceed(w)
         \/ \E w \in Workers : Moves(w) /\ UNCHANGED <<sales, pages>>
         \/ UNCHANGED <<work, sales, pages>>
  <1>1. ASSUME NEW w \in Workers, Crash(w)
        PROVE  Moves(w) /\ UNCHANGED <<sales, pages>>
    BY <1>1, IdleMoves DEF Crash, outside
  <1>2. ASSUME NEW q, \/ PortalRequest(q) \/ Register(q) \/ CollectManually(q)
                      \/ PayRequestManually(q) \/ DueDatePasses(q)
                      \/ PayerActs(q) \/ TerminalResolves(q)
        PROVE  UNCHANGED <<work, sales, pages>>
    BY <1>2 DEF PortalRequest, Register, CollectManually, PayRequestManually,
                DueDatePasses, PayerActs, TerminalResolves, outside
  <1>3. CASE UNCHANGED vars
    BY <1>3 DEF vars, outside
  <1> QED
    BY <1>1, <1>2, <1>3 DEF Next

-----------------------------------------------------------------------------
\* The claims of handlers are inductive.
LEMMA BoundWorkStep ==
  ASSUME TypeInv, TypeInv', BoundWork, [Next]_vars
  PROVE  BoundWork'
  <1> SUFFICES ASSUME NEW v \in Workers, Underway(v)'
               PROVE  Bound(work[v].req)'
    BY DEF BoundWork
  <1>0. ASSUME Underway(v), work'[v].req = work[v].req
        PROVE  Bound(work[v].req)'
    <2>1. work[v].req \in Requests /\ Bound(work[v].req)
      BY <1>0, ShapedWork DEF BoundWork, Underway, Shaped
    <2>2. PICK q \in Requests : q = work[v].req
      BY <2>1
    <2>3. Bound(q)
      BY <2>1, <2>2 DEF Bound
    <2>4. Bound(q)'
      BY <2>3, BoundStays
    <2> QED
      BY <1>0, <2>2, <2>4 DEF Bound
  <1>1. CASE \E w \in Workers : Begin(w)
    <2> PICK w \in Workers : Begin(w)
      BY <1>1
    <2>1. CASE v = w
      BY <2>1, BeginClaims
    <2>2. CASE v # w
      BY <2>2, <1>0, BeginClaims DEF Underway
    <2> QED
      BY <2>1, <2>2
  <1>2. CASE \E w \in Workers : Moves(w)
    BY <1>2, <1>0 DEF Moves, Underway
  <1>3. CASE UNCHANGED work
    BY <1>3, <1>0 DEF Underway
  <1> QED
    BY <1>1, <1>2, <1>3, OtherSteps, ProceedMoves

LEMMA UntouchedStep ==
  ASSUME TypeInv, AttemptInv, LatestExists, [Next]_vars
  PROVE  Untouched'
  <1> SUFFICES ASSUME NEW r \in Requests, Unattempted(r)'
               PROVE  /\ sales'[r] = 0 /\ pages'[r] = 0
                      /\ request'[r] \in {"absent", "created", "completed"}
    BY DEF Untouched
  <1>1. Unattempted(r) /\ ~ Bound(r) /\ ~ Bound(r)'
    <2>1. ~ Bound(r)'
      BY DEF Bound, Unattempted
    <2> QED
      BY <2>1, BoundStays, BoundIsAttempted
  <1>2. /\ sales[r] = 0 /\ pages[r] = 0
        /\ request[r] \in {"absent", "created", "completed"}
    BY <1>1 DEF AttemptInv, Untouched
  <1>3. request'[r] \in {"absent", "created", "completed"}
    <2>1. StatusStep(r)
      BY RequestStep DEF AttemptInv
    <2> QED
      BY <1>1, <1>2, <2>1 DEF StatusStep, Claims, Closes
  <1>4. sales'[r] = 0 /\ pages'[r] = 0
    <2>1. ASSUME NEW w \in Workers, Proceed(w)
          PROVE  sales'[r] = sales[r] /\ pages'[r] = pages[r]
      <3>1. ~ (Claiming(w) /\ work[w].req = r)
        BY <1>1 DEF AttemptInv, BoundWork, Claiming, Underway
      <3> QED
        BY <2>1, <3>1, AskedStep
    <2>2. CASE UNCHANGED <<sales, pages>>
      BY <1>2, <2>2
    <2> QED
      BY <1>2, <2>1, <2>2, OtherSteps, BeginClaims
  <1> QED
    BY <1>3, <1>4

\* Who claims after a step claimed before it, or claims what nobody tried.
LEMMA ClaimStep ==
  ASSUME TypeInv, [Next]_vars, NEW v \in Workers, Claiming(v)'
  PROVE  \/ Claiming(v) /\ work'[v] = work[v]
         \/ /\ Unattempted(work'[v].req) /\ UNCHANGED <<sales, pages>>
            /\ \A u \in Workers \ {v} : work'[u] = work[u]
  <1>1. ASSUME NEW w \in Workers, Begin(w)
        PROVE  \/ Claiming(v) /\ work'[v] = work[v]
               \/ /\ Unattempted(work'[v].req) /\ UNCHANGED <<sales, pages>>
                  /\ \A u \in Workers \ {v} : work'[u] = work[u]
    <2>1. CASE v = w
      BY <1>1, <2>1, BeginClaims DEF Claiming, Underway
    <2>2. CASE v # w
      BY <1>1, <2>2, BeginClaims DEF Claiming
    <2> QED
      BY <2>1, <2>2
  <1>2. ASSUME NEW w \in Workers, Moves(w)
        PROVE  Claiming(v) /\ work'[v] = work[v]
    BY <1>2 DEF Moves, Claiming
  <1>3. CASE UNCHANGED work
    BY <1>3 DEF Claiming
  <1> QED
    BY <1>1, <1>2, <1>3, OtherSteps, ProceedMoves

LEMMA ClaimsHoldStep ==
  ASSUME TypeInv, TypeInv', AttemptInv, [Next]_vars
  PROVE  ClaimsHold'
  <1> SUFFICES ASSUME NEW v \in Workers, Claiming(v)'
               PROVE  sales'[work'[v].req] = 0 /\ pages'[work'[v].req] = 0
    BY DEF ClaimsHold
  <1>1. PICK r \in Requests : r = work'[v].req
    <2>1. Shaped(work[v])'
      BY DEF TypeInv, HandlersOK
    <2> QED
      BY <2>1 DEF Claiming, Shaped
  <1>2. CASE Claiming(v) /\ work'[v] = work[v]
    <2>1. sales[r] = 0 /\ pages[r] = 0 /\ work[v].req = r
      BY <1>1, <1>2 DEF AttemptInv, ClaimsHold
    <2>2. ASSUME NEW w \in Workers, Proceed(w)
          PROVE  sales'[r] = sales[r] /\ pages'[r] = pages[r]
      <3>1. w # v
        BY <1>2, <2>2, ProceedMoves DEF Moves, Claiming
      <3>2. ~ (Claiming(w) /\ work[w].req = r)
        BY <1>2, <2>1, <3>1 DEF AttemptInv, ClaimsAreSole
      <3> QED
        BY <2>2, <3>2, AskedStep
    <2> QED
      BY <1>1, <2>1, <2>2, OtherSteps, BeginClaims
  <1>3. CASE Unattempted(work'[v].req) /\ UNCHANGED <<sales, pages>>
    BY <1>1, <1>3 DEF AttemptInv, Untouched
  <1> QED
    BY <1>2, <1>3, ClaimStep

LEMMA ClaimsAreSoleStep ==
  ASSUME TypeInv, AttemptInv, [Next]_vars
  PROVE  ClaimsAreSole'
  <1> SUFFICES ASSUME NEW v \in Workers, NEW u \in Workers, Claiming(v)',
                      Claiming(u)', work'[v].req = work'[u].req
               PROVE  v = u
    BY DEF ClaimsAreSole
  <1>1. ASSUME NEW x \in Workers, NEW y \in Workers, x # y,
               Claiming(x)', Claiming(y)', work'[x].req = work'[y].req,
               Unattempted(work'[x].req),
               \A w \in Workers \ {x} : work'[w] = work[w]
        PROVE  FALSE
    <2>1. Claiming(y) /\ work[y].req = work'[x].req
      BY <1>1 DEF Claiming
    <2>2. Bound(work[y].req)
      BY <2>1 DEF AttemptInv, BoundWork, Claiming, Underway
    <2> QED
      BY <1>1, <2>1, <2>2 DEF Bound, Unattempted
  <1>2. CASE /\ Claiming(v) /\ work'[v] = work[v]
             /\ Claiming(u) /\ work'[u] = work[u]
    BY <1>2 DEF AttemptInv, ClaimsAreSole
  <1> QED
    BY <1>1, <1>2, ClaimStep

LEMMA AskedOnceStep ==
  ASSUME TypeInv, AttemptInv, [Next]_vars
  PROVE  AskedOnce'
  <1> SUFFICES ASSUME NEW r \in Requests PROVE sales'[r] + pages'[r] <= 1
    BY DEF AskedOnce
  <1>1. sales[r] + pages[r] <= 1
    BY DEF AttemptInv, AskedOnce
  <1>2. ASSUME NEW w \in Workers, Proceed(w) PROVE sales'[r] + pages'[r] <= 1
    <2>1. CASE UNCHANGED <<sales, pages>>
      BY <1>1, <2>1
    <2>2. CASE /\ Claiming(w)
               /\ \A q \in Requests : q # work[w].req =>
                    sales'[q] = sales[q] /\ pages'[q] = pages[q]
               /\ LET q == work[w].req IN
                    sales'[q] + pages'[q] = sales[q] + pages[q] + 1
      <3>1. CASE r = work[w].req
        BY <2>2, <3>1 DEF AttemptInv, ClaimsHold
      <3>2. CASE r # work[w].req
        BY <1>1, <2>2, <3>2
      <3> QED
        BY <3>1, <3>2
    <2> QED
      BY <1>2, <2>1, <2>2, AskedStep
  <1>3. CASE UNCHANGED <<sales, pages>>
    BY <1>1, <1>3
  <1> QED
    BY <1>2, <1>3, OtherSteps, BeginClaims

-----------------------------------------------------------------------------
ProtocolInv == TypeInv /\ AttemptInv /\ LatestExists

LEMMA ProtocolInductive ==
    /\ Init => ProtocolInv
    /\ ProtocolInv /\ [Next]_vars => ProtocolInv'
  <1>1. Init => ProtocolInv
    <2>1. Init => LatestExists
      BY ConstantsAssumption DEF Init, LatestExists, ConstantsAssumption
    <2> QED
      BY <2>1, TypeInit, AttemptInit DEF ProtocolInv
  <1>2. ProtocolInv /\ [Next]_vars => TypeInv'
    BY PartsStep, WorkStep DEF ProtocolInv, TypeInv, TypeOK
  <1>3. ProtocolInv /\ [Next]_vars => AttemptInv'
    BY <1>2, BoundWorkStep, UntouchedStep, ClaimsHoldStep, ClaimsAreSoleStep,
       AskedOnceStep DEF ProtocolInv, AttemptInv
  <1>4. ProtocolInv /\ [Next]_vars => LatestExists'
    BY LatestExistsStep DEF ProtocolInv, AttemptInv
  <1> QED
    BY <1>1, <1>2, <1>3, <1>4 DEF ProtocolInv

\* However many handlers begin, crash and retry, the provider is asked for the
\* money of a request once: createHostedCollectionLink and loadAndMarkAttempt
\* commit the claim before they call, and refuse a request that has one.
THEOREM AskedAtMostOnce == Spec => []OneProviderAttempt
  <1>1. ProtocolInv => OneProviderAttempt
    BY DEF ProtocolInv, AttemptInv, AskedOnce, OneProviderAttempt
  <1> QED
    BY <1>1, ProtocolInductive, PTL DEF Spec

\* No answer that arrives late takes a completed request back, and a request
\* that failed, was canceled or expired is reopened by nothing but its payment.
THEOREM StatusNeverRegresses == Spec => NeverRegresses
  <1>1. ProtocolInv /\ [Next]_vars =>
          \A r \in Requests :
            /\ request[r] = "completed" => request'[r] = "completed"
            /\ request[r] \in FinalNonPayment =>
                 request'[r] \in {request[r], "completed"}
    <2> SUFFICES ASSUME ProtocolInv, [Next]_vars, NEW r \in Requests
                 PROVE  /\ request[r] = "completed" => request'[r] = "completed"
                        /\ request[r] \in FinalNonPayment =>
                             request'[r] \in {request[r], "completed"}
      OBVIOUS
    <2>1. StatusStep(r)
      BY RequestStep DEF ProtocolInv, AttemptInv
    <2>2. Unattempted(r) => request[r] \in {"absent", "created", "completed"}
      BY DEF ProtocolInv, AttemptInv, Untouched
    <2> QED
      BY <2>1, <2>2 DEF StatusStep, Claims, Closes
  <1> QED
    BY <1>1, ProtocolInductive, PTL DEF Spec, NeverRegresses
=============================================================================
