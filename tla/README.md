# AIT CRM in TLA+

AIT CRM is a Next.js application over PostgreSQL: contacts, leads, tasks,
classes, enrolments, communications and payments of several business units.
Everything concurrent in it is a request handler of some server process that
runs short database transactions and calls external providers between them.
This directory holds models of the parts whose interleavings, crashes and late
answers are hard to test, the TLC runs that check them and the proofs that go
beyond the instances TLC can enumerate.

Paths below are relative to the repository root.

## 1. Inventory

| Component | State it keeps | Operations | What is hard, and what makes it correct |
| --- | --- | --- | --- |
| Payment requests and reconciliation (`src/lib/payments`, `src/lib/collections`, `src/lib/portal-payments`) | `payment_requests`, `payment_provider_events`, the attempts in `metadata_json` | create a request (staff, portal, registration), hosted link, terminal sale and recovery, callback, recheck, manual payments | provider calls between two transactions; crashes there; callbacks late, repeated, reordered; a payer is charged once, a capture is booked once and whole, completed never regresses |
| Billing ledger (`src/lib/billing-ledger`) | `student_charges`, `provider_transactions`, `payment_allocations`, receipts in `documents` | record a transaction, allocate it to a charge | several payments for one charge; never more than the balance, status agrees with the allocations |
| Registration (`src/lib/registration`) | contacts, enrolments, charges, a request, a book | public and staff registration, replay by key | idempotent bundle; placement link used once |
| Book fulfilment (`src/lib/fulfillment`) | `book_fulfillments` | create, release by payment, work the list | released exactly with the money; concurrent edits detected by timestamp |
| Tuition charges (`src/lib/collections/tuition-service.js`) | tuition charges and their pricing audit | create, adjust | adjusting a charge a payer was already asked for |
| Attendance (`src/lib/attendance`, `src/components/ActiveClassesWorkspace.js`) | `class_sessions`, `attendance_records`; revision and draft in each tab | load, mark, note, submit, reopen | stale tabs, lost answers, background loads; the revision check is worth a lock, a submitted session does not change |
| Tasks and approvals (`src/lib/tasks`, `src/app/api/tasks`) | `tasks`, removal and archive approvals among them | create, edit, complete with an outcome or a successor, cancel, request and decide removal, archive | a decision on a task that changed meanwhile; an open approval and its task know of each other, a closed task stays closed, one successor for each completion |
| SMS consent and campaigns, conversations (`src/lib/communication-consent`, `sms-campaigns`, `conversations`) | consent of contacts, campaign, recipient snapshot, messages | opt in and out, preview, approve, launch, refresh, reply by hand | a launch that dies while it sends; results noted in a later snapshot; a reply requested twice; STOP as the first message of a phone |
| Follow-up sequences (`src/lib/follow-up-sequences`) | enrollments, step runs, review tasks | enroll, run the due steps | two runs with copies of one enrollment; quiet hours; no step skipped, each once but for what a deferral costs, what was stopped stays stopped |
| Ingestion (`src/lib/ingestion`) | contacts, leads, import records, timeline entries, intake tasks | website, Facebook, WhatsApp, Messenger, SMS, partner events | redelivery, two submissions of one person at once, staff who close what is being attached to; one active opportunity, one task, one contact |
| Import review and roster import (`src/lib/import-review`, `roster-import`) | import records and review items | classify, decide, promote an ad, apply a spreadsheet | two reviewers at once, a promotion that fails in the middle; what was reviewed stays so |
| Contact merge (`src/lib/contact-merge`) | contacts and every row that points at them | merge | rows that arrive during the merge, runs that hold copies from before |
| CRM records, placement reviews | contacts, opportunities, classes, reviews | field edits, stage changes | last writer wins except where a revision is compared |
| Employee authentication | sessions, invitations, memberships | log in, invite, accept | mostly the identity provider's |
| Timeline, search, reports, dashboard, directory, notifications, observability | none | read-only queries | not modelled: they change nothing |
| Client store, pages, scripts, migrations | browser state, schema | user interface, operator tools | not modelled: presentation and one-off tools |

The parts meet in the database. Registration, the portal and staff create
requests; the collections handlers hand them to a provider; callbacks and
rechecks end in `reconcileDejavooPayment`; that transaction writes the ledger,
issues the receipt, completes the request and releases the book. A submission
that comes in by any door becomes, or updates, a contact with an opportunity and
an intake task, or waits in the import review. Follow-up tasks hang on
opportunities and are cancelled when one closes; sequences make review tasks;
campaigns and replies ask the consent that inbound messages and forms left on
the contact; merges move enrollments from one contact to another.

## 2. Payments: what is modelled

`PaymentReconciliation` is one module because its parts are one protocol: the
ledger, the request and the event are written in the same database
transactions.

* **A database transaction is an action.** Every transaction of this code
  takes the row locks (`for update`) or the advisory locks of what it decides
  on and keeps them until it commits, so its reads and writes are one step.
  Between two transactions of a handler, and around every provider call,
  anything may happen: that is the record in `work[w]`, which holds what the
  handler claimed and read, and the stage it reached.
* **A handler may die** at any stage (`Crash`): the process is killed, the
  connection drops, or an exception leaves the handler. What it committed stays.
* **A part of a transaction may fail alone**: the release of a book runs behind a
  savepoint, and the payment commits whatever ends it. `ReleaseBook` is
  `ReleasedBook`, or nothing but the activity for staff, freely chosen, because any
  error of the release is caught. Nothing retries it: a later event of the same
  capture may (`ReconcileSuccess` again), a replay of the same event does not. A
  manual payment has no savepoint; where its release fails it rolls back.
* **One statement is split**: `createStaffPaymentRequest` sums the allocations
  in the statement that waits for the charge's lock. Under READ COMMITTED the
  sum is of the statement's snapshot and the locked row is the newest one, so
  `StaffSnapshot` and `StaffInsert` are two actions.

| In the model | In the code |
| --- | --- |
| `request`, `hosted`, `terminal` | `payment_requests.status` and the states of `metadata_json.hostedPaymentAttempt` and `.terminalPaymentAttempt` |
| `chargeStatus`, `pastDue` | `student_charges.status`, and whether the due date is over |
| `latest` | the newest request with the charge in `charge_id` |
| `book` | the `book_fulfillments` row of a registration's request |
| `recorded`, `owner`, `alloc`, `receipts` | verified `provider_transactions`, their `payment_request_id`, `payment_allocations`, receipts in `documents` |
| `settled`, `unsettled`, `attention` | `payment_provider_events` in status processed; received or failed; with an operator-attention activity |
| `bookAttention` | the transactions with a `fulfillment.enqueue_attention` activity |
| `provider`, `sales`, `pages`, `notices` | outside the code: the provider's truth, the Sale calls sent, the pages opened, the callback bodies posted |
| `StaffSnapshot`, `StaffInsert`, `PortalRequest`, `Register` | the three ways a request is created |
| `CollectManually`, `PayRequestManually` | `recordManualCollectionPayment`, `recordManualPaymentRequest` |
| `BeginHosted`, `OpenPage`, `FinishHosted` | `createHostedCollectionLink` around its provider call |
| `BeginSale`, `BeginRecover`, `CallSale`, `QueryStatus`, `PersistOutcome` | `initiateSpinCollectionPayment` and `recoverSpinCollectionPayment` |
| `BeginCallback`, `BeginRecheck`, `QueryStatus` | the callback route and `recoverHppPayment` |
| `ReconcileDuplicate`, `...Open`, `...NonPayment`, `...Mismatch`, `...Success`, `...Refused` | the exits of `reconcileDejavooPayment`, in the order of the code |

Abstractions, each on the safe side or named here:

* money is a small natural number; the plan of a request sums to its amount, as
  every creator of plans makes it, so the check of a transaction's own balance
  cannot fail and is left out;
* the reply `pending` stands for pending and unknown, `unavailable` for every
  answer that is not ok, `mismatch` for a success whose amount, currency,
  merchant, reference or transaction id does not verify;
* the provider's answers are truthful except for the requests in `Misreported`,
  whose capture is always reported wrongly; a query may always go unanswered;
* one provider environment; the client's key of a manual payment is bound to one
  body; a recheck may use any stored success callback where the code looks at
  the last five;
* `latest` is read in the transaction; in the code it is a lateral join of the
  locking statement and may be as old as that statement;
* a portal request for part of a tuition charge cannot be handed to the hosted
  page (`HostedPayable`), as in the code.

`PaymentPromise` is the abstract specification: money reaches the books one
transaction at a time, pays a charge for no more than its price and a
transaction for no more than it is worth, and completes at most the one request
it pays. An id under which two requests were captured may be worth either of the
amounts (`Worth`). `KeepsPromise` says that `PaymentReconciliation` implements it, with
the completed requests as `paid`, the recorded transactions as `booked` and the
sums of the allocations as `applied`.

`PaymentClaims` states what the documentation, the messages and the tests say
and the code does not do; each has a run in which TLC finds the behaviour.

## 3. Attendance: what is modelled

`AttendanceSession` is one session of a class and the browser tabs that show it.
The service and the page are one module because the guarantee is theirs
together: the service compares a revision, and the page must not hold a revision
beside marks of another one.

| In the model | In the code |
| --- | --- |
| `revision`, `status`, `note`, `marks` | the `class_sessions` row (revision 0: none yet) and its `attendance_records` |
| `reason` | the reason of the latest `attendance.session_reopened` activity |
| `eligible` | enrollments active on the date; `EnrollmentChanges` stands for whoever edits them |
| `tab` | `workspace`, `revisionRef` and `draftMarks` of `ActiveClassesWorkspace` |
| `fetch` | the load effect: `Load` hides the page, `Refresh` is the class editor's `classRefreshKey` |
| `call`, `stray` | the mutation `runMutation` waits for; one it gave up that the service still has |
| `ReadSession`, `ReadMarks`, `Show`, `LoadFails` | the statements of `getAttendanceWorkspace`, which run in no transaction, and the arrival of their result |
| `HandleMark`, `HandleMarkAllPresent`, `HandleSaveSessionNote`, `HandleSubmit`, `HandleReopen` | the handlers of the page |
| `ServeCommit`, `ServeStray` | the transactions of `saveSessionNote`, `saveAttendanceSnapshot`, `submitAttendanceSession`, `reopenAttendanceSession` when they write |
| `ServeEcho` | their early returns for a change that is there already |
| `Receive`, `CallFails`, `GiveUp` | `updateSession`, and the failure branch of `runMutation` with `setDraftMarks(previousMarks)` |
| `audit`, `tab[t].fresh` | history: corrections replayed over the first submission; nothing parted draft and revision since the load |

The transactions lock the session row first, or create it under its unique
index, so each is one action; the loser of a race to create it is refused, which
is a `CallFails`. A refusal and a lost request look alike to the page, so they
are one action too. The reason of a reopening and the note are opaque values; a
mark is a status, and the note on a mark, dates, the week and the class list are
left out. The date is one on which the class meets
(`assertPersistedOrScheduledDate`). `HandleReopen` has the guard of the handler
and not that of the button, which is wider: a dialog may be left open. A load
drops what the page held, which nobody sees before it is overwritten. The roster
is read with the row; in the code it is the next statement, and a mark that
falls between the two moves the revision like one that falls after both.

`AttendanceRegister` is what readers rely on: a register whose revision names
its content, that stands still while submitted. `KeepsRegister` checks that the
service implements it.

`FreshPageIsRight` is about the protocol of the two: a page at the current
revision shows the stored marks as long as it is fresh. Two things in the code
end that, and each has a violated claim: an echo, which brings the current
revision to a page with old marks, and a background load that arrives while a
mutation is under way.

## 4. Tasks and approvals: what is modelled

`TaskApprovals` is the task queue of one contact, the approvals for cancelling a
task and the approvals for archiving the contact. A request handler reads the
task first and decides on what it read (`request[h]`); its transaction comes
later, and its conditions differ from path to path. That gap is the subject.

| In the model | In the code |
| --- | --- |
| `task[t]` | a row of `tasks` that is not an approval; `decision` and `approval` are its `metadata.removalApproval`, `version` its `updated_at` |
| `fine` | `updated_at` is still the database's own `now()`, whose microseconds a handler's `Date` cuts off |
| `approval`, `told` | tasks of type `task_removal_approval`, and the notices of their decision |
| `archive`, `archived` | tasks of type `archive_approval`; `contacts.archived_at` |
| `ReadForChange`, `ReadForCancel`, `ReadApproval`, `ReadForReconcile`, `ReadForArchive` | what the routes read and check before their transaction |
| `UpdateTask`, `CompleteRecurring` | `updateTaskWithEvents`, `completeRecurringTaskWithNextTask`: the version is compared |
| `CompleteFollowUp`, `HoldFollowUp`, `FinishFollowUp` | `completeFollowUpTaskWithActivity`: status and owner are compared. When the outcome ends the lead, the transaction holds the task and then cancels the lead's other follow-ups, so it is two actions |
| `Reconcile`, `SyncOwner` | `reconcileAutomatedInboundFollowUpTasks`; the follow-ups' owner when the lead's changes |
| `CancelTaskDirectly`, `RequestRemoval`, `DecideRemoval` | the three ways a cancellation goes on |
| `RequestArchive`, `DecideArchive`, `UpdateArchiveApproval`, `ArchiveDirectly` | `archive-approvals.js` and the general change of an approval task |

The tasks are of low or medium priority and the manual ones were created by their
first owner, which decides who may cancel them. A handler that is refused leaves
nothing, so refusals, failures and deaths are one action (`Abandon`). Due dates,
snooze times, notes, and notices other than those of decisions are left out. The
handler that read a time stamp the database made never cancels the task directly,
because the comparison is exact (`removal-approvals.js:143`): `fine` keeps that.

## 5. Text messages: what is modelled

`SmsOutreach` is one business unit: inbound messages and the consent they mean,
one campaign, and replies by hand. The carrier is outside. A send is accepted,
refused, or accepted with its answer lost, and the carrier knows an
Idempotency-Key it has seen (`Sent`).

| In the model | In the code |
| --- | --- |
| `contact`, `thread`, `stored`, `batches` | contacts with consent and block; the contact of a conversation; stored messages; the day's import batches |
| `FindBatch`, `CreateBatch`, `Look`, `SeenBefore`, `Store` | `persistSmsInboundEvent`: find or make the batch, then one transaction under the batch's and the event's lock |
| `FormAnswer`, `Block` | `recordWebsiteLeadSmsConsent`; the do-not-call marks of employees |
| `campaign`, `rows`, `snapshot` | `sms_campaigns.status`, its recipient rows, which each snapshot replaces |
| `Preview`, `Approve`, `Schedule`, `Cancel` | the routes of these names |
| `Launch`, `SendNext`, `NoteResults` | `requestSmsCampaignLaunch`: the claiming transaction, the sends, the noting transaction |
| `ReadRows`, `NoteRefresh` | `refreshSmsCampaignDeliveryStatuses` |
| `CheckReply`, `NoteReply`, `Dispatch`, `Settle`, `DeliveryReport` | `manual-outbound.js`: guardrails, the pending message, the provider call, its result, the delivery report |

Left out or chosen by the environment: leads, other units, the audience filter
(the audience is the unit), the readiness of provider and settings (a launch may
always be blocked), the limit of 500 recipients, quiet hours, wording. Contacts
do not change their phone.

## 6. Follow-up sequences: what is modelled

`FollowUpSequences` is one sequence and the runs of its due steps. A run lists
the due enrollments without a transaction (`List`) and then works on copies, each
in a transaction that compares nothing with the row any more: only the unique
key of a step run (enrollment, step and due time) tells it that another run was
faster.

| In the model | In the code |
| --- | --- |
| `enrollment`, `runs`, `tasks` | enrollments; `follow_up_sequence_step_runs` by their keys; how many review tasks each step made |
| `work[h]` | the list `listDueFollowUpSteps` returned and the time of the run |
| `Enroll`, `Mark`, `Merge` | `enrollContactInFollowUpSequence`; do-not-call marks; what a contact merge does to enrollments and blocks |
| `Defer`, `Blocked`, `Execute`, `Duplicate` | the four exits of a due step |
| `Return` | the run is over, or dies |
| `taken`, `deferrals` | history: the steps an enrollment took, in order; how often quiet hours put it off |

`Drafts` are the steps whose action is `draft`: they get a run, a touch and the
advance like the others, but no task (`service.js:688`). Templates, channel windows
and the state of the sequence may forbid any step (`other`); all steps are active; `paused` is never set by the code; the order
within a list is arbitrary, as each row is handled on its own. An archived
contact can still be enrolled, as in the code. The contact of a task is not
modelled: after a merge a run that holds an older copy makes its task for the
archived source contact.

A deferral writes a due time without looking at the row, and the due time is in
the key: a run that listed the step before can take it, and a run that lists it
again takes it once more. `EachStepOnce` therefore counts. Each deferral may cost
one repetition of a step and one touch above the maximum, and TLC finds behaviours
that reach these bounds; no step is ever skipped, touches are the steps taken, and
the tasks are those of the steps taken that are no drafts. Without a deferral each
step is taken once and in order, and what was stopped gets nothing any more
(`StoppedStaysStopped`).

## 7. Lead intake: what is modelled

`LeadIntake` is how somebody who writes in becomes a contact with one active
opportunity, in the division that works with opportunities (AIT USA). It joins
four ingestion services, the import review and the opportunity service, because
the guarantees are of all of them together: each door has locks of its own, and
only the opportunity lock and the notification's key are shared.

| In the model | In the code |
| --- | --- |
| `contacts`, `leads` | present identifiers of contacts with the door each came by; opportunities with the submission that opened them |
| `record`, `item`, `heard` | the last import record of a submission, its review item; timeline entries of partner events |
| `tasks`, `TaskKey` | intake tasks by their key: a submission's id, or the visit (correlation id) of an event |
| `batches`, `InBatch` | import batches of ads and of messages, one for each UTC day; found or made before the transaction, under no lock |
| `work[h]` | the transaction of a handler: its batch and what it has found so far |
| `LocksOf`, `OpportunityFree`, `KeyFree` | advisory locks and the batch row; the opportunity lock of a contact; the unique key of a notification |
| `QueueForReview`, `Receive` | forms, ads and events up to `classifyContactIdentity` |
| `LinkChat`, `ReceiveChat` | `whatsapp-inbound.js`: link to an opportunity, open or closed, or open one, without the opportunity lock |
| `Decide`, `DecideAgainst` | `resolveAitUsaActiveOpportunity`: none, one, or more than one active opportunity |
| `Notify`, `Commit` | `createInboundLeadNotification` and `ensureInboundIntakeTask`; everything the transaction wrote becomes visible |
| `Abandon` | an error or a death: all is rolled back, or back to the savepoint of a promotion |
| `Approve`, `RefuseApproval`, `Review`, `ReviewItem` | `import-review/service.js`: promotion of an ad, decisions on records and on items alone |
| `StartOpportunity`, `CloseOpportunity`, `ReopenOpportunity` | staff, under the opportunity lock |

A transaction's locks, its check for an earlier delivery and its classification
are one step, because the locks exclude every other transaction that could change
the answer for this submission; contact writes are seen at `Commit`. The batch
row that an ad or a message locks is `findOrCreateFacebookLeadAdsBatch` or
`findOrCreateWhatsAppInboundBatch`: a query and an insert outside the transaction,
with no unique index on `import_batches`. The day's first two deliveries, or two
on either side of midnight, hold different rows and run side by side, so a
transaction may be in any batch there is or in a new one. The contact is looked
for by the batch lock alone, and two such transactions can make two contacts of
one person. The batch of the forms is a name of the lock, whichever row it is;
events have none. A form's
external id is taken to be present. The audit rows a duplicate leaves, and the
notifications except as holders of their key, are left out. SMS and Messenger
take the path of WhatsApp; the spam review of chats, the recovery of ads by
`facebook-lead-reconciliation.js`, `createContactWithLead`, the roster import
and contact merges are not modelled, and neither are the other divisions, which
have no opportunities. A conversation's contact is found by its phone.

What the model does and no property excludes:

* WhatsApp (SMS and Messenger too) inserts a lead without the opportunity lock. A
  contact can get a second active opportunity, in a race or, for a conversation
  that is linked to a contact without a lead, without one
  (`whatsapp-inbound.js:206`); every other door then sends that contact's
  submissions to review (`DecideAgainst`). `OneActiveOpportunity` therefore
  speaks of the opportunities that messages did not open.
* Two doors that bring one person at once can make two contacts: forms and events
  name an identifier in locks of different names (`website-lead-contact:`,
  `aitusa-crm-contact:`), ads and messages lock a batch of the day, approvals an
  ad. `TwinsPerBatch` is what the locks of one door give: one contact of an
  identifier by forms, one by events, and one for each batch by ads or by
  messages. TLC finds behaviours that reach two contacts in two batches by either
  door.
* A form or an event that matches by phone overwrites the email, so a later form
  with the old email makes another contact.
* The approval of an ad whose fields were not fetched makes a contact without
  identifiers.
* The decision on a review item alone may disagree with its record; a form that
  was rejected, or approved without a lead, is processed anew when it is sent
  again.

## 8. Runs

### Payments

The runs instantiate `MCPaymentReconciliation`, with model values for the rows
and handlers. Handlers are interchangeable (`TwoHandlers`); requests, charges
and keys are not, because the constant functions tell them apart. Deadlock is
not checked: once every payment is settled and nobody acts, the system may
rest.

| Run | Instance | Shows | States |
| --- | --- | --- | --- |
| `surfaces` | one registration of two charges with a book and a unit of credit, on the hosted page and the terminal or paid by hand; two handlers; its capture may be reported wrongly; non-payments `failed` and `canceled` | the payer is asked once; a capture is booked whole; completed never regresses; the books are final; a book is released with the money or staff are told; captured money is resolved; types | 93,037 |
| `rivals` | two tuition charges of two units, the first of which falls due; a registration for both, a portal request for the first and a staff request for half of the second, of which no page may be opened; payments by hand of half the first charge, twice, and on the staff request | a hosted page asks for what is owed; a capture of two charges is applied whole or refused; no charge is overpaid and its status tells its allocations (`ChargesAddUp`); completed means paid; the books move as `PaymentPromise` says | 292,758 |

Why the bounds are enough. The protocol of a request concerns the request row,
its attempt and the handlers on it; two handlers of any kind already give a
claim against a claim, a callback against a recheck, a recovery against a
callback and a stale answer against a fresh one, and a third adds no pair. A
charge of two units with payments of one and two units has every relation the
ledger distinguishes: fits, fits exactly, exceeds, exceeds after another. A
second request is what a charge needs for a rival, and two charges are what a
plan needs to fail at one entry and fit at the other: the first or the second
charge of the registration may be paid by a rival while its page is open. A
manual payment on the
charge itself is not part of `surfaces`: it would complete the request, the
capture after it is refused, and `ReconcileRefused` leaves no record, so
`CapturedIsResolved` would not hold; the release of a book by `CollectManually`
is covered by the theorem `BooksFollowMoney` alone. Nothing else is bounded:
the model has no counters that grow (`sales` and `pages` stay at one, by
`OneProviderAttempt`, and `receipts` likewise), so no state constraint is used.
The proofs of section 10 remove the bounds for all of these properties but
`CapturedIsResolved`.

`claim_replay` (501 states) checks `CapturedIsRecorded` of `PaymentClaims` and
finds it violated: the documentation says that an outage leaves the payment
replayable, but after one failure the request is no longer pending, and the
recheck refuses it.

The model does three more things that a comment or a document excludes and that
have no run. A transaction conflict is to leave a failed event and an activity
(`reconciliation.js:694`); the exception rolls both back. A partly paid charge
past its due date is to be `overdue` (`model.js:38`); the date arrives as a
`Date` object and the comparison as text never holds. A staff request is not to
exceed the remaining balance (`service.js:473`); the sum is of the snapshot from
before the lock.

Two more behaviours are in the model and have no run of their own. Two requests
may ask for one balance; when both are approved, `ReconcileRefused` keeps the
second capture off the books, where `docs/payments/dejavoo-spin.md:44` expects
an approved payment to be reconciled. And `CollectManually` has no guard on a
terminal attempt whose outcome is unknown, which lines 53-55 of that document
ask for.

### Attendance

The runs instantiate `MCAttendanceSession`. The students of `attendance_audit`
are interchangeable (`TwoStudents`). `MaxRevision` bounds the changes of
the session. A session can always be edited by an enrollment, so deadlock is
checked.

| Run | Instance | Shows | States |
| --- | --- | --- | --- |
| `attendance_tabs` | two tabs, one a manager's with the class editor beside it; one student, three changes | a fresh page at the current revision is right, and the service is the register | 1,234,180 |
| `attendance_audit` | one manager's tab that gives up requests, two students who come and go, two marks, a note, five changes | submissions are complete, corrections are logged; types and the tables' constraints | 1,847,837 |

Two tabs give a writer and a stale reader; a third is another of these. Three
changes let a tab fall behind by more than one revision, catch up by an echo or
a load, and write. Marking, submitting, reopening, correcting and submitting
again are five changes, and a correction can be a mark that is taken away. Two
students are needed where one drops and another enrolls, and where a save
touches one mark and erases another. The theorems need none of these bounds.

`claim_stale_tab` (306,757 states) finds `NoStaleOverwrite` violated, the README's
claim that revision checks keep a stale tab from silently overwriting newer
changes, stated as: a save leaves the marks its user did not touch as they are.
A note is stored, its answer lost, and saved again after another tab marked a
student: the answer is the current revision, and the tab's next mark erases the
other tab's. A background load does the same in another way: read before a save
and shown before the save's answer, it leaves old marks beside the new revision,
and the next mark erases the one just saved.

### Tasks, messages, sequences and lead intake

Handlers, and whatever else no constant function tells apart, are
interchangeable. `MaxWrites`, `MaxLists`, `MaxTime`, `MaxArrivals`, `MaxBatches`
and `MaxLeads` bound how long a run goes on; `Twice` are the submissions that
count as two of `MaxArrivals`. Tasks, sequences and lead intake are
checked for deadlock: a handler can always read or staff can always act. In
`sms` the bound on transactions may be used up with nothing held, so it is not.

| Run | Instance | Shows | States |
| --- | --- | --- | --- |
| `tasks` | two handlers, a coordinator and a reviewer; a lead's follow-up and a recurring task, one successor, two approvals of each kind, four transactions; `start`, `reopen` and `complete` | an open approval and its task know of each other; requesters hear how it ended; a closed task stays closed; one successor for each completion; "approved" means archived; types | 1,133,938 |
| `claim_pending` | the same | `PendingCanBeDecided` is violated: the successor of a recurring task inherits a pending approval that its predecessor's completion superseded, which nobody can decide and which makes the code refuse another cancellation of the task | 2,148 |
| `sms` | two handlers, two contacts that share a phone, an unknown phone that says START and STOP, an overlong message, a reply, two approvals, four transactions | nobody gets more texts than approvals; a row tells of a text to its recipient; newcomers per batch; STOP is heard; a reply goes out once; types | 1,417,363 |
| `sequences` | two runs at a time, three in all, two contacts that may be merged, two enrollments, a step that makes a task and a draft, a limit of one, quiet hours at time 1 of 0..2 | no step skipped, each once and in order but for what deferrals cost, tasks and touches counted; one active enrollment for each contact; what was stopped stays stopped; types | 1,739,035 |
| `claim_block_stops` | one run at a time, one contact | `BlockStops` is violated: a step that was held back once for another reason does not stop the enrollment when its contact is blocked afterwards | some hundred |
| `lead_intake` | two forms, two ads, three events of one visit (one asks for no follow-up) and two WhatsApp messages, of people who share an email or a phone, of which three come in (the second form, ad and message count as two); two batches of ads and of messages; one known contact; two handlers; staff start at most one opportunity | one active opportunity; one task for each key; a submission opens one; no more twins by a door than its locks allow; attached to what is active; the review is final; types | 522,126 |

Why the bounds are enough. Each of these protocols is between a handler that
holds something it read and one that changes it, so two handlers give every
pair, and the transactions counted by the bound are enough for the longest story
a property tells: request, complete, reopen and decide (four) for tasks;
approve, launch, die and launch again for a campaign; list, defer, execute and
list again for a sequence; deliver, promote, close and deliver again for a
submission. Two contacts on one phone give the choice among duplicates. Three
submissions give two rivals and one that comes after. The first of each door and
the events give any three, so every pair of doors and a third; the second of a door
meets one other, which is where two of one door race, in one batch or in two.
Redeliveries cost nothing of the bound. The theorems of section 10
remove the bounds for everything but liveness.

## 9. Fairness and liveness

`CapturedIsResolved` holds under `FairSpec`:

* `WF(Proceed(w))`: a handler that runs takes its next step, unless it crashes;
* `SF(ReconcileSuccess(w))`: processes die, but not each time a handler is about
  to commit;
* `SF(Verified(w))`: the provider does not leave every query about a capture
  without an answer;
* `SF(Redeliver(w, r))`: the provider repeats a callback until it is accepted.
  The route answers 200 or 202 once the event is stored, and after that
  nothing is owed;
* `SF(BeginRecheck(w, r))` and `SF(BeginRecover(w, r))`: staff look again at
  requests that stay pending. The code has no job that does it for them, so this
  is an assumption about people; without it an answer lost to a crash stays
  lost.

Payers, crashes, manual payments and new requests have no fairness. The
property allows a final non-payment because the code does: `claim_replay` is the
run that shows what that costs.

The other models state no liveness. A save or a task change that is refused is
the user's to repeat; no job of the code launches a campaign, decides an approval
or runs the due steps; a submission that is never stored is the sender's to
deliver again, and a form or a webhook may stop doing so.

## 10. Proofs

The theorems of the payments hold for any requests, charges, keys, handlers, prices, plans and
credits that satisfy `ConstantsAssumption`, `KeysAreDistinct` (a manual
transaction has another `provider` than a card's, and the forms draw a random
key each) and `FiniteBooks` (tables have finitely many rows; a sum over
infinitely many would mean nothing). TLC evaluates the assumptions in every run.
Every safety property that a run checks is proved. `SettledOnce` is only proved: it
speaks of the row of one event, and no run repeats it.

| Module | Theorem | Property |
| --- | --- | --- |
| `PaymentReconciliationProofs` | `TypeCorrect` | `TypeOK` |
| | `AskedAtMostOnce` | `OneProviderAttempt` |
| | `StatusNeverRegresses` | `NeverRegresses` |
| `PaymentBooksProofs` | `EventsSettleOnce` | `SettledOnce` |
| | `CapturesAreWhole` | `CaptureIsWhole` |
| | `WrittenOnce` | `BooksAreFinal` |
| | `CompletedWasPaid` | `CompletedIsPaid` |
| | `BooksFollowMoney` | `BookFollowsMoney` |
| `PaymentLedgerProofs` | `ChargesAreRight` | `ChargesAddUp` |
| | `HostedPageAsksAll` | `HostedAsksTheBalance` |
| | `PromiseKept` | `KeepsPromise` |
| `AttendanceSessionProofs` | `TypeCorrect` | `TypeOK` |
| | `FreshPagesAreRight` | `FreshPageIsRight` |
| | `RegisterKept` | `KeepsRegister` |
| | `SubmittedComplete` | `SubmittedIsComplete` |
| | `AuditComplete` | `AuditIsComplete` |
| `TaskApprovalsProofs` | `TypeCorrect` | `TypeOK` |
| | `ApprovalsPaired` | `ApprovalIsPaired` |
| | `RequestersTold` | `RequesterIsTold` |
| | `ClosedForGood` | `ClosedStaysClosed` |
| | `SuccessorsCounted` | `OneSuccessorEach` |
| | `ArchivedAsApproved` | `ApprovedIsArchived` |
| `SmsOutreachProofs` | `TypeCorrect` | `TypeOK` |
| | `EveryTextIsApproved` | `TextsAreApproved` |
| | `IdsAreOfTheRow` | `RowsTellTheirTexts` |
| | `NoMoreThanBatches` | `NewcomersPerBatch` |
| | `StopsAreHeard` | `StopIsHeard` |
| | `EachReplyOnce` | `OneTextPerReply` |
| `FollowUpSequencesProofs` | `TypeCorrect` | `TypeOK` |
| | `StepsOnce` | `EachStepOnce` |
| | `ActiveOnce` | `OneActiveEach` |
| | `StoppedForGood` | `StoppedStaysStopped` |
| `LeadIntakeProofs` | `TypeCorrect` | `TypeOK` |
| | `OneOpportunityEach` | `OneActiveOpportunity` |
| | `TaskPerKey` | `OneTaskPerKey` |
| | `OpenedOnce` | `OpensOnce` |
| | `NoTwins` | `TwinsPerBatch` |
| | `Attached` | `AttachedToActive` |
| | `ReviewFinal` | `ReviewIsFinal` |

The payment modules extend each other in this order, and so do their
invariants.

* **`TypeInv`** is `TypeOK` and `HandlersOK`. `TypeOK` alone is not inductive:
  `PersistOutcome` writes `work[w].outcome` into the request, so what a handler
  carries at each stage (`Shaped`) has to be known.
* **`ProtocolInv`** adds the claims. A handler past its claim works on a request
  that is bound to an attempt (`BoundWork`); a request without an attempt was
  never asked for and has an untouched status (`Untouched`); a handler about to
  call the provider is the first to ask (`ClaimsHold`) and alone
  (`ClaimsAreSole`). Together they make `AskedOnce` inductive. `LatestExists`
  says that the request a manual payment would complete exists, and
  `StatusStep` lists what a step can do to a status.
* **`BooksInv`** adds the ledger. An unrecorded transaction has no allocation
  and no receipt, a recorded one has one receipt (`Unbooked`, `Receipted`), has
  its plan applied to a completed request (`PlanApplied`) or its amount to its
  charge (`Collected`). A handler that holds a verified success holds the truth
  (`AnswersTrue`), which needs that a capture has been asked for
  (`CapturedAsked`): no later page or Sale can overwrite what the handler was
  told. `LedgerSteps` reduces every step to one of three moves of the ledger.
* **`OutcomeInv`** adds `LatestLinked` (the newest request of a charge asks for
  that charge alone) and `StaffSourced`. `OutcomeSteps` reduces the steps to the
  four that write charges, books or completions; `Completes` is what three of
  them do alike. `BooksFollowMoney` follows the book of a registration through
  them (`BookOf`): the step that completes its request releases it or names the
  transaction in an activity (`ReleasedOrTold`), and activities and recorded
  transactions stay (`AttentionStays`). A conflict is never what ends a release,
  because a book that names a transaction belongs to a completed request; other
  errors are.
* **`LedgerInv`** adds `BalanceInv`: each charge adds up (`AddsUp`, which is
  `ChargesAddUp` and that no charge is ever `overdue`, a status the hosted page
  accepts and that would not tell whether anything was paid). What the actions do
  to a balance is `PlanMoves` and `CollectionMoves`; with `AllocatedMoves`, a
  step of one transaction moves the sum by the difference of its allocation.
* **`PromiseKept`** maps every step to `Settle` of the one transaction it books,
  or to a stutter: a replay finds its plan applied and its request completed
  (`OneTransaction`). `PlanAdds` and `CollectionAdds` bound what the step adds
  to all charges together by what the transaction is worth.

The sums. `Allocated` is a `SumFunction`, a fold that the library defines by
recursion over a set, and the theorems for induction take a predicate, which the
provers cannot instantiate. `PaymentLedgerProofs` starts with a way round it: a
statement about the subsets of a finite set is the set of the subsets it is true
of, `MemberByMember` is induction for such a set, from the well-foundedness of
the strict subsets, and takes no predicate. With it `SumsExist` and `SumsAgree`
give the recursive function, `TotalTakes` that the order of the members does not
matter, and the rest (`TotalOfOneChanged`, `TotalIsMonotone`, `TotalOfZeros`,
`TotalOfOne`) what the ledger needs.

The theorems of attendance hold for any tabs, any finite set of students and any
`MaxRevision` (`AttendanceAssumption`).

* **`FreshInv`** is `TypeOK` and `TabInv` of each tab. `FreshPageIsRight` says
  nothing of a page that waits, so a step out of waiting would break it. What
  the page falls back to when its call fails (`Base`) must be right
  (`HeldIsRight`), the request must be the draft at the revision held
  (`SentIsHeld`), an answer under way must be right when it arrives
  (`AnswerIsRight`), and so must a load (`LoadIsRight`). Each speaks of the
  current revision alone, and nothing is ahead of it (`NotAhead`), so a commit
  makes them all vacuous for the other tabs: that is `Elsewhere`, and with
  `StepIsLocal` it leaves one tab per step to look at.
* **`RegisterKept`** simulates each commit by an action of the register;
  `RowChanges` says that nothing else writes. `EveryoneIsMarked` turns the
  counting of the code into equality of sets, for this theorem and for
  `SubmittedComplete`. `AuditIsComplete` is inductive under `TypeOK`.

The theorems of tasks hold for any handlers, users, opening tasks and numbers of
tasks, approvals and transactions under `TaskAssumption`.

* **`TaskApprovalsProofs`**. `HandlerOK` says what a handler's reading is worth
  later: the row has moved on to a higher version or is the row that was read,
  and whoever holds a task holds it alone. `RefsOK` says that an approval named
  by a task, by what a handler read or by its plan exists and, as long as it is
  open, is of that task: so a plan supersedes no other task's approval, and the
  pending approval a successor inherits is closed by the same transaction. The
  writing actions reduce to four kinds of step (`TaskStep`): a plan is closed
  (`ClosingStep`), rows are edited and no approval (`EditStep`), a removal is
  requested or decided. `GoesOn` is what the four have in common and all that
  `HandlerOK` and `RefsOK` need; the pairs and the notices are argued for each
  kind. `Growing` counts the successors: a step adds at most one, with the
  completion of an open task. `ClosedForGood` needs the invariant because a
  change that compares versions saw the status it changes.

The theorems of text messages hold for any handlers, phones, contacts, messages
and replies, and any number of texts, approvals and batches, under
`SmsAssumption` (ids of contacts, messages and replies are of different tables).

* **`SmsOutreachProofs`**. `Base` is `TypeOK` with the types of the requests under
  way, what a handler read (`HandlersAreRight`), and two facts about phones: a
  contact keeps its phone (`PhonesAreRight`), and those a launch has still to
  text have different ones (`TodoIsRight`).
* `TextsAreApproved` counts texts, which a launch sends one by one and long after
  its approval was used. What is inductive is a budget for each phone (`Covered`):
  the campaign's texts to the phone, the launches that still owe it one
  (`Owing`) and the approval that is not used yet (`Spare`) are together no more
  than the approvals there were. A launch turns the spare approval into a debt,
  a send a debt into a text, and a crash forgets the debt.
* `NewcomersPerBatch` is such a budget too (`Accounted`): the contacts made with
  a phone and the handlers that may still make one (`Makers`) are no more than
  the batches, since two handlers in the storing transaction hold different
  batches (`StoresAreApart`).
* `StopIsHeard` needs `StoreKnowsThread`: while the day has one batch, a handler
  about to store a message of a phone that has a conversation is about to store
  it for the contact of that conversation.
* `RowsTellTheirTexts` needs the same of the results a launch holds
  (`ResultsAreRight`), which are noted by phone on whatever rows there are then.
* `OneTextPerReply` needs that one handler at most has inserted the row of a
  request and that nothing is sent before it (`SenderIsRight`).

The theorems of sequences hold for any runs, contacts, enrollments and quiet
hours under `SequenceAssumption`, those of lead intake for any submissions,
identifiers, known contacts and handlers under `IntakeConstants` (an external id
is of one source; a message brings a phone; an ad brings an identifier; `None` is
no identifier; the known contacts came by no door), and any number of batches.

* **`FollowUpSequencesProofs`**. `EachStepOnce` speaks of rows and tasks, but what
  writes them is a copy of any age. `CopiesAreRight` says of a copy whose
  enrollment never met quiet hours that its key is taken, or it has the step and
  the due time of the row and the row was not stopped; a key that is taken makes
  `Execute` and the stop of `Blocked` impossible. `NoTwins` is `OneActiveEach` said of
  pairs, which merges preserve because they stop one of two enrollments. What
  deferrals cost is a pair of budgets. `Pool(e, s)` are the keys up to step `s` that
  the row and the copies of `e` have and no run has taken yet; their number and the
  times `s` was taken are one and the deferrals together at most (`StepBudget`): a
  step that is taken gives its key up, the row it makes is of a later step, and
  only the due time of a deferral is a new key. `Out(e)`, the keys of copies that
  nothing speaks against, bounds the touches in the same way (`TouchBudget`).
  `NoneSkipped` says that the step before the one a row or a copy is at was taken.
* **`LeadIntakeProofs`**. The invariant has one part for each mechanism.
  `LocksApart`: two transactions hold no lock together. `BusyOK`: a transaction
  is of its submission's door or a review, has opened nothing yet, and the record
  of an ad is as it was found; with `LocksApart` no two are of one submission
  (`BusyApart`). `RecordsOK`: what led to an opportunity is known to have, so it
  is never taken in again. `OneFrom` and `OneActive` are two of the properties
  said of pairs. `DecisionsStand`: what was decided under the opportunity lock
  still holds, and one transaction at a time has decided for a contact. It is
  what makes `OneActive` inductive and `AttachedToActive` true. `TasksOnce`: who
  holds a key and saw no task is alone. `FewTwins` is `TwinsPerBatch` with the
  transactions that are under way: a form or an event that brings an identifier
  found whoever has it by its door (`OneByName`), and no other of its door brings
  it meanwhile, because both would hold a lock of that name (`BroughtOnce`); the
  contacts that ads or messages made of an identifier and the transactions that may
  still make one (`Writers`) are together no more than the batches (`OnePerBatch`).
  One that begins found nobody, and the others that write then are of different
  batches, since they hold no lock together (`CountedOff`, `BatchesCover`); a commit
  turns a writer into a contact (`CommitGains`). `WhoWrites` and
  `WorkMoves` reduce the steps to the few that matter to each part.

Only model-checked: `CapturedIsResolved`, as liveness under fairness and
`ENABLED` are beyond the prover. The violations of `PaymentClaims` and of the
other claims are what TLC found and nothing to prove.

## 11. Not modelled

* In the payments: the wording and parsing of provider answers
  (`providers/*.js`), signatures and secrets, the permission checks of the
  entry points, the portal's snapshots, the activities other than operator
  attention, rows read for display, refunds and reversals (which no caller
  writes).
* The row locks themselves. `recordManualCollectionPayment` takes the charge and
  then the request, the other transactions the request and then the charge: a
  deadlock that the database resolves by aborting one of them. In the model the
  aborted transaction is one that did not happen.
* In the attendance: an enrollment that becomes active between the statement that
  reads the roster and the commit of the submission. The session row is locked,
  the enrollments are not, and the transaction is one action at that statement.
* The other doors of lead intake named in section 7, the worklist of books, the
  bundle of a registration, the roster import and the parts of a contact merge
  beside sequences, until the plan below reaches them. Search, reports,
  dashboards, the client store and the other pages stay outside: they change no
  shared state.

Behaviours met while modelling that no property is about, each at its line under
`src/`:

* `lib/payments/providers/dejavoo.js:376`: a provider's text is searched for words
  such as "success", also inside "unsuccessful".
* `lib/collections/spin-service.js:181`: the terminal handler keeps its outcome in
  a statement of its own, whatever a later handler wrote.
* `lib/collections/service.js:639`: a repeated idempotency key with another charge
  or amount is answered with the first payment.
* `lib/sms-campaigns/service.js:959`: a campaign that was cancelled during its
  sends ends as completed or failed; `:716`: a completed campaign cannot be
  approved, but a launch request makes it `launch_blocked`, which can; `:915`: a
  STOP between audience and send does not stop the send.
* `lib/ingestion/sms-provider-events.js:646`: a delivery report that comes before
  the provider's id was noted finds no message.
* `lib/communication-consent/sms-consent.js:201`: START and STOP count in the
  order of arrival, and per contact where two share a phone.
* A step that quiet hours defer may be executed twice
  (`lib/follow-up-sequences/service.js:602`), although
  `docs/comms-observability-runbook.md:136` says that duplicate execution should be
  idempotent: `EachStepOnce` bounds how often.

## 12. Plan

Done: the payments with all of their writers, attendance, tasks and approvals,
text messages, follow-up sequences, and lead intake with the import review. Next,
in this order, one module per component, each with its `MC` module, runs and
mutants:

1. `BookFulfillment`: the worklist of `lib/fulfillment/service.js`, where two
   employees edit one book against `expectedUpdatedAt` while the payment
   releases it. Composes with `book` of `PaymentReconciliation`. Properties: a
   terminal book never moves, no lost update, every release is worked on or
   canceled.
2. `TuitionCharges`: create and adjust four-week charges
   (`tuition-service.js`) against requests that expose the price to a payer.
   Property: an amount a payer may be looking at never changes.
3. `TransactionLocks`: the row locks of the payment transactions, one acquire per
   step. Properties: which waits can form a cycle, and that an abort leaves no
   trace; refines the atomic actions used here.
4. `RegistrationBundle`: submission keys, placement links and contacts; a replay
   finds the bundle it made, a link is used once.
5. `ContactMerge` and `RosterImport`: what moves or creates the rows that lead
   intake writes, while it writes them.
6. The remaining doors of lead intake: Messenger, the spam review, the recovery
   of lost ads.

Theorems worth proving after these: that the row locks of `TransactionLocks`
make the transactions of `PaymentReconciliation` atomic.
