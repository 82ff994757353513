----------------------------- MODULE LeadIntake -----------------------------
(***************************************************************************)
(* How somebody who writes in becomes a contact with one opportunity, in   *)
(* the division that works with opportunities (AIT USA). Website forms,    *)
(* Facebook lead ads, events of the partner's site and WhatsApp messages   *)
(* come in by four doors. Each is one transaction at "read committed"      *)
(* under locks of its own: it looks for the contact, decides under the     *)
(* contact's opportunity lock, tells the team once and commits. What is    *)
(* unclear waits in the import review, where ads can be approved. Staff    *)
(* start, close and reopen opportunities in between.                       *)
(*                                                                         *)
(* A transaction is the steps between its waits: what it writes is seen at *)
(* Commit, and a crash or an error before it leaves nothing.               *)
(***************************************************************************)
EXTENDS Integers, Sequences, FiniteSets

CONSTANTS
    Forms, Ads, Events, Chats,  \* submissions, by external id
    Emails, Phones, None,
    Brings,         \* [submission -> [email, phone]], None where it has none
    FollowUp,       \* the events that ask for a follow-up
    Correlation,    \* [Events -> the visit they belong to]
    Known,          \* the contacts there are at first
    Handlers,       \* server processes
    Decisions,      \* bound: what staff decide in the import review
    MaxBatches,     \* bound: import batches of one door
    MaxArrivals,    \* bound: so many of the submissions come in
    Twice,          \* bound: those of them that count as two
    MaxLeads        \* bound: staff start no opportunity beyond this many

Submissions == Forms \cup Ads \cup Events \cup Chats
Identities == [email : Emails \cup {None}, phone : Phones \cup {None}]
Reviewable == {"pending", "needs_review"}
Doors == {"form", "ad", "event", "chat", "review", "known"}
Batched == {"ad", "chat"}
Contacts == [email : Emails \cup {None}, phone : Phones \cup {None},
             emailBy : Doors, phoneBy : Doors]

\* An external id is of one source.
ASSUME IntakeConstants ==
    /\ Forms \cap (Ads \cup Events \cup Chats) = {}
    /\ Ads \cap (Events \cup Chats) = {} /\ Events \cap Chats = {}
    /\ None \notin Submissions \cup Emails \cup Phones
    /\ Brings \in [Submissions -> Identities]
    /\ \A m \in Chats : Brings[m].email = None /\ Brings[m].phone # None
    /\ \A a \in Ads : Brings[a] # [email |-> None, phone |-> None]
    /\ FollowUp \subseteq Events
    /\ Events \subseteq DOMAIN Correlation
    /\ Decisions \subseteq Reviewable \cup {"approved", "rejected"}
    /\ MaxBatches \in Nat
    /\ Known \in Seq(Contacts)
    /\ \A c \in DOMAIN Known : Known[c].emailBy = "known" /\ Known[c].phoneBy = "known"

VARIABLES
    contacts,   \* their present identifiers, and the door each came by
    leads,      \* opportunities: [contact, active, from]
    record,     \* the last import record of a submission
    item,       \* the review item beside it
    heard,      \* events with an entry on the timeline
    tasks,      \* how many intake tasks a key has
    batches,    \* how many import batches ads and messages have had
    work        \* a handler's transaction

vars == <<contacts, leads, record, item, heard, tasks, batches, work>>
crm == <<contacts, leads, tasks>>
review == <<record, item, heard>>

Nobody == [email |-> None, phone |-> None]
NoRecord == [status |-> "none", lead |-> 0, fetched |-> TRUE]
Idle == [of |-> None, door |-> "known", batch |-> 0, stage |-> "idle", contact |-> 0,
         lead |-> 0, told |-> FALSE]

RecordStatuses == {"none", "pending", "needs_review", "promoted", "approved", "rejected"}
ItemStatuses == {"none", "pending", "needs_review", "resolved", "approved", "rejected"}

Keys == Submissions \cup {Correlation[e] : e \in Events}
\* The key of the notification and of the intake task.
TaskKey(s) == IF s \in Events THEN Correlation[s] ELSE s

TypeOK ==
    /\ contacts \in Seq(Contacts)
    /\ leads \in Seq([contact : 1..Len(contacts), active : BOOLEAN,
                      from : Submissions \cup {None}])
    /\ record \in [Submissions -> [status : RecordStatuses, lead : 0..Len(leads),
                                   fetched : BOOLEAN]]
    /\ item \in [Submissions -> ItemStatuses]
    /\ heard \subseteq Events
    /\ tasks \in [Keys -> Nat]
    /\ batches \in [Batched -> 0..MaxBatches]
    /\ work \in [Handlers ->
         [of : Submissions \cup {None}, door : Doors, batch : 0..MaxBatches,
          stage : {"idle", "classified", "decided", "notified"},
          contact : 0..Len(contacts), lead : 0..Len(leads), told : BOOLEAN]]

Init ==
    /\ contacts = Known
    /\ leads = <<>>
    /\ record = [s \in Submissions |-> NoRecord]
    /\ item = [s \in Submissions |-> "none"]
    /\ heard = {}
    /\ tasks = [k \in Keys |-> 0]
    /\ batches = [door \in Batched |-> 0]
    /\ work = [h \in Handlers |-> Idle]

-----------------------------------------------------------------------------
(* Locks.                                                                  *)

IdentityLocks(door, id) ==
    {<<door, i>> : i \in {id.email, id.phone} \ {None}}

\* Mutant of LocksOf: a submission locks nothing but its own id.
LocksOfItself(s, door, b) == {<<door, s>>}

\* What a transaction locks before it reads: advisory locks, and an ad or a
\* message the row of its batch b.  Forms and events name an identifier in two
\* ways; the batch of the forms is a name to lock by, too.
LocksOf(s, door, b) ==
    {<<door, s>>} \cup
    CASE door = "form" -> {<<"form", "batch">>} \cup IdentityLocks(door, Brings[s])
      [] door = "event" -> IdentityLocks(door, Brings[s])
      [] door \in Batched -> {<<door, "batch", b>>}
      [] OTHER -> {}

Busy == {h \in Handlers : work[h].stage # "idle"}
Held == UNION {LocksOf(work[h].of, work[h].door, work[h].batch) : h \in Busy}
LocksFree(s, door, b) == LocksOf(s, door, b) \cap Held = {}

\* The batch of the day is looked for, and made if it is not there, before the
\* transaction and under no lock: another request may find none at that moment,
\* or still have the one of the day before.
InBatch(door, b) ==
    IF door \in Batched
    THEN /\ b \in 1..batches[door] + 1
         /\ batches' = [batches EXCEPT ![door] = IF b > @ THEN b ELSE @]
    ELSE b = 0 /\ UNCHANGED batches

\* Mutant of OpportunityFree: the opportunities are read without the lock.
OpportunityUnlocked(c) == c > 0

\* The opportunity lock of a contact, from the decision to the commit.
OpportunityFree(c) ==
    \A h \in Busy : work[h].contact = c =>
        work[h].stage = "classified" \/ work[h].door = "chat"

\* Mutant of KeyFree: notifications have no unique key.
KeyUnlocked(k) == k \in Keys

\* A notification waits for the transaction that is inserting the same key.
KeyFree(k) ==
    \A h \in Handlers : work[h].stage = "notified" => TaskKey(work[h].of) # k

-----------------------------------------------------------------------------
(* What a transaction reads.                                               *)

Matches(id) ==
    {c \in 1..Len(contacts) : \/ id.email # None /\ contacts[c].email = id.email
                              \/ id.phone # None /\ contacts[c].phone = id.phone}
Ambiguous(id) == Cardinality(Matches(id)) > 1
\* The only match, or 0 for a new contact.
Match(id) == IF Matches(id) = {} THEN 0 ELSE CHOOSE c \in Matches(id) : TRUE

LeadsOf(c) == {l \in 1..Len(leads) : leads[l].contact = c}
Active(c) == {l \in LeadsOf(c) : leads[l].active}

\* What a record proposes: an ad whose fields were not fetched has no identity.
Proposed(s) == IF record[s].fetched THEN Brings[s] ELSE Nobody

\* Mutant of Stored: an event is looked for among the import records.
StoredRecord(s) == record[s].status # "none"

\* The submission was stored before.
Stored(s) ==
    CASE s \in Forms -> \/ record[s].lead > 0
                        \/ record[s].status = "needs_review" /\ item[s] = "pending"
      [] s \in Events -> s \in heard
      [] OTHER -> record[s].status # "none"

\* Which submissions came in, and are stored or being handled.
Arrived == {s \in Submissions : record[s].status # "none" \/ s \in heard}
           \cup {work[h].of : h \in Busy}

DoorOf(s) == CASE s \in Forms -> "form" [] s \in Ads -> "ad"
               [] s \in Events -> "event" [] s \in Chats -> "chat"

Count(es) == Cardinality(es) + Cardinality(es \cap Twice)

\* It is taken in with a batch and under its locks.
Fresh(s, b) ==
    /\ ~ Stored(s) /\ Count(Arrived \cup {s}) <= MaxArrivals
    /\ InBatch(DoorOf(s), b) /\ LocksFree(s, DoorOf(s), b)

Open(h, s, door, b, stage, c) ==
    work' = [work EXCEPT ![h] = [Idle EXCEPT !.of = s, !.door = door, !.batch = b,
                                             !.stage = stage, !.contact = c]]

ToReview(s, fetched) ==
    /\ record' = [record EXCEPT ![s] = [NoRecord EXCEPT !.status = "needs_review",
                                                        !.fetched = fetched]]
    /\ item' = [item EXCEPT ![s] = "pending"]
    /\ heard' = heard \cup ({s} \cap Events)

Settled(s, status) == IF item[s] \in Reviewable THEN status ELSE item[s]

\* A promotion that fails is rolled back to its savepoint.
BackToReview(s) ==
    /\ record' = [record EXCEPT ![s].status = "needs_review"]
    /\ item' = [item EXCEPT ![s] = Settled(s, "needs_review")]
    /\ UNCHANGED heard

-----------------------------------------------------------------------------
(* The doors.                                                              *)

\* A submission that names nobody, or more than one contact, is stored for
\* review. So is an ad whose fields could not be fetched, or that is not to be
\* promoted by itself.
QueueForReview(s, b) ==
    /\ s \notin Chats
    /\ Fresh(s, b)
    /\ \/ s \in Ads
       \/ Brings[s] = Nobody
       \/ Ambiguous(Brings[s])
    /\ \E fetched \in (IF s \in Ads THEN BOOLEAN ELSE {TRUE}) : ToReview(s, fetched)
    /\ UNCHANGED <<crm, work>>

\* classifyContactIdentity, for a form, an ad or an event.
Receive(h, s, b) ==
    /\ s \notin Chats /\ work[h] = Idle
    /\ Fresh(s, b)
    /\ Brings[s] # Nobody /\ ~ Ambiguous(Brings[s])
    /\ Open(h, s, DoorOf(s), b, "classified", Match(Brings[s]))
    /\ UNCHANGED <<crm, review>>

\* A message of a contact with any opportunity, open or closed, is linked.
LinkChat(m, b) ==
    /\ Fresh(m, b)
    /\ \E c \in Matches(Brings[m]) : \E l \in LeadsOf(c) :
         record' = [record EXCEPT ![m].status = "promoted", ![m].lead = l]
    /\ item' = [item EXCEPT ![m] = "resolved"]
    /\ UNCHANGED <<crm, heard, work>>

\* Any other message is to open one, whoever else is doing so.
ReceiveChat(h, m, b) ==
    /\ work[h] = Idle
    /\ Fresh(m, b)
    /\ \A c \in Matches(Brings[m]) : LeadsOf(c) = {}
    /\ \E c \in (IF Matches(Brings[m]) = {} THEN {0} ELSE Matches(Brings[m])) :
         Open(h, m, "chat", b, "decided", c)
    /\ UNCHANGED <<crm, review>>

\* Staff approve the record of an ad: it is loaded again under its lock.
Approve(h, a) ==
    /\ work[h] = Idle
    /\ record[a].status \in Reviewable /\ record[a].lead = 0 /\ LocksFree(a, "review", 0)
    /\ ~ Ambiguous(Proposed(a))
    /\ Open(h, a, "review", 0, "classified", Match(Proposed(a)))
    /\ UNCHANGED <<crm, review, batches>>

RefuseApproval(a) ==
    /\ record[a].status \in Reviewable /\ record[a].lead = 0 /\ LocksFree(a, "review", 0)
    /\ Ambiguous(Proposed(a))
    /\ BackToReview(a)
    /\ UNCHANGED <<crm, batches, work>>

\* resolveAitUsaActiveOpportunity: the lock, then the opportunities as they are.
Decide(h) ==
    LET w == work[h] IN
    /\ w.stage = "classified"
    /\ w.contact > 0 => OpportunityFree(w.contact)
    /\ Cardinality(Active(w.contact)) < 2
    /\ work' = [work EXCEPT ![h].stage = "decided",
         ![h].lead = IF Active(w.contact) = {} THEN 0
                     ELSE CHOOSE l \in Active(w.contact) : TRUE]
    /\ UNCHANGED <<crm, review, batches>>

\* Two active opportunities are for staff to sort out.
DecideAgainst(h) ==
    LET w == work[h] IN
    /\ w.stage = "classified" /\ w.contact > 0
    /\ OpportunityFree(w.contact)
    /\ Cardinality(Active(w.contact)) > 1
    /\ IF w.door = "review" THEN BackToReview(w.of) ELSE ToReview(w.of, TRUE)
    /\ work' = [work EXCEPT ![h] = Idle]
    /\ UNCHANGED <<crm, batches>>

Tells(s) == s \notin Chats /\ (s \in Events => s \in FollowUp)

\* createInboundLeadNotification, then the look for a task of the same key.
Notify(h) ==
    LET w == work[h] IN
    /\ w.stage = "decided" /\ Tells(w.of)
    /\ KeyFree(TaskKey(w.of))
    /\ work' = [work EXCEPT ![h].stage = "notified",
                            ![h].told = tasks[TaskKey(w.of)] > 0]
    /\ UNCHANGED <<crm, review, batches>>

-----------------------------------------------------------------------------
(* What a transaction leaves.                                              *)

\* A form and an event overwrite what they bring, an ad fills what is blank.
Over(door, old, new) ==
    /\ new # None
    /\ \/ door \in {"form", "event"}
       \/ door \in {"ad", "review"} /\ old = None

Updated(c, id, door) ==
    [email |-> IF Over(door, c.email, id.email) THEN id.email ELSE c.email,
     emailBy |-> IF Over(door, c.email, id.email) THEN door ELSE c.emailBy,
     phone |-> IF Over(door, c.phone, id.phone) THEN id.phone ELSE c.phone,
     phoneBy |-> IF Over(door, c.phone, id.phone) THEN door ELSE c.phoneBy]

NewContact(id, door) ==
    [email |-> id.email, phone |-> id.phone, emailBy |-> door, phoneBy |-> door]

Identity(w) == IF w.door = "review" THEN Proposed(w.of) ELSE Brings[w.of]

\* An event without a follow-up opens no opportunity of its own.
Opens(w) == w.lead = 0 /\ (w.of \in Events => w.of \in FollowUp)

\* Mutant of ContactOf: the id of the contact just written is not carried on.
ContactRead(w) == w.contact
ContactOf(w) == IF w.contact = 0 THEN Len(contacts) + 1 ELSE w.contact
LeadOf(w) == IF Opens(w) THEN Len(leads) + 1 ELSE w.lead

TaskMissing(w) == w.stage = "notified" /\ ~ w.told

Commit(h) ==
    LET w == work[h]
        s == w.of
    IN
    /\ w.stage = IF Tells(s) THEN "notified" ELSE "decided"
    /\ contacts' = IF w.contact = 0 THEN Append(contacts, NewContact(Identity(w), w.door))
                   ELSE [contacts EXCEPT ![w.contact] = Updated(@, Identity(w), w.door)]
    /\ leads' = IF Opens(w)
                THEN Append(leads, [contact |-> ContactOf(w), active |-> TRUE, from |-> s])
                ELSE leads
    /\ tasks' = IF TaskMissing(w) THEN [tasks EXCEPT ![TaskKey(s)] = @ + 1] ELSE tasks
    /\ record' = IF s \in Events THEN record
                 ELSE [record EXCEPT ![s].status = "promoted", ![s].lead = LeadOf(w)]
    /\ item' = [item EXCEPT ![s] = CASE s \in Events -> @
                                     [] w.door = "review" -> Settled(s, "approved")
                                     [] w.door = "ad" -> "approved"
                                     [] OTHER -> "resolved"]
    /\ heard' = heard \cup ({s} \cap Events)
    /\ work' = [work EXCEPT ![h] = Idle]
    /\ UNCHANGED batches

\* The process dies or a statement fails: everything is rolled back, to the
\* savepoint if it was the CRM write of a promotion.
Abandon(h) ==
    /\ h \in Busy
    /\ \/ UNCHANGED review
       \/ work[h].door = "review" /\ BackToReview(work[h].of)
    /\ work' = [work EXCEPT ![h] = Idle]
    /\ UNCHANGED <<crm, batches>>

-----------------------------------------------------------------------------
(* Staff.                                                                  *)

\* Mutant of Review: the last decision counts.
ReviewAnyTime(s, status) ==
    /\ record[s].status # "none" /\ LocksFree(s, "review", 0)
    /\ s \in Ads => status # "approved"
    /\ record' = [record EXCEPT ![s].status = status]
    /\ item' = [item EXCEPT ![s] = Settled(s, status)]
    /\ UNCHANGED <<crm, heard, batches, work>>

\* updateImportReviewStatus: no record that was settled changes; an approval of
\* an ad is a promotion.
Review(s, status) ==
    /\ record[s].status # "none" /\ LocksFree(s, "review", 0)
    /\ s \in Ads => status # "approved"
    /\ record' = IF record[s].status \in Reviewable
                 THEN [record EXCEPT ![s].status = status] ELSE record
    /\ item' = [item EXCEPT ![s] = Settled(s, status)]
    /\ UNCHANGED <<crm, heard, batches, work>>

\* updateImportReviewItemsOnly: the item alone, whatever its record says.
ReviewItem(s, status) ==
    /\ item[s] # "none" /\ LocksFree(s, "review", 0)
    /\ item' = [item EXCEPT ![s] = status]
    /\ UNCHANGED <<crm, record, heard, batches, work>>

StartOpportunity(c) ==
    /\ OpportunityFree(c) /\ Active(c) = {} /\ Len(leads) < MaxLeads
    /\ leads' = Append(leads, [contact |-> c, active |-> TRUE, from |-> None])
    /\ UNCHANGED <<contacts, tasks, review, batches, work>>

\* Mutant of CloseOpportunity: the status is changed without the lock.
CloseUnlocked(l) ==
    /\ Active(leads[l].contact) = {l}
    /\ leads' = [leads EXCEPT ![l].active = FALSE]
    /\ UNCHANGED <<contacts, tasks, review, batches, work>>

\* withLockedAitUsaOpportunityMutation, to and from a closed status.
CloseOpportunity(l) ==
    /\ OpportunityFree(leads[l].contact)
    /\ Active(leads[l].contact) = {l}
    /\ leads' = [leads EXCEPT ![l].active = FALSE]
    /\ UNCHANGED <<contacts, tasks, review, batches, work>>

ReopenOpportunity(l) ==
    /\ OpportunityFree(leads[l].contact)
    /\ Active(leads[l].contact) = {}
    /\ leads' = [leads EXCEPT ![l].active = TRUE]
    /\ UNCHANGED <<contacts, tasks, review, batches, work>>

-----------------------------------------------------------------------------
Next ==
    \/ \E b \in 0..MaxBatches :
         \/ \E s \in Submissions : QueueForReview(s, b)
         \/ \E m \in Chats : LinkChat(m, b)
    \/ \E a \in Ads : RefuseApproval(a)
    \/ \E h \in Handlers :
         \/ \E b \in 0..MaxBatches :
              \/ \E s \in Submissions : Receive(h, s, b)
              \/ \E m \in Chats : ReceiveChat(h, m, b)
         \/ \E a \in Ads : Approve(h, a)
         \/ Decide(h) \/ DecideAgainst(h) \/ Notify(h) \/ Commit(h) \/ Abandon(h)
    \/ \E s \in Submissions :
         \/ \E status \in Decisions : Review(s, status)
         \/ \E status \in Decisions \ {"approved"} : ReviewItem(s, status)
    \/ \E c \in 1..Len(contacts) : StartOpportunity(c)
    \/ \E l \in 1..Len(leads) : CloseOpportunity(l) \/ ReopenOpportunity(l)

Spec == Init /\ [][Next]_vars

-----------------------------------------------------------------------------
(* Properties.                                                             *)

\* The contacts that have an identifier by a door.
WithEmail(e, door) ==
    {c \in 1..Len(contacts) : contacts[c].email = e /\ contacts[c].emailBy = door}
WithPhone(p, door) ==
    {c \in 1..Len(contacts) : contacts[c].phone = p /\ contacts[c].phoneBy = door}

\* Of a contact's active opportunities at most one was opened, or reopened, by
\* somebody who takes the opportunity lock; a WhatsApp message, which takes
\* none, may add its own.
OneActiveOpportunity ==
    \A c \in 1..Len(contacts) :
        Cardinality({l \in Active(c) : leads[l].from \notin Chats}) <= 1

\* The events of one visit that ask for a follow-up, the redeliveries of a form
\* or an ad and an approval after them leave one task for the team.
OneTaskPerKey == \A k \in Keys : tasks[k] <= 1

\* A submission opens at most one opportunity, however often it is delivered or
\* approved, and an ad that was rejected opens none.
OpensOnce ==
    \A s \in Submissions :
        LET opened == {l \in 1..Len(leads) : leads[l].from = s} IN
        /\ Cardinality(opened) <= 1
        /\ s \in Ads /\ opened # {} => record[s].status = "promoted"

\* However deliveries overlap, one door does not make of one identifier more
\* contacts than its locks allow: forms and events, which lock the identifier,
\* one; ads and messages, which lock a batch that may be found twice, one for
\* each batch.
TwinsPerBatch ==
    \A door \in {"form", "event"} \cup Batched :
        LET most == IF door \in Batched THEN batches[door] ELSE 1 IN
        /\ \A e \in Emails : Cardinality(WithEmail(e, door)) <= most
        /\ \A p \in Phones : Cardinality(WithPhone(p, door)) <= most

\* An inquiry is attached to an opportunity that is active when it is attached.
AttachedToActive ==
    [][\A s \in Submissions \ Chats :
         record'[s].lead > 0 /\ record'[s] # record[s] =>
             leads'[record'[s].lead].active]_vars

\* The review of an ad is final: it was promoted, with the opportunity it led
\* to, or rejected, whatever is approved, retried or delivered again.
ReviewIsFinal ==
    [][\A a \in Ads : record[a].status \in {"promoted", "rejected"} =>
         record'[a] = record[a]]_vars
=============================================================================
