-------------------------- MODULE LeadIntakeProofs --------------------------
(***************************************************************************)
(* Proofs about LeadIntake, for any submissions, identifiers, contacts and *)
(* server processes, and with none of the bounds of the runs.              *)
(***************************************************************************)
EXTENDS LeadIntake, FiniteSetTheorems, TLAPS

(* What the invariant says besides the types. *)

Settling(h) == work[h].stage \in {"decided", "notified"} /\ work[h].door # "chat"
Opened(s) == \E l \in 1..Len(leads) : leads[l].from = s
OpenedNext(s) == \E l \in 1..Len(leads') : leads'[l].from = s

\* A transaction is of its submission's door or a review of an ad, has opened
\* nothing yet, and finds the record of an ad as it found it.
BusyOK ==
    \A h \in Handlers : work[h].stage # "idle" =>
        LET w == work[h] IN
        /\ w.of \in Submissions
        /\ w.door = DoorOf(w.of) \/ (w.door = "review" /\ w.of \in Ads)
        /\ w.stage = "notified" => w.of \notin Chats
        /\ ~ Opened(w.of)
        /\ w.door = "review" => record[w.of].status \in Reviewable
        /\ w.door = "ad" => record[w.of].status = "none"

\* Two transactions hold no lock together.
LocksHeld(h) == LocksOf(work[h].of, work[h].door, work[h].batch)
LocksApart ==
    \A g, h \in Handlers : work[g].stage # "idle" /\ work[h].stage # "idle" /\ g # h =>
        LocksHeld(g) \cap LocksHeld(h) = {}

\* What led to an opportunity is known to have done so.
RecordsOK ==
    \A s \in Submissions :
        /\ record[s].lead > 0 => record[s].status = "promoted"
        /\ Opened(s) =>
             /\ s \in Forms => record[s].lead > 0
             /\ s \in Ads => record[s].status = "promoted"
             /\ s \in Events => s \in heard
             /\ s \in Chats => record[s].status # "none"

\* OpensOnce and OneActiveOpportunity, said of pairs.
OneFrom ==
    \A k, l \in 1..Len(leads) :
        leads[k].from = leads[l].from /\ leads[k].from \in Submissions => k = l

OneActive ==
    \A k, l \in 1..Len(leads) :
        leads[k].contact = leads[l].contact /\ leads[k].active /\ leads[l].active
          /\ {leads[k].from, leads[l].from} \cap Chats = {} => k = l

\* What was decided under the opportunity lock holds until the commit.
DecisionsStand ==
    \A h \in Handlers : Settling(h) =>
        /\ work[h].lead = 0 =>
             \A l \in 1..Len(leads) :
                 leads[l].contact = work[h].contact /\ leads[l].active => leads[l].from \in Chats
        /\ work[h].lead > 0 => leads[work[h].lead].active
        /\ work[h].lead > 0 => leads[work[h].lead].contact = work[h].contact
        /\ \A g \in Handlers :
             Settling(g) /\ work[g].contact = work[h].contact /\ work[h].contact > 0 => g = h

\* Who has the key of a task makes it, if there is none.
TasksOnce ==
    /\ OneTaskPerKey
    /\ \A h \in Handlers : work[h].stage = "notified" =>
         /\ work[h].told \/ tasks[TaskKey(work[h].of)] = 0
         /\ \A g \in Handlers :
              work[g].stage = "notified" /\ TaskKey(work[g].of) = TaskKey(work[h].of) => g = h

\* The batch of an ad or a message is one that was made.
BatchesCover ==
    \A h \in Handlers : work[h].stage # "idle" /\ work[h].door \in Batched =>
        work[h].batch \in 1..batches[work[h].door]

\* The two identifiers of a contact, or of a submission.
Fields == {"email", "phone"}
Has(c, f) == IF f = "email" THEN c.email ELSE c.phone
By(c, f) == IF f = "email" THEN c.emailBy ELSE c.phoneBy
Brought(s, f) == Has(Brings[s], f)

\* Who has the identifier i by a door, who brings it by that door now, and whose
\* ad or message may still write it.
With(f, i, door) ==
    {c \in 1..Len(contacts) : Has(contacts[c], f) = i /\ By(contacts[c], f) = door}
Bringing(f, i, door) ==
    {h \in Handlers : work[h].stage # "idle" /\ work[h].door = door /\ Brought(work[h].of, f) = i}
Writers(f, i, door) ==
    {h \in Bringing(f, i, door) :
        \/ work[h].contact = 0
        \/ door = "ad" /\ Has(contacts[work[h].contact], f) = None}

\* A form or an event that brings an identifier found whoever has it by its door.
OneByName(f, i, door) ==
    /\ \A c, d \in With(f, i, door) : c = d
    /\ \A h \in Bringing(f, i, door) : With(f, i, door) \subseteq {work[h].contact}

\* Each batch has made at most one contact with the identifier or may yet make one.
OnePerBatch(f, i, door) ==
    /\ IsFiniteSet(Writers(f, i, door))
    /\ Cardinality(With(f, i, door)) + Cardinality(Writers(f, i, door)) <= batches[door]

FewTwins ==
    \A f \in Fields, i \in Emails \cup Phones :
        /\ \A door \in {"form", "event"} : OneByName(f, i, door)
        /\ \A door \in Batched : OnePerBatch(f, i, door)

Inv == /\ TypeOK /\ BusyOK /\ LocksApart /\ RecordsOK /\ OneFrom /\ OneActive
       /\ DecisionsStand /\ TasksOnce /\ BatchesCover /\ FewTwins

-----------------------------------------------------------------------------
(* What the helpers of the model return.                                   *)

Works == [of : Submissions \cup {None}, door : Doors, batch : 0..MaxBatches,
          stage : {"idle", "classified", "decided", "notified"},
          contact : 0..Len(contacts), lead : 0..Len(leads), told : BOOLEAN]

LeadRows == [contact : 1..Len(contacts), active : BOOLEAN, from : Submissions \cup {None}]
RecordRows == [status : RecordStatuses, lead : 0..Len(leads), fetched : BOOLEAN]

LEMMA DoorOfSource ==
    ASSUME NEW s \in Submissions
    PROVE  /\ DoorOf(s) \in {"form", "ad", "event", "chat"}
           /\ DoorOf(s) = "form" <=> s \in Forms
           /\ DoorOf(s) = "ad" <=> s \in Ads
           /\ DoorOf(s) = "event" <=> s \in Events
           /\ DoorOf(s) = "chat" <=> s \in Chats
<1>1. s \in Forms \/ s \in Ads \/ s \in Events \/ s \in Chats
  BY DEF Submissions
<1>2. CASE s \in Forms
  BY <1>2, IntakeConstants DEF DoorOf
<1>3. CASE s \in Ads
  BY <1>3, IntakeConstants DEF DoorOf
<1>4. CASE s \in Events
  BY <1>4, IntakeConstants DEF DoorOf
<1>5. CASE s \in Chats
  BY <1>5, IntakeConstants DEF DoorOf
<1> QED
  BY <1>1, <1>2, <1>3, <1>4, <1>5

LEMMA KeyTyped ==
    ASSUME NEW s \in Submissions
    PROVE  TaskKey(s) \in Keys
  BY DEF TaskKey, Keys

LEMMA MatchTyped ==
    ASSUME TypeOK, NEW id
    PROVE  /\ Match(id) \in 0..Len(contacts)
           /\ Match(id) = 0 <=> Matches(id) = {}
           /\ Matches(id) \subseteq 1..Len(contacts)
<1>1. Len(contacts) \in Nat
  BY DEF TypeOK
<1>2. Matches(id) \subseteq 1..Len(contacts)
  BY DEF Matches
<1>3. CASE Matches(id) = {}
  BY <1>1, <1>2, <1>3 DEF Match
<1>4. CASE Matches(id) # {}
  <2>1. Match(id) \in Matches(id)
    BY <1>4 DEF Match
  <2> QED
    BY <1>1, <1>2, <1>4, <2>1
<1> QED
  BY <1>3, <1>4

LEMMA LeadTyped ==
    ASSUME TypeOK, NEW l \in 1..Len(leads)
    PROVE  /\ leads[l].contact \in 1..Len(contacts)
           /\ leads[l].active \in BOOLEAN
           /\ leads[l].from \in Submissions \cup {None}
<1>1. leads \in Seq(LeadRows)
  BY DEF TypeOK, LeadRows
<1>2. leads[l] \in LeadRows
  BY <1>1
<1> QED
  BY <1>2 DEF LeadRows

LEMMA ActiveTyped ==
    ASSUME TypeOK, NEW c
    PROVE  /\ \A l : l \in Active(c) <=> l \in 1..Len(leads) /\ leads[l].contact = c /\ leads[l].active
           /\ c \in Int /\ c <= 0 => Active(c) = {}
<1>1. \A l : l \in Active(c) <=> l \in 1..Len(leads) /\ leads[l].contact = c /\ leads[l].active
  BY DEF Active, LeadsOf
<1>2. \A l \in 1..Len(leads) : leads[l].contact \in 1..Len(contacts)
  BY LeadTyped
<1>3. Len(contacts) \in Nat
  BY DEF TypeOK
<1> QED
  BY <1>1, <1>2, <1>3

\* A transaction is opened.
LEMMA Opening ==
    ASSUME TypeOK, NEW h \in Handlers, NEW s \in Submissions, NEW door \in Doors,
           NEW b \in 0..MaxBatches, NEW stage \in {"classified", "decided"},
           NEW c \in 0..Len(contacts),
           Open(h, s, door, b, stage, c)
    PROVE  /\ work'[h].of = s /\ work'[h].door = door /\ work'[h].batch = b
           /\ work'[h].stage = stage /\ work'[h].contact = c /\ work'[h].lead = 0
           /\ \A g \in Handlers \ {h} : work'[g] = work[g]
           /\ work' \in [Handlers -> Works]
<1>1. Len(leads) \in Nat
  BY DEF TypeOK
<1>2. work \in [Handlers -> Works]
  BY DEF TypeOK, Works
<1>3. work'[h] = [of |-> s, door |-> door, batch |-> b, stage |-> stage, contact |-> c,
                  lead |-> 0, told |-> FALSE]
  BY <1>2 DEF Open, Idle
<1>4. work'[h] \in Works
  BY <1>1, <1>3 DEF Works
<1>5. /\ work'[h].of = s /\ work'[h].door = door /\ work'[h].batch = b
      /\ work'[h].stage = stage /\ work'[h].contact = c /\ work'[h].lead = 0
  BY <1>3
<1> QED
  BY <1>2, <1>4, <1>5 DEF Open

\* A transaction ends.
LEMMA Ending ==
    ASSUME TypeOK, NEW h \in Handlers, work' = [work EXCEPT ![h] = Idle]
    PROVE  /\ work'[h] = Idle /\ Idle.stage = "idle"
           /\ \A g \in Handlers \ {h} : work'[g] = work[g]
           /\ work' \in [Handlers -> Works]
<1>1. Len(leads) \in Nat /\ Len(contacts) \in Nat
  BY DEF TypeOK
<1>2. work \in [Handlers -> Works]
  BY DEF TypeOK, Works
<1>3. Idle \in Works /\ Idle.stage = "idle"
  BY <1>1, IntakeConstants DEF Idle, Works, Doors
<1> QED
  BY <1>2, <1>3

\* The review of a submission is written.
LEMMA ReviewWritten ==
    ASSUME TypeOK, NEW s \in Submissions,
           BackToReview(s) \/ \E fetched \in BOOLEAN : ToReview(s, fetched)
    PROVE  /\ record' \in [Submissions -> RecordRows]
           /\ item' \in [Submissions -> ItemStatuses]
           /\ heard' \subseteq Events /\ heard \subseteq heard'
           /\ \A t \in Submissions \ {s} : record'[t] = record[t]
           /\ record'[s].status = "needs_review"
           /\ record'[s].lead \in {0, record[s].lead}
<1>1. Len(leads) \in Nat
  BY DEF TypeOK
<1>2. CASE BackToReview(s)
  <2>1. Settled(s, "needs_review") \in ItemStatuses
    BY DEF Settled, TypeOK, ItemStatuses
  <2>2. record \in [Submissions -> RecordRows]
    BY DEF TypeOK, RecordRows
  <2>3. [record[s] EXCEPT !.status = "needs_review"] \in RecordRows
    BY <2>2 DEF RecordRows, RecordStatuses
  <2>4. record' = [record EXCEPT ![s] = [record[s] EXCEPT !.status = "needs_review"]]
    BY <1>2 DEF BackToReview
  <2>5. record'[s].status = "needs_review" /\ record'[s].lead = record[s].lead
    BY <2>2, <2>4 DEF RecordRows
  <2> QED
    BY <1>2, <2>1, <2>2, <2>3, <2>4, <2>5 DEF BackToReview, TypeOK
<1>3. ASSUME NEW fetched \in BOOLEAN, ToReview(s, fetched)
      PROVE  /\ record' \in [Submissions -> RecordRows]
             /\ item' \in [Submissions -> ItemStatuses]
             /\ heard' \subseteq Events /\ heard \subseteq heard'
             /\ \A t \in Submissions \ {s} : record'[t] = record[t]
             /\ record'[s].status = "needs_review" /\ record'[s].lead = 0
  <2>1. record \in [Submissions -> RecordRows] /\ item \in [Submissions -> ItemStatuses]
    BY DEF TypeOK, RecordRows
  <2> DEFINE row == [NoRecord EXCEPT !.status = "needs_review", !.fetched = fetched]
  <2>2. record' = [record EXCEPT ![s] = row]
    BY <1>3 DEF ToReview
  <2>3. row \in RecordRows /\ row.status = "needs_review" /\ row.lead = 0
    <3>1. NoRecord \in RecordRows
      BY <1>1 DEF RecordRows, RecordStatuses, NoRecord
    <3>2. \A r \in RecordRows :
            [r EXCEPT !.status = "needs_review", !.fetched = fetched] \in RecordRows
      BY DEF RecordRows, RecordStatuses
    <3>3. \A r \in RecordRows :
            LET n == [r EXCEPT !.status = "needs_review", !.fetched = fetched]
            IN  n.status = "needs_review" /\ n.lead = r.lead
      BY DEF RecordRows
    <3>4. NoRecord.lead = 0
      BY DEF NoRecord
    <3> QED
      BY <3>1, <3>2, <3>3, <3>4
  <2> HIDE DEF row
  <2>4. item' \in [Submissions -> ItemStatuses]
    BY <1>3, <2>1 DEF ToReview, ItemStatuses
  <2>5. heard' \subseteq Events /\ heard \subseteq heard'
    BY <1>3 DEF ToReview, TypeOK
  <2> QED
    BY <2>1, <2>2, <2>3, <2>4, <2>5
<1> QED
  BY <1>2, <1>3

-----------------------------------------------------------------------------
(* TypeOK.                                                                 *)

\* What a commit finds and leaves.
LEMMA Committing ==
    ASSUME TypeOK, BusyOK, NEW h \in Handlers, Commit(h)
    PROVE  LET w == work[h] IN
           /\ w \in Works /\ w.stage \in {"decided", "notified"} /\ w.of \in Submissions
           /\ ContactOf(w) \in 1..Len(contacts') /\ Len(contacts) <= Len(contacts')
           /\ Len(contacts') \in Nat
           /\ contacts' \in Seq(Contacts)
           /\ w.contact = 0 => /\ ContactOf(w) = Len(contacts) + 1
                               /\ Len(contacts') = Len(contacts) + 1
           /\ w.contact > 0 => ContactOf(w) = w.contact /\ Len(contacts') = Len(contacts)
<1> DEFINE w == work[h]
<1>1. w \in Works /\ Len(contacts) \in Nat /\ Len(leads) \in Nat /\ contacts \in Seq(Contacts)
  BY DEF TypeOK, Works
<1>2. w.stage \in {"decided", "notified"}
  BY DEF Commit
<1>3. w.of \in Submissions
  BY <1>2 DEF BusyOK
<1>4. w.contact \in 0..Len(contacts) /\ w.door \in Doors
  BY <1>1 DEF Works
<1>5. Identity(w) \in Identities
  <2>1. Brings[w.of] \in Identities /\ Nobody \in Identities
    BY <1>3, IntakeConstants DEF Nobody, Identities
  <2> QED
    BY <2>1 DEF Identity, Proposed
<1>6. CASE w.contact = 0
  <2>1. NewContact(Identity(w), w.door) \in Contacts
    BY <1>4, <1>5 DEF NewContact, Identities, Contacts
  <2>2. contacts' = Append(contacts, NewContact(Identity(w), w.door))
    BY <1>6 DEF Commit
  <2>3. contacts' \in Seq(Contacts) /\ Len(contacts') = Len(contacts) + 1
    BY <1>1, <2>1, <2>2
  <2>4. ContactOf(w) = Len(contacts) + 1
    BY <1>6 DEF ContactOf
  <2> QED
    BY <1>1, <1>2, <1>3, <1>6, <2>3, <2>4
<1>7. CASE w.contact > 0
  <2>1. w.contact \in 1..Len(contacts)
    BY <1>1, <1>4, <1>7
  <2>2. contacts[w.contact] \in Contacts
    BY <1>1, <2>1
  <2>3. Updated(contacts[w.contact], Identity(w), w.door) \in Contacts
    BY <1>4, <1>5, <2>2 DEF Updated, Identities, Contacts
  <2>4. contacts' = [contacts EXCEPT ![w.contact] = Updated(@, Identity(w), w.door)]
    BY <1>7 DEF Commit
  <2>5. contacts' \in Seq(Contacts) /\ Len(contacts') = Len(contacts)
    BY <1>1, <2>1, <2>3, <2>4
  <2>6. ContactOf(w) = w.contact
    BY <1>7 DEF ContactOf
  <2> QED
    BY <1>1, <1>2, <1>3, <1>7, <2>1, <2>5, <2>6
<1> QED
  BY <1>1, <1>4, <1>6, <1>7

LEMMA CommitLeads ==
    ASSUME TypeOK, BusyOK, NEW h \in Handlers, Commit(h)
    PROVE  LET w == work[h] IN
           /\ leads' \in Seq(LeadRows') /\ Len(leads') \in Nat
           /\ \A l \in 1..Len(leads) : leads'[l] = leads[l]
           /\ LeadOf(w) \in 0..Len(leads')
           /\ ~ Opens(w) => leads' = leads /\ LeadOf(w) = w.lead
           /\ Opens(w) =>
                /\ w.lead = 0
                /\ Len(leads') = Len(leads) + 1 /\ LeadOf(w) = Len(leads')
                /\ leads'[Len(leads')].contact = ContactOf(w)
                /\ leads'[Len(leads')].active /\ leads'[Len(leads')].from = w.of
<1> DEFINE w == work[h]
           row == [contact |-> ContactOf(w), active |-> TRUE, from |-> w.of]
<1>1. /\ w \in Works /\ w.of \in Submissions
      /\ ContactOf(w) \in 1..Len(contacts') /\ Len(contacts) <= Len(contacts')
      /\ Len(contacts') \in Nat
  BY Committing
<1>2. leads \in Seq(LeadRows) /\ Len(leads) \in Nat /\ Len(contacts) \in Nat
  BY DEF TypeOK, LeadRows
<1>3. LeadRows \subseteq LeadRows'
  BY <1>1, <1>2 DEF LeadRows
<1>4. leads \in Seq(LeadRows')
  BY <1>2, <1>3
<1>5. CASE Opens(w)
  <2>1. row \in LeadRows'
    BY <1>1 DEF LeadRows
  <2>2. leads' = Append(leads, row)
    BY <1>5 DEF Commit
  <2>3. w.lead = 0 /\ LeadOf(w) = Len(leads) + 1
    BY <1>5 DEF Opens, LeadOf
  <2>4. row.contact = ContactOf(w) /\ row.active /\ row.from = w.of
    OBVIOUS
  <2> HIDE DEF row
  <2>5. leads' \in Seq(LeadRows') /\ Len(leads') = Len(leads) + 1
        /\ leads'[Len(leads) + 1] = row /\ \A l \in 1..Len(leads) : leads'[l] = leads[l]
    BY <1>4, <2>1, <2>2
  <2>6. leads'[Len(leads')] = row /\ Len(leads') \in Nat /\ LeadOf(w) = Len(leads')
        /\ LeadOf(w) \in 0..Len(leads')
    BY <1>2, <2>3, <2>5
  <2> HIDE DEF w
  <2> QED
    BY <1>5, <2>3, <2>4, <2>5, <2>6 DEF w
<1>6. CASE ~ Opens(w)
  <2>1. leads' = leads
    BY <1>6 DEF Commit
  <2>2. LeadOf(w) = w.lead /\ w.lead \in 0..Len(leads)
    BY <1>1, <1>6 DEF LeadOf, Works
  <2> QED
    BY <1>2, <1>4, <1>6, <2>1, <2>2
<1> QED
  BY <1>5, <1>6

\* A match that is not ambiguous is the only one.
LEMMA OnlyMatch ==
    ASSUME TypeOK, NEW id, ~ Ambiguous(id)
    PROVE  Matches(id) \subseteq {Match(id)}
<1>1. Matches(id) \subseteq 1..Len(contacts) /\ Len(contacts) \in Nat
  BY MatchTyped DEF TypeOK
<1>2. IsFiniteSet(Matches(id)) /\ Cardinality(Matches(id)) \in Nat
  <2>1. IsFiniteSet(1..Len(contacts))
    BY FS_Interval, <1>1
  <2> QED
    BY <1>1, <2>1, FS_Subset, FS_CardinalityType
<1>3. \A c, d \in Matches(id) : c = d
  <2> SUFFICES ASSUME NEW c \in Matches(id), NEW d \in Matches(id), c # d
               PROVE  FALSE
    OBVIOUS
  <2>1. /\ IsFiniteSet(Matches(id) \ {c})
        /\ Cardinality(Matches(id) \ {c}) = Cardinality(Matches(id)) - 1
    BY <1>2, FS_RemoveElement
  <2>2. d \in Matches(id) \ {c}
    OBVIOUS
  <2>3. Cardinality(Matches(id) \ {c}) > 0
    BY <2>1, <2>2, FS_EmptySet, FS_CardinalityType
  <2> QED
    BY <1>2, <2>1, <2>3 DEF Ambiguous
<1> QED
  BY <1>3 DEF Match

\* The batches there are grow in number.
LEMMA BatchFound ==
    ASSUME TypeOK, NEW door, NEW b \in 0..MaxBatches, InBatch(door, b)
    PROVE  /\ batches' \in [Batched -> 0..MaxBatches]
           /\ \A d \in Batched : batches[d] <= batches'[d]
           /\ door \in Batched => b \in 1..batches'[door]
<1>1. batches \in [Batched -> 0..MaxBatches] /\ MaxBatches \in Nat
  BY IntakeConstants DEF TypeOK
<1> QED
  BY <1>1 DEF InBatch

\* Transactions that begin, and submissions stored without one.
Begins(h) ==
    \/ \E b \in 0..MaxBatches :
         \/ \E s \in Submissions : Receive(h, s, b)
         \/ \E m \in Chats : ReceiveChat(h, m, b)
    \/ \E a \in Ads : Approve(h, a)
Stores ==
    \E b \in 0..MaxBatches :
        \/ \E s \in Submissions : QueueForReview(s, b)
        \/ \E m \in Chats : LinkChat(m, b)

LEMMA BatchesStep ==
    ASSUME TypeOK, [Next]_vars
    PROVE  /\ batches' \in [Batched -> 0..MaxBatches]
           /\ \A d \in Batched : batches[d] <= batches'[d]
<1>1. CASE UNCHANGED batches
  <2>1. batches \in [Batched -> 0..MaxBatches] /\ MaxBatches \in Nat
    BY IntakeConstants DEF TypeOK
  <2>2. \A d \in Batched : batches[d] \in Int
    BY <2>1
  <2> QED
    BY <1>1, <2>1, <2>2
<1>2. CASE \E b \in 0..MaxBatches : \E door : InBatch(door, b)
  BY <1>2, BatchFound
<1>3. ASSUME NEW b \in 0..MaxBatches, NEW s, Fresh(s, b)
      PROVE  \E x \in 0..MaxBatches : \E door : InBatch(door, x)
  BY <1>3 DEF Fresh
<1>4. Stores => \E b \in 0..MaxBatches : \E s : Fresh(s, b)
  BY DEF Stores, QueueForReview, LinkChat
<1>5. \A h \in Handlers :
        Begins(h) => (\E b \in 0..MaxBatches : \E s : Fresh(s, b)) \/ UNCHANGED batches
  BY DEF Begins, Receive, ReceiveChat, Approve
<1>6. \/ Stores \/ \E h \in Handlers : Begins(h)
      \/ UNCHANGED batches
  BY DEF Next, Stores, Begins, RefuseApproval, Decide, DecideAgainst, Notify, Commit, Abandon,
         Review, ReviewItem, StartOpportunity, CloseOpportunity, ReopenOpportunity, vars
<1> QED
  BY <1>1, <1>2, <1>3, <1>4, <1>5, <1>6

\* How a transaction comes about: a submission that is new, or the review of an
\* ad that waits for it.
OpensWith(h, s, door, b, stage, c) ==
    /\ Open(h, s, door, b, stage, c) /\ work[h] = Idle /\ LocksFree(s, door, b)
    /\ InBatch(door, b)
    /\ UNCHANGED <<crm, review>>
    /\ \/ /\ door = DoorOf(s) /\ Fresh(s, b)
          /\ c = 0 => Matches(Brings[s]) = {}
          /\ door # "chat" => Matches(Brings[s]) \subseteq {c}
       \/ door = "review" /\ s \in Ads /\ record[s].status \in Reviewable
    /\ door = "chat" <=> stage = "decided"

LEMMA TransactionOpens ==
    ASSUME TypeOK, NEW h \in Handlers, Begins(h)
    PROVE  \E s \in Submissions, door \in Doors, b \in 0..MaxBatches,
              stage \in {"classified", "decided"}, c \in 0..Len(contacts) :
              OpensWith(h, s, door, b, stage, c)
<1>1. ASSUME NEW b \in 0..MaxBatches, NEW s \in Submissions, Receive(h, s, b)
      PROVE  DoorOf(s) \in Doors /\ Match(Brings[s]) \in 0..Len(contacts)
             /\ OpensWith(h, s, DoorOf(s), b, "classified", Match(Brings[s]))
  <2>1. DoorOf(s) \in Doors /\ DoorOf(s) # "chat"
    BY <1>1, DoorOfSource DEF Receive, Doors
  <2>2. /\ Match(Brings[s]) \in 0..Len(contacts)
        /\ Match(Brings[s]) = 0 => Matches(Brings[s]) = {}
        /\ Matches(Brings[s]) \subseteq {Match(Brings[s])}
    BY <1>1, MatchTyped, OnlyMatch DEF Receive
  <2>3. LocksFree(s, DoorOf(s), b) /\ InBatch(DoorOf(s), b)
    BY <1>1 DEF Receive, Fresh
  <2> QED
    BY <1>1, <2>1, <2>2, <2>3 DEF Receive, OpensWith
<1>2. ASSUME NEW b \in 0..MaxBatches, NEW m \in Chats, ReceiveChat(h, m, b)
      PROVE  \E c \in 0..Len(contacts) : OpensWith(h, m, "chat", b, "decided", c)
  <2>1. m \in Submissions /\ DoorOf(m) = "chat"
    BY DoorOfSource DEF Submissions
  <2>2. PICK c \in (IF Matches(Brings[m]) = {} THEN {0} ELSE Matches(Brings[m])) :
          Open(h, m, "chat", b, "decided", c)
    BY <1>2 DEF ReceiveChat
  <2>3. Matches(Brings[m]) \subseteq 1..Len(contacts) /\ Len(contacts) \in Nat
    BY MatchTyped DEF TypeOK
  <2>4. c \in 0..Len(contacts) /\ (c = 0 => Matches(Brings[m]) = {})
    BY <2>2, <2>3
  <2>5. LocksFree(m, "chat", b) /\ InBatch("chat", b)
    BY <1>2, <2>1 DEF ReceiveChat, Fresh
  <2> QED
    BY <1>2, <2>1, <2>2, <2>4, <2>5 DEF ReceiveChat, OpensWith
<1>3. ASSUME NEW a \in Ads, Approve(h, a)
      PROVE  Match(Proposed(a)) \in 0..Len(contacts)
             /\ OpensWith(h, a, "review", 0, "classified", Match(Proposed(a)))
  <2>1. InBatch("review", 0)
    BY <1>3 DEF Approve, InBatch, Batched
  <2> QED
    BY <1>3, <2>1, MatchTyped DEF Approve, OpensWith
<1>4. Ads \subseteq Submissions /\ Chats \subseteq Submissions
      /\ "review" \in Doors /\ "chat" \in Doors /\ 0 \in 0..MaxBatches
  BY IntakeConstants DEF Submissions, Doors
<1>5. CASE \E b \in 0..MaxBatches, s \in Submissions : Receive(h, s, b)
  BY <1>1, <1>5
<1>6. CASE \E b \in 0..MaxBatches, m \in Chats : ReceiveChat(h, m, b)
  BY <1>2, <1>4, <1>6
<1>7. CASE \E a \in Ads : Approve(h, a)
  BY <1>3, <1>4, <1>7
<1> QED
  BY <1>5, <1>6, <1>7 DEF Begins

LEMMA TypeOfOpening ==
    ASSUME TypeOK, NEW h \in Handlers, NEW s \in Submissions, NEW door \in Doors,
           NEW b \in 0..MaxBatches, NEW stage \in {"classified", "decided"},
           NEW c \in 0..Len(contacts),
           OpensWith(h, s, door, b, stage, c)
    PROVE  TypeOK'
<1>1. work' \in [Handlers -> Works] /\ UNCHANGED <<crm, review>>
      /\ batches' \in [Batched -> 0..MaxBatches]
  BY Opening, BatchFound DEF OpensWith
<1> QED
  BY <1>1 DEF TypeOK, Works, crm, review

LEMMA TypeOfReview ==
    ASSUME TypeOK, NEW s \in Submissions, UNCHANGED crm,
           batches' \in [Batched -> 0..MaxBatches],
           BackToReview(s) \/ \E fetched \in BOOLEAN : ToReview(s, fetched),
           work' \in [Handlers -> Works]
    PROVE  TypeOK'
<1>1. /\ record' \in [Submissions -> RecordRows]
      /\ item' \in [Submissions -> ItemStatuses]
      /\ heard' \subseteq Events
  BY ReviewWritten
<1> QED
  BY <1>1 DEF TypeOK, RecordRows, Works, crm

LEMMA TypeOfCommit ==
    ASSUME TypeOK, BusyOK, NEW h \in Handlers, Commit(h)
    PROVE  TypeOK'
<1> DEFINE w == work[h]
<1>1. /\ w.of \in Submissions /\ w \in Works
      /\ Len(contacts) <= Len(contacts') /\ Len(contacts') \in Nat
      /\ contacts' \in Seq(Contacts)
  BY Committing
<1>2. /\ leads' \in Seq(LeadRows') /\ Len(leads') \in Nat /\ Len(leads) <= Len(leads')
      /\ LeadOf(w) \in 0..Len(leads')
  <2>1. Len(leads) \in Nat
    BY DEF TypeOK
  <2>2. /\ leads' \in Seq(LeadRows') /\ Len(leads') \in Nat
        /\ LeadOf(w) \in 0..Len(leads')
        /\ ~ Opens(w) => leads' = leads
        /\ Opens(w) => Len(leads') = Len(leads) + 1
    BY CommitLeads
  <2> HIDE DEF w
  <2>3. CASE Opens(w)
    BY <2>1, <2>2, <2>3
  <2>4. CASE ~ Opens(w)
    <3>1. leads' = leads
      BY <2>2, <2>4
    <3> QED
      BY <2>1, <2>2, <3>1
  <2> QED
    BY <2>3, <2>4
<1>3. Len(leads) \in Nat /\ Len(contacts) \in Nat
  BY DEF TypeOK
<1>4. RecordRows \subseteq RecordRows'
  BY <1>2, <1>3 DEF RecordRows
<1>5. record' \in [Submissions -> RecordRows']
  <2>1. record \in [Submissions -> RecordRows']
    BY <1>4 DEF TypeOK, RecordRows
  <2>2. CASE w.of \in Events
    BY <2>1, <2>2 DEF Commit
  <2>3. CASE w.of \notin Events
    <3>1. [record[w.of] EXCEPT !.status = "promoted", !.lead = LeadOf(w)] \in RecordRows'
      BY <1>1, <1>2, <2>1 DEF RecordRows, RecordStatuses
    <3>2. record' = [record EXCEPT ![w.of] =
                       [record[w.of] EXCEPT !.status = "promoted", !.lead = LeadOf(w)]]
      BY <2>3 DEF Commit
    <3> QED
      BY <2>1, <3>1, <3>2
  <2> QED
    BY <2>2, <2>3
<1>6. item' \in [Submissions -> ItemStatuses]
  <2>1. item \in [Submissions -> ItemStatuses]
    BY DEF TypeOK
  <2>2. Settled(w.of, "approved") \in ItemStatuses /\ item[w.of] \in ItemStatuses
    BY <1>1, <2>1 DEF Settled, ItemStatuses
  <2> DEFINE new == CASE w.of \in Events -> item[w.of]
                      [] w.door = "review" -> Settled(w.of, "approved")
                      [] w.door = "ad" -> "approved"
                      [] OTHER -> "resolved"
  <2>3. item' = [item EXCEPT ![w.of] = new]
    BY DEF Commit
  <2>4. new \in ItemStatuses
    <3>1. CASE w.of \in Events /\ w.door \in {"review", "ad"}
      <4>1. BusyOK /\ w.stage # "idle"
        BY DEF Commit
      <4>2. w.of \notin Ads
        BY <3>1, IntakeConstants
      <4> QED
        BY <1>1, <3>1, <4>1, <4>2, DoorOfSource DEF BusyOK
    <3>2. CASE w.of \in Events /\ w.door \notin {"review", "ad"}
      BY <2>2, <3>2 DEF ItemStatuses
    <3>3. CASE w.of \notin Events
      BY <2>2, <3>3 DEF ItemStatuses
    <3> QED
      BY <3>1, <3>2, <3>3
  <2> HIDE DEF new
  <2> QED
    BY <2>1, <2>3, <2>4
<1>7. heard' \subseteq Events
  BY DEF Commit, TypeOK
<1>8. tasks' \in [Keys -> Nat]
  <2>1. TaskKey(w.of) \in Keys /\ tasks \in [Keys -> Nat]
    BY <1>1, KeyTyped DEF TypeOK
  <2> QED
    BY <2>1 DEF Commit
<1>9. work' \in [Handlers -> Works'] /\ batches' \in [Batched -> 0..MaxBatches]
  <2>1. Works \subseteq Works'
    BY <1>1, <1>2, <1>3 DEF Works
  <2>2. work' \in [Handlers -> Works]
    BY Ending DEF Commit
  <2>3. batches' \in [Batched -> 0..MaxBatches]
    BY DEF Commit, TypeOK
  <2> QED
    BY <2>1, <2>2, <2>3
<1> QED
  BY <1>1, <1>2, <1>5, <1>6, <1>7, <1>8, <1>9 DEF TypeOK, LeadRows, RecordRows, Works

\* Decide and Notify note what the transaction learned.
LEMMA Deciding ==
    ASSUME TypeOK, BusyOK, NEW h \in Handlers, Decide(h) \/ Notify(h)
    PROVE  /\ work' \in [Handlers -> Works]
           /\ \A g \in Handlers \ {h} : work'[g] = work[g]
           /\ work'[h].of = work[h].of /\ work'[h].door = work[h].door
           /\ work'[h].batch = work[h].batch /\ work'[h].contact = work[h].contact
           /\ work[h].stage # "idle" /\ work'[h].stage # "idle"
           /\ work[h].of \in Submissions
           /\ UNCHANGED <<contacts, leads, tasks, record, item, heard>>
           /\ Decide(h) => /\ work[h].stage = "classified" /\ work'[h].stage = "decided"
                           /\ Active(work[h].contact) = {} => work'[h].lead = 0
                           /\ Active(work[h].contact) # {} =>
                                work'[h].lead \in Active(work[h].contact)
           /\ Notify(h) => /\ work[h].stage = "decided" /\ work'[h].stage = "notified"
                           /\ work'[h].lead = work[h].lead
                           /\ work'[h].told = (tasks[TaskKey(work[h].of)] > 0)
<1> DEFINE w == work[h]
<1>1. work \in [Handlers -> Works] /\ w \in Works /\ Len(leads) \in Nat
  BY DEF TypeOK, Works
<1>2. w.stage # "idle" /\ w.of \in Submissions
  BY DEF Decide, Notify, BusyOK
<1>3. UNCHANGED <<contacts, leads, tasks, record, item, heard>>
  BY DEF Decide, Notify, crm, review
<1>4. CASE Decide(h)
  <2> DEFINE n == IF Active(w.contact) = {} THEN 0 ELSE CHOOSE l \in Active(w.contact) : TRUE
  <2>1. w.stage = "classified" /\ work' = [work EXCEPT ![h] = [w EXCEPT !.stage = "decided", !.lead = n]]
    BY <1>4 DEF Decide
  <2>2. /\ n \in 0..Len(leads)
        /\ Active(w.contact) # {} => n \in Active(w.contact)
    BY <1>1, ActiveTyped
  <2>3. Active(w.contact) = {} => n = 0
    OBVIOUS
  <2> HIDE DEF n
  <2>4. /\ [w EXCEPT !.stage = "decided", !.lead = n] \in Works
        /\ work'[h] = [w EXCEPT !.stage = "decided", !.lead = n]
    BY <1>1, <2>1, <2>2 DEF Works
  <2>5. /\ work'[h].of = w.of /\ work'[h].door = w.door /\ work'[h].contact = w.contact
        /\ work'[h].batch = w.batch /\ work'[h].stage = "decided" /\ work'[h].lead = n
    BY <1>1, <2>4 DEF Works
  <2>6. ~ Notify(h)
    BY <2>1 DEF Notify
  <2> QED
    BY <1>1, <1>2, <1>3, <2>1, <2>2, <2>3, <2>4, <2>5, <2>6
<1>5. CASE Notify(h)
  <2> DEFINE t == tasks[TaskKey(w.of)] > 0
  <2>1. w.stage = "decided" /\ work' = [work EXCEPT ![h] = [w EXCEPT !.stage = "notified", !.told = t]]
    BY <1>5 DEF Notify
  <2>2. t \in BOOLEAN
    OBVIOUS
  <2> HIDE DEF t
  <2>3. /\ [w EXCEPT !.stage = "notified", !.told = t] \in Works
        /\ work'[h] = [w EXCEPT !.stage = "notified", !.told = t]
    BY <1>1, <2>1, <2>2 DEF Works
  <2>4. /\ work'[h].of = w.of /\ work'[h].door = w.door /\ work'[h].contact = w.contact
        /\ work'[h].batch = w.batch /\ work'[h].stage = "notified"
        /\ work'[h].lead = w.lead /\ work'[h].told = t
    BY <1>1, <2>3 DEF Works
  <2>5. ~ Decide(h)
    BY <2>1 DEF Decide
  <2> QED
    BY <1>1, <1>2, <1>3, <2>1, <2>3, <2>4, <2>5 DEF t
<1> QED
  BY <1>4, <1>5

\* More opportunities leave the references to them valid.
LEMMA WiderLeads ==
    ASSUME TypeOK, UNCHANGED <<contacts, tasks, review, batches, work>>,
           leads' \in Seq(LeadRows), Len(leads) <= Len(leads'), Len(leads) \in Nat
    PROVE  TypeOK'
<1>1. Len(leads') \in Nat /\ LeadRows' = LeadRows
  BY DEF LeadRows
<1>2. Works \subseteq Works' /\ RecordRows \subseteq RecordRows'
  BY <1>1 DEF Works, RecordRows
<1>3. work' \in [Handlers -> Works'] /\ record' \in [Submissions -> RecordRows']
  BY <1>2 DEF TypeOK, Works, RecordRows, review
<1> QED
  BY <1>1, <1>3 DEF TypeOK, LeadRows, Works, RecordRows, review

LEMMA TypeStep ==
    ASSUME TypeOK, BusyOK, [Next]_vars
    PROVE  TypeOK'
<1>0. batches' \in [Batched -> 0..MaxBatches]
  BY BatchesStep
<1>1. CASE UNCHANGED vars
  BY <1>1 DEF TypeOK, vars
<1>2. ASSUME NEW s \in Submissions, NEW b \in 0..MaxBatches, QueueForReview(s, b)
      PROVE  TypeOK'
  <2>1. /\ UNCHANGED <<crm, work>>
        /\ \E fetched \in BOOLEAN : ToReview(s, fetched)
    BY <1>2 DEF QueueForReview
  <2>2. work' \in [Handlers -> Works]
    BY <2>1 DEF TypeOK, Works
  <2> QED
    BY <1>0, <2>1, <2>2, TypeOfReview
<1>3. ASSUME NEW m \in Chats, NEW b \in 0..MaxBatches, LinkChat(m, b)
      PROVE  TypeOK'
  <2>1. m \in Submissions /\ record \in [Submissions -> RecordRows]
    BY DEF Submissions, TypeOK, RecordRows
  <2>2. PICK c \in Matches(Brings[m]) : \E l \in LeadsOf(c) :
          record' = [record EXCEPT ![m].status = "promoted", ![m].lead = l]
    BY <1>3 DEF LinkChat
  <2>3. PICK l \in LeadsOf(c) :
          record' = [record EXCEPT ![m].status = "promoted", ![m].lead = l]
    BY <2>2
  <2>4. l \in 0..Len(leads)
    BY DEF LeadsOf, TypeOK
  <2>5. [record[m] EXCEPT !.status = "promoted", !.lead = l] \in RecordRows
    BY <2>1, <2>4 DEF RecordRows, RecordStatuses
  <2>6. record' \in [Submissions -> RecordRows]
    BY <2>1, <2>3, <2>5
  <2> QED
    BY <1>0, <1>3, <2>1, <2>6 DEF LinkChat, TypeOK, RecordRows, ItemStatuses, crm
<1>4. ASSUME NEW a \in Ads, RefuseApproval(a)
      PROVE  TypeOK'
  <2>1. a \in Submissions /\ UNCHANGED <<crm, work>> /\ BackToReview(a)
    BY <1>4 DEF RefuseApproval, Submissions
  <2>2. work' \in [Handlers -> Works]
    BY <2>1 DEF TypeOK, Works
  <2> QED
    BY <1>0, <2>1, <2>2, TypeOfReview
<1>5. ASSUME NEW h \in Handlers, Begins(h)
      PROVE  TypeOK'
  BY <1>5, TransactionOpens, TypeOfOpening
<1>6. ASSUME NEW h \in Handlers, Decide(h) \/ Notify(h)
      PROVE  TypeOK'
  BY <1>0, <1>6, Deciding DEF TypeOK, Works
<1>7. ASSUME NEW h \in Handlers, DecideAgainst(h)
      PROVE  TypeOK'
  <2>1. work[h].of \in Submissions
    BY <1>7 DEF DecideAgainst, BusyOK
  <2>2. /\ UNCHANGED crm /\ work' = [work EXCEPT ![h] = Idle]
        /\ BackToReview(work[h].of) \/ ToReview(work[h].of, TRUE)
    BY <1>7 DEF DecideAgainst
  <2>3. work' \in [Handlers -> Works]
    BY <2>2, Ending
  <2> QED
    BY <1>0, <2>1, <2>2, <2>3, TypeOfReview
<1>8. ASSUME NEW h \in Handlers, Abandon(h)
      PROVE  TypeOK'
  <2>1. work[h].stage # "idle" /\ work[h].of \in Submissions
    BY <1>8 DEF Abandon, Busy, BusyOK
  <2>2. UNCHANGED crm /\ work' \in [Handlers -> Works]
    BY <1>8, Ending DEF Abandon
  <2>3. CASE UNCHANGED review
    BY <1>0, <2>2, <2>3 DEF TypeOK, Works, crm, review
  <2>4. CASE BackToReview(work[h].of)
    BY <1>0, <2>1, <2>2, <2>4, TypeOfReview
  <2> QED
    BY <1>8, <2>3, <2>4 DEF Abandon
<1>9. ASSUME NEW s \in Submissions, NEW status \in Decisions,
             Review(s, status) \/ ReviewItem(s, status)
      PROVE  TypeOK'
  <2>1. status \in RecordStatuses /\ status \in ItemStatuses
    BY IntakeConstants DEF Reviewable, RecordStatuses, ItemStatuses
  <2>2. record \in [Submissions -> RecordRows] /\ item \in [Submissions -> ItemStatuses]
    BY DEF TypeOK, RecordRows
  <2>3. [record[s] EXCEPT !.status = status] \in RecordRows /\ Settled(s, status) \in ItemStatuses
    BY <2>1, <2>2 DEF RecordRows, Settled
  <2>4. record' = [record EXCEPT ![s] = [record[s] EXCEPT !.status = status]] \/ record' = record
    BY <1>9 DEF Review, ReviewItem
  <2>5. record' \in [Submissions -> RecordRows]
    BY <2>2, <2>3, <2>4
  <2>6. item' \in [Submissions -> ItemStatuses]
    BY <1>9, <2>1, <2>2, <2>3 DEF Review, ReviewItem
  <2> QED
    BY <1>0, <1>9, <2>5, <2>6 DEF Review, ReviewItem, TypeOK, RecordRows, crm
<1>10. ASSUME NEW c \in 1..Len(contacts), StartOpportunity(c)
       PROVE  TypeOK'
  <2> DEFINE row == [contact |-> c, active |-> TRUE, from |-> None]
  <2>1. leads \in Seq(LeadRows) /\ row \in LeadRows /\ leads' = Append(leads, row)
    BY <1>10 DEF TypeOK, LeadRows, StartOpportunity
  <2> HIDE DEF row
  <2>2. leads' \in Seq(LeadRows) /\ Len(leads') = Len(leads) + 1 /\ Len(leads) \in Nat
    BY <2>1
  <2> QED
    BY <1>10, <2>2, WiderLeads DEF StartOpportunity, LeadRows
<1>11. ASSUME NEW l \in 1..Len(leads), CloseOpportunity(l) \/ ReopenOpportunity(l)
       PROVE  TypeOK'
  <2>1. leads \in Seq(LeadRows) /\ leads[l] \in LeadRows
    <3>1. leads \in Seq(LeadRows)
      BY DEF TypeOK, LeadRows
    <3> QED
      BY <3>1
  <2>2. PICK b \in BOOLEAN : leads' = [leads EXCEPT ![l].active = b]
    BY <1>11 DEF CloseOpportunity, ReopenOpportunity
  <2>3. [leads[l] EXCEPT !.active = b] \in LeadRows
    BY <2>1, <2>2 DEF LeadRows
  <2>4. leads' \in Seq(LeadRows) /\ Len(leads') = Len(leads) /\ Len(leads) \in Nat
    BY <2>1, <2>2, <2>3
  <2> QED
    BY <1>11, <2>4, WiderLeads DEF CloseOpportunity, ReopenOpportunity
<1> QED
  BY <1>1, <1>2, <1>3, <1>4, <1>5, <1>6, <1>7, <1>8, <1>9, <1>10, <1>11,
     TypeOfCommit DEF Next, Begins

-----------------------------------------------------------------------------
(* Locks, and what they keep apart.                                        *)

LEMMA LockNames ==
    ASSUME NEW s, NEW door, NEW b
    PROVE  /\ <<door, s>> \in LocksOf(s, door, b)
           /\ door \in Batched => <<door, "batch", b>> \in LocksOf(s, door, b)
           /\ door \in {"form", "event"} =>
                IdentityLocks(door, Brings[s]) \subseteq LocksOf(s, door, b)
  BY DEF LocksOf, Batched

LEMMA StoredMeans ==
    ASSUME NEW s \in Submissions, ~ Stored(s)
    PROVE  /\ s \in Forms => ~ record[s].lead > 0
           /\ s \in Ads \cup Chats => record[s].status = "none"
           /\ s \in Events => s \notin heard
  BY IntakeConstants DEF Stored

\* A submission whose transaction may begin is in no other transaction and has
\* opened nothing.
Waits(s, door, b) ==
    /\ LocksFree(s, door, b)
    /\ \/ door = DoorOf(s) /\ ~ Stored(s)
       \/ door = "review" /\ s \in Ads /\ record[s].status \in Reviewable

LEMMA WaitsAlone ==
    ASSUME BusyOK, RecordsOK, NEW s \in Submissions, NEW door, NEW b, Waits(s, door, b)
    PROVE  /\ \A g \in Handlers : work[g].stage # "idle" =>
                /\ work[g].of # s
                /\ LocksHeld(g) \cap LocksOf(s, door, b) = {}
           /\ ~ Opened(s)
<1>1. ASSUME NEW g \in Handlers, work[g].stage # "idle"
      PROVE  LocksHeld(g) \cap LocksOf(s, door, b) = {}
  BY <1>1 DEF Waits, LocksFree, Held, Busy, LocksHeld
<1>2. ASSUME NEW g \in Handlers, work[g].stage # "idle", work[g].of = s
      PROVE  FALSE
  <2>1. work[g].door # door
    BY <1>1, <1>2, LockNames DEF LocksHeld
  <2>2. /\ work[g].door = DoorOf(s) \/ (work[g].door = "review" /\ s \in Ads)
        /\ work[g].door = "review" => record[s].status \in Reviewable
        /\ work[g].door = "ad" => record[s].status = "none"
    BY <1>2 DEF BusyOK
  <2>3. "none" \notin Reviewable
    BY DEF Reviewable
  <2>4. CASE door = DoorOf(s) /\ ~ Stored(s)
    BY <2>1, <2>2, <2>3, <2>4, StoredMeans
  <2>5. CASE door = "review" /\ s \in Ads /\ record[s].status \in Reviewable
    BY <2>1, <2>2, <2>3, <2>5, DoorOfSource
  <2> QED
    BY <2>4, <2>5 DEF Waits
<1>3. ~ Opened(s)
  <2>1. "none" \notin Reviewable /\ "promoted" \notin Reviewable
    BY DEF Reviewable
  <2>2. CASE door = DoorOf(s) /\ ~ Stored(s)
    BY <2>2, StoredMeans DEF RecordsOK, Submissions
  <2>3. CASE door = "review" /\ s \in Ads /\ record[s].status \in Reviewable
    BY <2>1, <2>3 DEF RecordsOK
  <2> QED
    BY <2>2, <2>3 DEF Waits
<1> QED
  BY <1>1, <1>2, <1>3

\* No two transactions are of one submission.
LEMMA BusyApart ==
    ASSUME BusyOK, LocksApart, NEW g \in Handlers, NEW h \in Handlers, g # h,
           work[g].stage # "idle", work[h].stage # "idle"
    PROVE  work[g].of # work[h].of
<1> SUFFICES ASSUME work[g].of = work[h].of
             PROVE  FALSE
  OBVIOUS
<1>1. work[g].door # work[h].door
  <2> DEFINE lock == <<work[h].door, work[h].of>>
  <2>1. lock \in LocksHeld(h) /\ (work[g].door = work[h].door => lock \in LocksHeld(g))
    BY LockNames DEF LocksHeld
  <2>2. LocksHeld(g) \cap LocksHeld(h) = {}
    BY DEF LocksApart
  <2> QED
    BY <2>1, <2>2
<1>2. "none" \notin Reviewable
  BY DEF Reviewable
<1> QED
  BY <1>1, <1>2, DoorOfSource DEF BusyOK

\* Who opens an opportunity does not change by what staff do.
LEMMA StaffLeads ==
    ASSUME TypeOK,
           \/ \E c \in 1..Len(contacts) : StartOpportunity(c)
           \/ \E l \in 1..Len(leads) : CloseOpportunity(l) \/ ReopenOpportunity(l)
    PROVE  /\ Len(leads) \in Nat /\ Len(leads') \in Nat /\ Len(leads) <= Len(leads')
           /\ \A k \in 1..Len(leads) : /\ leads'[k].from = leads[k].from
                                       /\ leads'[k].contact = leads[k].contact
           /\ \A k \in 1..Len(leads') : k \notin 1..Len(leads) => leads'[k].from = None
           /\ \A s \in Submissions : OpenedNext(s) <=> Opened(s)
           /\ UNCHANGED <<contacts, tasks, record, item, heard, work>>
<1>0. leads \in Seq(LeadRows) /\ Len(leads) \in Nat
  BY DEF TypeOK, LeadRows
<1>1. UNCHANGED <<contacts, tasks, record, item, heard, work>>
  BY DEF StartOpportunity, CloseOpportunity, ReopenOpportunity, review
<1>2. ASSUME NEW c \in 1..Len(contacts), StartOpportunity(c)
      PROVE  /\ Len(leads') = Len(leads) + 1
             /\ \A k \in 1..Len(leads) : leads'[k] = leads[k]
             /\ leads'[Len(leads) + 1].from = None
  BY <1>0, <1>2 DEF StartOpportunity
<1>3. ASSUME NEW l \in 1..Len(leads), CloseOpportunity(l) \/ ReopenOpportunity(l)
      PROVE  /\ Len(leads') = Len(leads)
             /\ \A k \in 1..Len(leads) : /\ leads'[k].from = leads[k].from
                                         /\ leads'[k].contact = leads[k].contact
  <2>1. \A k \in 1..Len(leads) : leads[k] \in LeadRows
    BY <1>0
  <2>2. PICK b \in BOOLEAN : leads' = [leads EXCEPT ![l].active = b]
    BY <1>3 DEF CloseOpportunity, ReopenOpportunity
  <2> QED
    BY <1>0, <2>1, <2>2 DEF LeadRows
<1>4. /\ Len(leads') \in Nat /\ Len(leads) <= Len(leads')
      /\ \A k \in 1..Len(leads) : /\ leads'[k].from = leads[k].from
                                  /\ leads'[k].contact = leads[k].contact
      /\ \A k \in 1..Len(leads') : k \notin 1..Len(leads) => leads'[k].from = None
  BY <1>0, <1>2, <1>3
<1>5. \A s \in Submissions : OpenedNext(s) <=> Opened(s)
  <2> SUFFICES ASSUME NEW s \in Submissions
               PROVE  OpenedNext(s) <=> Opened(s)
    OBVIOUS
  <2>1. ASSUME NEW k \in 1..Len(leads'), leads'[k].from = s
        PROVE  k \in 1..Len(leads) /\ leads[k].from = s
    BY <1>4, <2>1, IntakeConstants
  <2>2. \A k \in 1..Len(leads) : k \in 1..Len(leads')
    BY <1>0, <1>4
  <2> QED
    BY <1>4, <2>1, <2>2 DEF Opened, OpenedNext
<1> QED
  BY <1>0, <1>1, <1>4, <1>5

-----------------------------------------------------------------------------
(* BusyOK, LocksApart and RecordsOK.                                       *)

\* What an opening transaction waited for.
LEMMA OpeningWaited ==
    ASSUME NEW h \in Handlers, NEW s \in Submissions, NEW door, NEW b, NEW stage, NEW c,
           OpensWith(h, s, door, b, stage, c)
    PROVE  Waits(s, door, b)
  BY DEF OpensWith, Waits, Fresh

\* A transaction that goes on, with its submission, is all right if neither the
\* opportunities nor the record of its submission change for it.
LEMMA StillBusy ==
    ASSUME BusyOK, NEW g \in Handlers, work[g].stage # "idle",
           work'[g].of = work[g].of, work'[g].door = work[g].door,
           work'[g].stage = "notified" => work[g].of \notin Chats,
           OpenedNext(work[g].of) => Opened(work[g].of),
           record'[work[g].of].status = record[work[g].of].status
    PROVE  LET w == work'[g] IN
           /\ w.of \in Submissions
           /\ w.door = DoorOf(w.of) \/ (w.door = "review" /\ w.of \in Ads)
           /\ w.stage = "notified" => w.of \notin Chats
           /\ ~ OpenedNext(w.of)
           /\ w.door = "review" => record'[w.of].status \in Reviewable
           /\ w.door = "ad" => record'[w.of].status = "none"
  BY DEF BusyOK

\* A step that ends one transaction at most, writes the record of its
\* submission, and opens no opportunity for another one.
LEMMA BusyElsewhere ==
    ASSUME BusyOK, NEW s \in Submissions,
           \A g \in Handlers : work'[g].stage # "idle" =>
               work[g].stage # "idle" /\ work'[g] = work[g] /\ work[g].of # s,
           \A t \in Submissions \ {s} : record'[t] = record[t],
           \A t \in Submissions \ {s} : OpenedNext(t) => Opened(t)
    PROVE  BusyOK'
<1> SUFFICES ASSUME NEW g \in Handlers, work'[g].stage # "idle"
             PROVE  LET w == work'[g] IN
                    /\ w.of \in Submissions
                    /\ w.door = DoorOf(w.of) \/ (w.door = "review" /\ w.of \in Ads)
                    /\ w.stage = "notified" => w.of \notin Chats
                    /\ ~ OpenedNext(w.of)
                    /\ w.door = "review" => record'[w.of].status \in Reviewable
                    /\ w.door = "ad" => record'[w.of].status = "none"
  BY DEF BusyOK, Opened, OpenedNext
<1>1. work[g].stage # "idle" /\ work'[g] = work[g] /\ work[g].of # s
  OBVIOUS
<1>2. work[g].of \in Submissions /\ (work[g].stage = "notified" => work[g].of \notin Chats)
  BY <1>1 DEF BusyOK
<1>3. record'[work[g].of] = record[work[g].of] /\ (OpenedNext(work[g].of) => Opened(work[g].of))
  BY <1>1, <1>2
<1> QED
  BY <1>1, <1>2, <1>3, StillBusy

\* A commit opens an opportunity for its own submission at most.
LEMMA CommitOpens ==
    ASSUME TypeOK, BusyOK, NEW h \in Handlers, Commit(h)
    PROVE  /\ \A t : t # work[h].of => (OpenedNext(t) => Opened(t))
           /\ ~ Opens(work[h]) => \A t : OpenedNext(t) => Opened(t)
<1>1. /\ Len(leads) \in Nat
      /\ \A l \in 1..Len(leads) : leads'[l] = leads[l]
      /\ ~ Opens(work[h]) => leads' = leads
      /\ Opens(work[h]) => Len(leads') = Len(leads) + 1 /\ leads'[Len(leads')].from = work[h].of
  BY CommitLeads DEF TypeOK
<1>2. CASE Opens(work[h])
  <2> SUFFICES ASSUME NEW t, t # work[h].of, NEW l \in 1..Len(leads'), leads'[l].from = t
               PROVE  Opened(t)
    BY <1>2 DEF OpenedNext
  <2>1. l \in 1..Len(leads)
    BY <1>1, <1>2
  <2> QED
    BY <1>1, <2>1 DEF Opened
<1>3. CASE ~ Opens(work[h])
  BY <1>1, <1>3 DEF Opened, OpenedNext
<1> QED
  BY <1>2, <1>3

\* What an action on one submission does.
LEMMA Commits ==
    ASSUME TypeOK, BusyOK, NEW h \in Handlers, Commit(h)
    PROVE  LET s == work[h].of IN
           /\ s \in Submissions /\ work[h].stage \in {"decided", "notified"} /\ ~ Opened(s)
           /\ \A t \in Submissions \ {s} : record'[t] = record[t] /\ (OpenedNext(t) => Opened(t))
           /\ s \in Events => record' = record
           /\ s \notin Events => record'[s].status = "promoted"
                                 /\ record'[s].lead = LeadOf(work[h])
           /\ ~ Opens(work[h]) => ~ OpenedNext(s)
<1> DEFINE w == work[h]
           s == w.of
<1>1. w \in Works /\ w.stage \in {"decided", "notified"} /\ s \in Submissions
  BY Committing
<1>2. ~ Opened(s)
  BY <1>1 DEF BusyOK
<1>3. record \in [Submissions -> RecordRows] /\ Len(leads) \in Nat
  BY DEF TypeOK, RecordRows
<1>4. /\ \A l \in 1..Len(leads) : leads'[l] = leads[l]
      /\ ~ Opens(w) => leads' = leads
      /\ Opens(w) => Len(leads') = Len(leads) + 1 /\ leads'[Len(leads')].from = s
  BY CommitLeads
<1>5. CASE s \in Events
  <2>1. record' = record
    BY <1>5 DEF Commit
  <2> QED
    BY <1>1, <1>2, <1>5, <2>1, CommitOpens
<1>6. CASE s \notin Events
  <2>1. record' = [record EXCEPT ![s] = [record[s] EXCEPT !.status = "promoted", !.lead = LeadOf(w)]]
    BY <1>6 DEF Commit
  <2>2. record'[s].status = "promoted" /\ record'[s].lead = LeadOf(w)
    BY <1>1, <1>3, <2>1 DEF RecordRows
  <2>3. \A t \in Submissions \ {s} : record'[t] = record[t]
    BY <2>1, <1>3
  <2> QED
    BY <1>1, <1>2, <1>6, <2>2, <2>3, CommitOpens
<1> QED
  BY <1>5, <1>6

LEMMA BusyStep ==
    ASSUME TypeOK, BusyOK, LocksApart, RecordsOK, [Next]_vars
    PROVE  BusyOK'
<1>1. UNCHANGED leads => \A t : OpenedNext(t) <=> Opened(t)
  BY DEF Opened, OpenedNext
<1>2. CASE UNCHANGED vars
  BY <1>2 DEF BusyOK, Opened, vars
<1>3. ASSUME NEW s \in Submissions, NEW door, NEW b, Waits(s, door, b),
             UNCHANGED <<leads, work>>, \A t \in Submissions \ {s} : record'[t] = record[t]
      PROVE  BusyOK'
  BY <1>1, <1>3, WaitsAlone, BusyElsewhere
<1>4. ASSUME NEW s \in Submissions, NEW b \in 0..MaxBatches, QueueForReview(s, b)
      PROVE  BusyOK'
  <2>1. Waits(s, DoorOf(s), b) /\ UNCHANGED <<leads, work>>
    BY <1>4 DEF QueueForReview, Fresh, Waits, crm
  <2>2. \A t \in Submissions \ {s} : record'[t] = record[t]
    BY <1>4, ReviewWritten DEF QueueForReview
  <2> QED
    BY <1>3, <2>1, <2>2
<1>5. ASSUME NEW m \in Chats, NEW b \in 0..MaxBatches, LinkChat(m, b)
      PROVE  BusyOK'
  <2>1. m \in Submissions /\ Waits(m, DoorOf(m), b) /\ UNCHANGED <<leads, work>>
    BY <1>5 DEF LinkChat, Fresh, Waits, Submissions, crm
  <2>2. \A t \in Submissions \ {m} : record'[t] = record[t]
    BY <1>5 DEF LinkChat, TypeOK
  <2> QED
    BY <1>3, <2>1, <2>2
<1>6. ASSUME NEW a \in Ads, RefuseApproval(a)
      PROVE  BusyOK'
  <2>1. a \in Submissions /\ Waits(a, "review", 0) /\ UNCHANGED <<leads, work>>
    BY <1>6 DEF RefuseApproval, Waits, Submissions, crm
  <2>2. \A t \in Submissions \ {a} : record'[t] = record[t]
    BY <1>6, <2>1, ReviewWritten DEF RefuseApproval
  <2> QED
    BY <1>3, <2>1, <2>2
<1>7. ASSUME NEW h \in Handlers, Begins(h)
      PROVE  BusyOK'
  <2>1. PICK s \in Submissions, door \in Doors, b \in 0..MaxBatches,
             stage \in {"classified", "decided"}, c \in 0..Len(contacts) :
             OpensWith(h, s, door, b, stage, c)
    BY <1>7, TransactionOpens
  <2>2. Waits(s, door, b) /\ ~ Opened(s) /\ UNCHANGED <<leads, record>>
    BY <2>1, OpeningWaited, WaitsAlone DEF OpensWith, crm, review
  <2>3. /\ work'[h].of = s /\ work'[h].door = door /\ work'[h].stage = stage
        /\ \A g \in Handlers \ {h} : work'[g] = work[g]
    <3>1. Open(h, s, door, b, stage, c)
      BY <2>1 DEF OpensWith
    <3> QED
      BY <3>1, Opening
  <2>4. door = "ad" => s \in Ads /\ ~ Stored(s)
    BY <2>2, DoorOfSource DEF Waits
  <2>5. door = DoorOf(s) \/ (door = "review" /\ s \in Ads /\ record[s].status \in Reviewable)
    BY <2>2 DEF Waits
  <2>6. door = DoorOf(s) => door # "review"
    BY DoorOfSource
  <2>7. door = "ad" => record[s].status = "none"
    BY <2>4, StoredMeans
  <2> QED
    BY <1>1, <2>2, <2>3, <2>5, <2>6, <2>7 DEF BusyOK, Opened, OpenedNext
<1>8. ASSUME NEW h \in Handlers, Decide(h) \/ Notify(h)
      PROVE  BusyOK'
  <2>1. /\ \A g \in Handlers \ {h} : work'[g] = work[g]
        /\ work'[h].of = work[h].of /\ work'[h].door = work[h].door /\ work[h].stage # "idle"
        /\ UNCHANGED <<leads, record>>
    BY <1>8, Deciding
  <2>2. work'[h].stage = "notified" => work[h].of \notin Chats
    <3>1. CASE Decide(h)
      BY <3>1, Deciding
    <3>2. CASE Notify(h)
      BY <3>2 DEF Notify, Tells
    <3> QED
      BY <1>8, <3>1, <3>2
  <2> QED
    BY <2>1, <2>2 DEF BusyOK, Opened
<1>9. ASSUME NEW h \in Handlers, work[h].stage # "idle", work' = [work EXCEPT ![h] = Idle],
             \A t \in Submissions \ {work[h].of} :
                record'[t] = record[t] /\ (OpenedNext(t) => Opened(t))
      PROVE  BusyOK'
  <2>1. work'[h].stage = "idle" /\ \A g \in Handlers \ {h} : work'[g] = work[g]
    BY <1>9, Ending
  <2>2. \A g \in Handlers : work'[g].stage # "idle" =>
          work[g].stage # "idle" /\ work'[g] = work[g] /\ work[g].of # work[h].of
    BY <1>9, <2>1, BusyApart
  <2>3. work[h].of \in Submissions
    BY <1>9 DEF BusyOK
  <2> QED
    BY <1>9, <2>2, <2>3, BusyElsewhere
<1>10. ASSUME NEW h \in Handlers, DecideAgainst(h)
       PROVE  BusyOK'
  <2>1. work[h].stage # "idle" /\ work[h].of \in Submissions /\ UNCHANGED leads
        /\ work' = [work EXCEPT ![h] = Idle]
    BY <1>10 DEF DecideAgainst, BusyOK, crm
  <2>2. \A t \in Submissions \ {work[h].of} : record'[t] = record[t]
    BY <1>10, <2>1, ReviewWritten DEF DecideAgainst
  <2> QED
    BY <1>1, <1>9, <2>1, <2>2
<1>11. ASSUME NEW h \in Handlers, Commit(h)
       PROVE  BusyOK'
  <2>1. work[h].stage # "idle" /\ work' = [work EXCEPT ![h] = Idle]
    BY <1>11, Commits DEF Commit
  <2> QED
    BY <1>9, <1>11, <2>1, Commits
<1>12. ASSUME NEW h \in Handlers, Abandon(h)
       PROVE  BusyOK'
  <2>1. work[h].stage # "idle" /\ work[h].of \in Submissions /\ UNCHANGED leads
        /\ work' = [work EXCEPT ![h] = Idle]
    BY <1>12 DEF Abandon, Busy, BusyOK, crm
  <2>2. \A t \in Submissions \ {work[h].of} : record'[t] = record[t]
    BY <1>12, <2>1, ReviewWritten DEF Abandon, review
  <2> QED
    BY <1>1, <1>9, <2>1, <2>2
<1>13. ASSUME NEW s \in Submissions, NEW status \in Decisions,
              Review(s, status) \/ ReviewItem(s, status)
       PROVE  BusyOK'
  <2>1. /\ UNCHANGED <<leads, work>> /\ LocksFree(s, "review", 0)
        /\ record' # record => record[s].status \in Reviewable
        /\ \A t \in Submissions \ {s} : record'[t] = record[t]
    BY <1>13 DEF Review, ReviewItem, crm, TypeOK
  <2>2. ASSUME NEW g \in Handlers, work[g].stage # "idle", work[g].door \in {"review", "ad"},
               work[g].of = s
        PROVE  record' = record
    <3>1. work[g].door # "review"
      <4> SUFFICES ASSUME work[g].door = "review"
                   PROVE  FALSE
        OBVIOUS
      <4>1. /\ <<"review", s>> \in LocksOf(s, "review", 0)
            /\ <<"review", s>> \in LocksOf(s, "review", work[g].batch)
        BY LockNames
      <4>2. <<"review", s>> \in Held
        BY <2>2, <4>1 DEF Held, Busy
      <4> QED
        BY <2>1, <4>1, <4>2 DEF LocksFree
    <3>2. record[s].status = "none"
      BY <2>2, <3>1 DEF BusyOK
    <3> QED
      BY <2>1, <3>2 DEF Reviewable
  <2>3. \A g \in Handlers : work[g].stage # "idle" /\ work[g].door \in {"review", "ad"} =>
          record'[work[g].of] = record[work[g].of]
    BY <2>1, <2>2 DEF BusyOK
  <2> QED
    BY <2>1, <2>3 DEF BusyOK, Opened
<1>14. CASE \/ \E c \in 1..Len(contacts) : StartOpportunity(c)
            \/ \E l \in 1..Len(leads) : CloseOpportunity(l) \/ ReopenOpportunity(l)
  <2>1. /\ \A s \in Submissions : OpenedNext(s) <=> Opened(s)
        /\ UNCHANGED <<record, work>>
    BY <1>14, StaffLeads
  <2> QED
    BY <2>1 DEF BusyOK, Opened, OpenedNext
<1> QED
  BY <1>2, <1>4, <1>5, <1>6, <1>7, <1>8, <1>10, <1>11, <1>12, <1>13,
     <1>14 DEF Next, Begins

\* What a step does to the transactions: one may be opened, and the others go on
\* with their submissions or end.
LEMMA WorkMoves ==
    ASSUME TypeOK, BusyOK, [Next]_vars
    PROVE  \/ \E h \in Handlers, s \in Submissions, door \in Doors, b \in 0..MaxBatches,
                 stage \in {"classified", "decided"}, c \in 0..Len(contacts) :
                 OpensWith(h, s, door, b, stage, c)
           \/ \A g \in Handlers : work'[g].stage # "idle" =>
                /\ work[g].stage # "idle"
                /\ work'[g].of = work[g].of /\ work'[g].door = work[g].door
                /\ work'[g].batch = work[g].batch /\ work'[g].contact = work[g].contact
<1> DEFINE Goes == \A g \in Handlers : work'[g].stage # "idle" =>
                     /\ work[g].stage # "idle"
                     /\ work'[g].of = work[g].of /\ work'[g].door = work[g].door
                     /\ work'[g].batch = work[g].batch /\ work'[g].contact = work[g].contact
<1>1. CASE UNCHANGED work
  BY <1>1
<1>2. ASSUME NEW h \in Handlers, work' = [work EXCEPT ![h] = Idle]
      PROVE  Goes
  BY <1>2, Ending
<1>3. ASSUME NEW h \in Handlers, Decide(h) \/ Notify(h)
      PROVE  Goes
  BY <1>3, Deciding
<1>4. ASSUME NEW h \in Handlers, DecideAgainst(h) \/ Commit(h) \/ Abandon(h)
      PROVE  Goes
  <2>1. work' = [work EXCEPT ![h] = Idle]
    BY <1>4 DEF DecideAgainst, Commit, Abandon
  <2> QED
    BY <1>2, <2>1
<1>5. ASSUME \/ Stores
             \/ \E a \in Ads : RefuseApproval(a)
             \/ \E s \in Submissions :
                  \/ \E status \in Decisions : Review(s, status)
                  \/ \E status \in Decisions \ {"approved"} : ReviewItem(s, status)
             \/ \E c \in 1..Len(contacts) : StartOpportunity(c)
             \/ \E l \in 1..Len(leads) : CloseOpportunity(l) \/ ReopenOpportunity(l)
             \/ UNCHANGED vars
      PROVE  UNCHANGED work
  BY <1>5 DEF Stores, QueueForReview, LinkChat, RefuseApproval, Review, ReviewItem,
              StartOpportunity, CloseOpportunity, ReopenOpportunity, vars
<1> HIDE DEF Goes
<1>6. ASSUME NEW h \in Handlers, Begins(h)
      PROVE  \E s \in Submissions, door \in Doors, b \in 0..MaxBatches,
                stage \in {"classified", "decided"}, c \in 0..Len(contacts) :
                OpensWith(h, s, door, b, stage, c)
  BY <1>6, TransactionOpens
<1>7. Goes \/ \E h \in Handlers, s \in Submissions, door \in Doors, b \in 0..MaxBatches,
                 stage \in {"classified", "decided"}, c \in 0..Len(contacts) :
                 OpensWith(h, s, door, b, stage, c)
  <2>1. UNCHANGED work => Goes
    BY <1>1 DEF Goes
  <2> QED
    BY <1>3, <1>4, <1>5, <1>6, <2>1 DEF Next, Stores, Begins
<1> QED
  BY <1>7 DEF Goes

LEMMA LocksStep ==
    ASSUME TypeOK, BusyOK, LocksApart, RecordsOK, [Next]_vars
    PROVE  LocksApart'
<1>1. ASSUME NEW h \in Handlers, NEW s \in Submissions, NEW door \in Doors,
             NEW b \in 0..MaxBatches, NEW stage \in {"classified", "decided"},
             NEW c \in 0..Len(contacts),
             OpensWith(h, s, door, b, stage, c)
      PROVE  LocksApart'
  <2>1. Open(h, s, door, b, stage, c) /\ Waits(s, door, b)
    BY <1>1, OpeningWaited DEF OpensWith
  <2>2. /\ work'[h].of = s /\ work'[h].door = door /\ work'[h].batch = b
        /\ \A g \in Handlers \ {h} : work'[g] = work[g]
    BY <2>1, Opening
  <2>3. \A g \in Handlers : work[g].stage # "idle" =>
          LocksHeld(g) \cap LocksOf(s, door, b) = {}
    BY <2>1, WaitsAlone
  <2> QED
    BY <2>2, <2>3 DEF LocksApart, LocksHeld
<1>2. CASE \A g \in Handlers : work'[g].stage # "idle" =>
             /\ work[g].stage # "idle"
             /\ work'[g].of = work[g].of /\ work'[g].door = work[g].door
             /\ work'[g].batch = work[g].batch /\ work'[g].contact = work[g].contact
  BY <1>2 DEF LocksApart, LocksHeld
<1> QED
  BY <1>1, <1>2, WorkMoves

\* A step that writes the record of one submission.
LEMMA RecordsElsewhere ==
    ASSUME RecordsOK, NEW s \in Submissions, heard \subseteq heard',
           \A t \in Submissions \ {s} : record'[t] = record[t] /\ (OpenedNext(t) => Opened(t)),
           record'[s].lead > 0 => record'[s].status = "promoted",
           OpenedNext(s) => /\ s \in Forms => record'[s].lead > 0
                            /\ s \in Ads => record'[s].status = "promoted"
                            /\ s \in Events => s \in heard'
                            /\ s \in Chats => record'[s].status # "none"
    PROVE  RecordsOK'
<1> SUFFICES ASSUME NEW t \in Submissions
             PROVE  /\ record'[t].lead > 0 => record'[t].status = "promoted"
                    /\ OpenedNext(t) =>
                         /\ t \in Forms => record'[t].lead > 0
                         /\ t \in Ads => record'[t].status = "promoted"
                         /\ t \in Events => t \in heard'
                         /\ t \in Chats => record'[t].status # "none"
  BY DEF RecordsOK, Opened, OpenedNext
<1>1. CASE t = s
  BY <1>1
<1>2. CASE t # s
  BY <1>2 DEF RecordsOK
<1> QED
  BY <1>1, <1>2

\* What was in the review led to nothing.
LEMMA ReviewableIsNew ==
    ASSUME TypeOK, RecordsOK, NEW s \in Submissions, record[s].status \in Reviewable
    PROVE  record[s].lead = 0
<1>1. record[s] \in RecordRows /\ Len(leads) \in Nat
  BY DEF TypeOK, RecordRows
<1>2. record[s].status # "promoted"
  BY DEF Reviewable
<1> QED
  BY <1>1, <1>2 DEF RecordsOK, RecordRows

LEMMA ToReviewIsNew ==
    ASSUME TypeOK, NEW s \in Submissions, \E fetched \in BOOLEAN : ToReview(s, fetched)
    PROVE  record'[s].lead = 0
<1>1. PICK fetched \in BOOLEAN : ToReview(s, fetched)
  OBVIOUS
<1>2. [NoRecord EXCEPT !.status = "needs_review", !.fetched = fetched].lead = 0
  BY DEF NoRecord
<1>3. s \in DOMAIN record
  BY DEF TypeOK
<1> QED
  BY <1>1, <1>2, <1>3 DEF ToReview

LEMMA RecordsStep ==
    ASSUME TypeOK, BusyOK, LocksApart, RecordsOK, [Next]_vars
    PROVE  RecordsOK'
<1>1. UNCHANGED leads => \A t : OpenedNext(t) <=> Opened(t)
  BY DEF Opened, OpenedNext
<1>2. CASE UNCHANGED <<leads, record, heard>>
  BY <1>2 DEF RecordsOK, Opened
<1>3. ASSUME NEW s \in Submissions, UNCHANGED leads, ~ Opened(s),
             \/ BackToReview(s) /\ record[s].status \in Reviewable
             \/ \E fetched \in BOOLEAN : ToReview(s, fetched)
      PROVE  RecordsOK'
  <2>1. /\ heard \subseteq heard' /\ \A t \in Submissions \ {s} : record'[t] = record[t]
        /\ record'[s].lead \in {0, record[s].lead}
    BY <1>3, ReviewWritten
  <2>2. record'[s].lead = 0
    <3>1. CASE record[s].status \in Reviewable
      BY <2>1, <3>1, ReviewableIsNew
    <3>2. CASE \E fetched \in BOOLEAN : ToReview(s, fetched)
      BY <3>2, ToReviewIsNew
    <3> QED
      BY <1>3, <3>1, <3>2
  <2> QED
    BY <1>1, <1>3, <2>1, <2>2, RecordsElsewhere
<1>4. ASSUME NEW s \in Submissions, NEW b \in 0..MaxBatches, QueueForReview(s, b)
      PROVE  RecordsOK'
  <2>1. Waits(s, DoorOf(s), b) /\ UNCHANGED leads /\ \E fetched \in BOOLEAN : ToReview(s, fetched)
    BY <1>4 DEF QueueForReview, Fresh, Waits, crm
  <2> QED
    BY <1>3, <2>1, WaitsAlone
<1>5. ASSUME NEW m \in Chats, NEW b \in 0..MaxBatches, LinkChat(m, b)
      PROVE  RecordsOK'
  <2>1. m \in Submissions /\ Waits(m, DoorOf(m), b) /\ UNCHANGED <<leads, heard>>
        /\ record \in [Submissions -> RecordRows]
    BY <1>5 DEF LinkChat, Fresh, Waits, Submissions, crm, TypeOK, RecordRows
  <2>2. \E c \in Matches(Brings[m]) : \E l \in LeadsOf(c) :
          record' = [record EXCEPT ![m].status = "promoted", ![m].lead = l]
    BY <1>5 DEF LinkChat
  <2>3. /\ record'[m].status = "promoted"
        /\ \A t \in Submissions \ {m} : record'[t] = record[t]
    BY <2>1, <2>2 DEF RecordRows
  <2> QED
    BY <1>1, <2>1, <2>3, WaitsAlone, RecordsElsewhere
<1>6. ASSUME NEW a \in Ads, RefuseApproval(a)
      PROVE  RecordsOK'
  <2>1. a \in Submissions /\ Waits(a, "review", 0) /\ UNCHANGED leads
        /\ BackToReview(a) /\ record[a].status \in Reviewable
    BY <1>6 DEF RefuseApproval, Waits, Submissions, crm
  <2> QED
    BY <1>3, <2>1, WaitsAlone
<1>7. ASSUME NEW h \in Handlers, Begins(h)
      PROVE  RecordsOK'
  BY <1>2, <1>7 DEF Begins, Receive, ReceiveChat, Approve, crm, review
<1>8. ASSUME NEW h \in Handlers, Decide(h) \/ Notify(h)
      PROVE  RecordsOK'
  BY <1>2, <1>8 DEF Decide, Notify, crm, review
<1>9. ASSUME NEW h \in Handlers, DecideAgainst(h)
      PROVE  RecordsOK'
  <2>1. /\ work[h].of \in Submissions /\ ~ Opened(work[h].of) /\ UNCHANGED leads
        /\ work[h].door = "review" => record[work[h].of].status \in Reviewable
    BY <1>9 DEF DecideAgainst, BusyOK, crm
  <2>2. \/ BackToReview(work[h].of) /\ work[h].door = "review"
        \/ ToReview(work[h].of, TRUE)
    BY <1>9 DEF DecideAgainst
  <2> QED
    BY <1>3, <2>1, <2>2
<1>10. ASSUME NEW h \in Handlers, Abandon(h)
       PROVE  RecordsOK'
  <2>1. /\ work[h].of \in Submissions /\ ~ Opened(work[h].of) /\ UNCHANGED leads
        /\ work[h].door = "review" => record[work[h].of].status \in Reviewable
    BY <1>10 DEF Abandon, Busy, BusyOK, crm
  <2>2. \/ BackToReview(work[h].of) /\ work[h].door = "review"
        \/ UNCHANGED review
    BY <1>10 DEF Abandon
  <2> QED
    BY <1>2, <1>3, <2>1, <2>2 DEF review
<1>11. ASSUME NEW h \in Handlers, Commit(h)
       PROVE  RecordsOK'
  <2> DEFINE s == work[h].of
  <2>1. /\ s \in Submissions
        /\ \A t \in Submissions \ {s} : record'[t] = record[t] /\ (OpenedNext(t) => Opened(t))
        /\ s \in Events => record' = record
        /\ s \notin Events => record'[s].status = "promoted"
                              /\ record'[s].lead = LeadOf(work[h])
        /\ ~ Opens(work[h]) => ~ OpenedNext(s)
    BY <1>11, Commits
  <2>2. heard' = heard \cup ({s} \cap Events)
    BY <1>11 DEF Commit
  <2>3. Opens(work[h]) => LeadOf(work[h]) > 0
    BY DEF LeadOf, TypeOK
  <2>4. s \in Events => s \notin Forms \cup Ads \cup Chats
    BY IntakeConstants
  <2> HIDE DEF s
  <2>5. record'[s].lead > 0 => record'[s].status = "promoted"
    BY <2>1 DEF RecordsOK
  <2>6. OpenedNext(s) => /\ s \in Forms => record'[s].lead > 0
                         /\ s \in Ads => record'[s].status = "promoted"
                         /\ s \in Events => s \in heard'
                         /\ s \in Chats => record'[s].status # "none"
    BY <2>1, <2>2, <2>3, <2>4
  <2> QED
    BY <2>1, <2>2, <2>5, <2>6, RecordsElsewhere
<1>12. ASSUME NEW s \in Submissions, NEW status \in Decisions,
              Review(s, status) \/ ReviewItem(s, status)
       PROVE  RecordsOK'
  <2>1. UNCHANGED <<leads, heard>>
    BY <1>12 DEF Review, ReviewItem, crm
  <2>2. CASE record' = record
    BY <1>2, <2>1, <2>2
  <2>3. CASE record' # record
    <3>1. record[s].status \in Reviewable
          /\ record' = [record EXCEPT ![s] = [record[s] EXCEPT !.status = status]]
      BY <1>12, <2>3 DEF Review, ReviewItem
    <3>2. record \in [Submissions -> RecordRows]
      BY DEF TypeOK, RecordRows
    <3>3. /\ record'[s].status = status /\ record'[s].lead = record[s].lead
          /\ \A t \in Submissions \ {s} : record'[t] = record[t]
      BY <3>1, <3>2 DEF RecordRows
    <3>4. record[s].lead = 0
      BY <3>1, ReviewableIsNew
    <3>5. status # "none" /\ record[s].status # "promoted"
      BY <3>1, IntakeConstants DEF Reviewable
    <3>6. Opened(s) => s \notin Forms /\ s \notin Ads /\ (s \in Events => s \in heard)
      BY <3>4, <3>5 DEF RecordsOK
    <3> QED
      BY <1>1, <2>1, <3>3, <3>4, <3>5, <3>6, RecordsElsewhere
  <2> QED
    BY <2>2, <2>3
<1>13. CASE \/ \E c \in 1..Len(contacts) : StartOpportunity(c)
            \/ \E l \in 1..Len(leads) : CloseOpportunity(l) \/ ReopenOpportunity(l)
  <2>1. /\ \A s \in Submissions : OpenedNext(s) <=> Opened(s)
        /\ UNCHANGED <<record, heard>>
    BY <1>13, StaffLeads
  <2> QED
    BY <2>1 DEF RecordsOK, Opened, OpenedNext
<1>14. CASE UNCHANGED vars
  BY <1>2, <1>14 DEF vars
<1> QED
  BY <1>4, <1>5, <1>6, <1>7, <1>8, <1>9, <1>10, <1>11, <1>12, <1>13,
     <1>14 DEF Next, Begins

-----------------------------------------------------------------------------
(* The opportunities.                                                      *)

Staff == \/ \E c \in 1..Len(contacts) : StartOpportunity(c)
         \/ \E l \in 1..Len(leads) : CloseOpportunity(l) \/ ReopenOpportunity(l)

\* Contacts, opportunities and tasks are written by commits and by staff alone.
LEMMA WhoWrites ==
    ASSUME [Next]_vars
    PROVE  (\E h \in Handlers : Commit(h)) \/ Staff \/ UNCHANGED <<contacts, leads, tasks>>
  BY DEF Next, Staff, QueueForReview, LinkChat, RefuseApproval, Receive, ReceiveChat, Approve,
         Decide, DecideAgainst, Notify, Abandon, Review, ReviewItem, crm, vars

LEMMA OneFromStep ==
    ASSUME TypeOK, BusyOK, OneFrom, [Next]_vars
    PROVE  OneFrom'
<1>1. ASSUME NEW h \in Handlers, Commit(h)
      PROVE  OneFrom'
  <2>1. /\ Len(leads) \in Nat
        /\ \A l \in 1..Len(leads) : leads'[l] = leads[l]
        /\ ~ Opens(work[h]) => leads' = leads
        /\ Opens(work[h]) => Len(leads') = Len(leads) + 1 /\ leads'[Len(leads')].from = work[h].of
    BY <1>1, CommitLeads DEF TypeOK
  <2>2. ~ Opened(work[h].of)
    BY <1>1, Commits
  <2>3. CASE ~ Opens(work[h])
    BY <2>1, <2>3 DEF OneFrom
  <2>4. CASE Opens(work[h])
    <3> SUFFICES ASSUME NEW k \in 1..Len(leads'), NEW l \in 1..Len(leads'),
                        leads'[k].from = leads'[l].from, leads'[k].from \in Submissions
                 PROVE  k = l
      BY DEF OneFrom
    <3>1. \A n \in 1..Len(leads') : n \in 1..Len(leads) \/ n = Len(leads) + 1
      BY <2>1, <2>4
    <3>2. \A n \in 1..Len(leads) : leads'[n].from # work[h].of
      BY <2>1, <2>2 DEF Opened
    <3>3. CASE k \in 1..Len(leads) /\ l \in 1..Len(leads)
      BY <2>1, <3>3 DEF OneFrom
    <3> QED
      BY <2>1, <2>4, <3>1, <3>2, <3>3
  <2> QED
    BY <2>3, <2>4
<1>2. CASE Staff
  <2>1. /\ \A k \in 1..Len(leads) : leads'[k].from = leads[k].from
        /\ \A k \in 1..Len(leads') : k \notin 1..Len(leads) => leads'[k].from = None
    BY <1>2, StaffLeads DEF Staff
  <2> QED
    BY <2>1, IntakeConstants DEF OneFrom
<1>3. CASE UNCHANGED <<contacts, leads, tasks>>
  BY <1>3 DEF OneFrom
<1> QED
  BY <1>1, <1>2, <1>3, WhoWrites

\* Whoever needs the opportunity lock of a contact finds nobody settling.
LEMMA FreeMeansAlone ==
    ASSUME NEW c, OpportunityFree(c), NEW g \in Handlers, Settling(g)
    PROVE  work[g].contact # c
  BY DEF OpportunityFree, Settling, Busy

\* Chats have a door of their own.
LEMMA DoorOfChats ==
    ASSUME BusyOK, NEW h \in Handlers, work[h].stage # "idle"
    PROVE  work[h].door = "chat" <=> work[h].of \in Chats
<1>1. /\ work[h].of \in Submissions
      /\ work[h].door = DoorOf(work[h].of) \/ (work[h].door = "review" /\ work[h].of \in Ads)
  BY DEF BusyOK
<1>2. CASE work[h].door = DoorOf(work[h].of)
  BY <1>1, <1>2, DoorOfSource
<1>3. CASE work[h].door = "review" /\ work[h].of \in Ads
  BY <1>3, IntakeConstants
<1> QED
  BY <1>1, <1>2, <1>3

\* What staff do to the opportunities of a contact, under its lock.
LEMMA StaffMoves ==
    ASSUME TypeOK, Staff
    PROVE  \E c \in 1..Len(contacts) :
             /\ OpportunityFree(c)
             /\ \A k \in 1..Len(leads) : leads[k].contact # c => leads'[k] = leads[k]
             /\ \A k \in 1..Len(leads') : k \notin 1..Len(leads) => leads'[k].contact = c
             /\ \/ \A k \in 1..Len(leads') : leads'[k].contact = c => ~ leads'[k].active
                \/ \E n \in 1..Len(leads') : \A k \in 1..Len(leads') :
                     leads'[k].contact = c /\ leads'[k].active => k = n
<1>0. leads \in Seq(LeadRows) /\ Len(leads) \in Nat
  BY DEF TypeOK, LeadRows
<1>1. ASSUME NEW c \in 1..Len(contacts), StartOpportunity(c)
      PROVE  /\ OpportunityFree(c)
             /\ \A k \in 1..Len(leads) : leads[k].contact # c => leads'[k] = leads[k]
             /\ \A k \in 1..Len(leads') : k \notin 1..Len(leads) => leads'[k].contact = c
             /\ \E n \in 1..Len(leads') : \A k \in 1..Len(leads') :
                  leads'[k].contact = c /\ leads'[k].active => k = n
  <2>1. /\ Len(leads') = Len(leads) + 1 /\ leads'[Len(leads) + 1].contact = c
        /\ \A k \in 1..Len(leads) : leads'[k] = leads[k]
    BY <1>0, <1>1 DEF StartOpportunity
  <2>2. \A k \in 1..Len(leads) : ~ (leads[k].contact = c /\ leads[k].active)
    BY <1>1, ActiveTyped DEF StartOpportunity
  <2>3. \A k \in 1..Len(leads') : k \in 1..Len(leads) \/ k = Len(leads) + 1
    BY <1>0, <2>1
  <2>4. Len(leads) + 1 \in 1..Len(leads')
    BY <1>0, <2>1
  <2> QED
    BY <1>1, <2>1, <2>2, <2>3, <2>4 DEF StartOpportunity
<1>2. ASSUME NEW l \in 1..Len(leads), CloseOpportunity(l) \/ ReopenOpportunity(l)
      PROVE  LET c == leads[l].contact IN
             /\ c \in 1..Len(contacts) /\ OpportunityFree(c)
             /\ Len(leads') = Len(leads)
             /\ \A k \in 1..Len(leads) : leads[k].contact # c => leads'[k] = leads[k]
             /\ \A k \in 1..Len(leads') : leads'[k].contact = c /\ leads'[k].active => k = l
  <2> DEFINE c == leads[l].contact
  <2>1. PICK b \in BOOLEAN : leads' = [leads EXCEPT ![l].active = b]
    BY <1>2 DEF CloseOpportunity, ReopenOpportunity
  <2>2. c \in 1..Len(contacts) /\ OpportunityFree(c)
    BY <1>2, LeadTyped DEF CloseOpportunity, ReopenOpportunity
  <2>3. \A k \in Active(c) : k = l
    BY <1>2 DEF CloseOpportunity, ReopenOpportunity
  <2>4. \A k \in 1..Len(leads) : leads[k].contact = c /\ leads[k].active => k = l
    BY <2>3, ActiveTyped
  <2>5. /\ Len(leads') = Len(leads)
        /\ \A k \in 1..Len(leads) : k # l => leads'[k] = leads[k]
    BY <1>0, <2>1
  <2> HIDE DEF c
  <2> QED
    BY <2>2, <2>4, <2>5 DEF c
<1>3. CASE \E c \in 1..Len(contacts) : StartOpportunity(c)
  BY <1>1, <1>3
<1>4. CASE \E l \in 1..Len(leads) : CloseOpportunity(l) \/ ReopenOpportunity(l)
  <2>1. PICK l \in 1..Len(leads) : CloseOpportunity(l) \/ ReopenOpportunity(l)
    BY <1>4
  <2>2. PICK c \in 1..Len(contacts) :
             /\ OpportunityFree(c)
             /\ Len(leads') = Len(leads)
             /\ \A k \in 1..Len(leads) : leads[k].contact # c => leads'[k] = leads[k]
             /\ \A k \in 1..Len(leads') : leads'[k].contact = c /\ leads'[k].active => k = l
    BY <1>2, <2>1
  <2>3. l \in 1..Len(leads')
    BY <2>2
  <2> QED
    BY <2>2, <2>3
<1> QED
  BY <1>3, <1>4 DEF Staff

LEMMA OneActiveStep ==
    ASSUME TypeOK, BusyOK, OneActive, DecisionsStand, [Next]_vars
    PROVE  OneActive'
<1>1. ASSUME NEW h \in Handlers, Commit(h)
      PROVE  OneActive'
  <2> DEFINE w == work[h]
  <2>1. /\ Len(leads) \in Nat /\ Len(contacts) \in Nat
        /\ \A l \in 1..Len(leads) : leads'[l] = leads[l]
        /\ ~ Opens(w) => leads' = leads
        /\ Opens(w) => /\ w.lead = 0 /\ Len(leads') = Len(leads) + 1
                       /\ leads'[Len(leads')].contact = ContactOf(w)
                       /\ leads'[Len(leads')].from = w.of
    BY <1>1, CommitLeads DEF TypeOK
  <2>2. /\ w.stage \in {"decided", "notified"} /\ w.contact \in 0..Len(contacts)
        /\ w.contact = 0 => ContactOf(w) = Len(contacts) + 1
        /\ w.contact > 0 => ContactOf(w) = w.contact
    BY <1>1, Committing DEF Works
  <2>3. CASE ~ Opens(w)
    BY <2>1, <2>3 DEF OneActive
  <2>4. CASE Opens(w)
    <3>1. ASSUME NEW k \in 1..Len(leads), leads[k].active, leads[k].from \notin Chats,
                 leads[k].contact = ContactOf(w), w.of \notin Chats
          PROVE  FALSE
      <4>1. Settling(h)
        BY <2>2, <3>1, DoorOfChats DEF Settling
      <4>2. leads[k].contact # w.contact
        BY <2>1, <2>4, <3>1, <4>1 DEF DecisionsStand
      <4>3. leads[k].contact \in 1..Len(contacts)
        BY LeadTyped
      <4> QED
        BY <2>1, <2>2, <3>1, <4>2, <4>3
    <3> SUFFICES ASSUME NEW k \in 1..Len(leads'), NEW l \in 1..Len(leads'),
                        leads'[k].contact = leads'[l].contact,
                        leads'[k].active, leads'[l].active,
                        leads'[k].from \notin Chats, leads'[l].from \notin Chats
                 PROVE  k = l
      BY DEF OneActive
    <3> HIDE DEF w
    <3>2. \A n \in 1..Len(leads') : n \in 1..Len(leads) \/ n = Len(leads')
      BY <2>1, <2>4
    <3>3. CASE k \in 1..Len(leads) /\ l \in 1..Len(leads)
      BY <2>1, <3>3 DEF OneActive
    <3>4. CASE k \in 1..Len(leads) /\ l = Len(leads')
      BY <2>1, <2>4, <3>1, <3>4
    <3>5. CASE l \in 1..Len(leads) /\ k = Len(leads')
      BY <2>1, <2>4, <3>1, <3>5
    <3> QED
      BY <3>2, <3>3, <3>4, <3>5
  <2> QED
    BY <2>3, <2>4
<1>2. CASE Staff
  <2>1. PICK c \in 1..Len(contacts) :
          /\ \A k \in 1..Len(leads) : leads[k].contact # c => leads'[k] = leads[k]
          /\ \A k \in 1..Len(leads') : k \notin 1..Len(leads) => leads'[k].contact = c
          /\ \/ \A k \in 1..Len(leads') : leads'[k].contact = c => ~ leads'[k].active
             \/ \E n \in 1..Len(leads') : \A k \in 1..Len(leads') :
                  leads'[k].contact = c /\ leads'[k].active => k = n
    BY <1>2, StaffMoves
  <2>2. \A k \in 1..Len(leads) : leads'[k].contact = leads[k].contact
    BY <1>2, StaffLeads DEF Staff
  <2> SUFFICES ASSUME NEW k \in 1..Len(leads'), NEW l \in 1..Len(leads'),
                      leads'[k].contact = leads'[l].contact,
                      leads'[k].active, leads'[l].active,
                      leads'[k].from \notin Chats, leads'[l].from \notin Chats
               PROVE  k = l
    BY DEF OneActive
  <2>3. CASE leads'[k].contact = c
    BY <2>1, <2>3
  <2>4. CASE leads'[k].contact # c
    <3>1. /\ k \in 1..Len(leads) /\ l \in 1..Len(leads)
          /\ leads'[k] = leads[k] /\ leads'[l] = leads[l]
      BY <2>1, <2>2, <2>4
    <3> QED
      BY <3>1 DEF OneActive
  <2> QED
    BY <2>3, <2>4
<1>3. CASE UNCHANGED <<contacts, leads, tasks>>
  BY <1>3 DEF OneActive
<1> QED
  BY <1>1, <1>2, <1>3, WhoWrites

\* One decision stands in the next state.
StandsNext(w) ==
    /\ w.lead = 0 =>
         \A l \in 1..Len(leads') :
             leads'[l].contact = w.contact /\ leads'[l].active => leads'[l].from \in Chats
    /\ w.lead > 0 => leads'[w.lead].active
    /\ w.lead > 0 => leads'[w.lead].contact = w.contact

\* Decisions that were there before stand, and no new one is made.
LEMMA DecisionsKept ==
    ASSUME DecisionsStand,
           \A g \in Handlers : work'[g].stage \in {"decided", "notified"} /\ work'[g].door # "chat" =>
             /\ Settling(g) /\ work'[g].lead = work[g].lead /\ work'[g].contact = work[g].contact
             /\ StandsNext(work[g])
    PROVE  DecisionsStand'
<1> SUFFICES ASSUME NEW g \in Handlers, work'[g].stage \in {"decided", "notified"},
                    work'[g].door # "chat"
             PROVE  /\ StandsNext(work'[g])
                    /\ \A h \in Handlers :
                         work'[h].stage \in {"decided", "notified"} /\ work'[h].door # "chat"
                           /\ work'[h].contact = work'[g].contact /\ work'[g].contact > 0 => h = g
  BY DEF DecisionsStand, Settling, StandsNext
<1>1. StandsNext(work'[g])
  BY DEF StandsNext
<1> QED
  BY <1>1 DEF DecisionsStand

LEMMA DecisionsStep ==
    ASSUME TypeOK, BusyOK, DecisionsStand, [Next]_vars
    PROVE  DecisionsStand'
<1>0. /\ Len(leads) \in Nat /\ Len(contacts) \in Nat
      /\ \A g \in Handlers : work[g].lead \in 0..Len(leads) /\ work[g].contact \in 0..Len(contacts)
  BY DEF TypeOK
<1>1. UNCHANGED leads => \A g \in Handlers : Settling(g) => StandsNext(work[g])
  BY DEF DecisionsStand, StandsNext
<1>2. CASE UNCHANGED <<leads, work>>
  BY <1>1, <1>2, DecisionsKept DEF Settling
<1>3. ASSUME NEW h \in Handlers, work' = [work EXCEPT ![h] = Idle],
             \A g \in Handlers \ {h} : Settling(g) => StandsNext(work[g])
      PROVE  DecisionsStand'
  <2>1. work'[h].stage = "idle" /\ \A g \in Handlers \ {h} : work'[g] = work[g]
    BY <1>3, Ending
  <2> QED
    BY <1>3, <2>1, DecisionsKept DEF Settling
<1>4. ASSUME NEW h \in Handlers, Begins(h)
      PROVE  DecisionsStand'
  <2>1. PICK s \in Submissions, door \in Doors, b \in 0..MaxBatches,
             stage \in {"classified", "decided"}, c \in 0..Len(contacts) :
             OpensWith(h, s, door, b, stage, c)
    BY <1>4, TransactionOpens
  <2>2. Open(h, s, door, b, stage, c) /\ (door = "chat" <=> stage = "decided") /\ UNCHANGED leads
    BY <2>1 DEF OpensWith, crm
  <2>3. /\ work'[h].stage = stage /\ work'[h].door = door
        /\ \A g \in Handlers \ {h} : work'[g] = work[g]
    BY <2>2, Opening
  <2>4. ~ (work'[h].stage \in {"decided", "notified"} /\ work'[h].door # "chat")
    BY <2>2, <2>3
  <2> QED
    BY <1>1, <2>2, <2>3, <2>4, DecisionsKept DEF Settling
<1>5. ASSUME NEW h \in Handlers, Notify(h)
      PROVE  DecisionsStand'
  <2>1. /\ work[h].stage = "decided" /\ work'[h].door = work[h].door
        /\ work'[h].lead = work[h].lead /\ work'[h].contact = work[h].contact
        /\ \A g \in Handlers \ {h} : work'[g] = work[g]
        /\ UNCHANGED leads
    BY <1>5, Deciding
  <2> QED
    BY <1>1, <2>1, DecisionsKept DEF Settling
<1>6. ASSUME NEW h \in Handlers, Decide(h)
      PROVE  DecisionsStand'
  <2>1. /\ work[h].stage = "classified" /\ work'[h].door = work[h].door
        /\ work'[h].contact = work[h].contact
        /\ Active(work[h].contact) = {} => work'[h].lead = 0
        /\ Active(work[h].contact) # {} => work'[h].lead \in Active(work[h].contact)
        /\ \A g \in Handlers \ {h} : work'[g] = work[g]
        /\ UNCHANGED leads
    BY <1>6, Deciding
  <2>2. StandsNext(work'[h])
    <3>1. CASE Active(work[h].contact) = {}
      <4>1. \A l \in 1..Len(leads) : ~ (leads[l].contact = work[h].contact /\ leads[l].active)
        BY <3>1, ActiveTyped
      <4> QED
        BY <2>1, <3>1, <4>1 DEF StandsNext
    <3>2. CASE Active(work[h].contact) # {}
      <4>1. LET l == work'[h].lead
            IN  l \in 1..Len(leads) /\ leads[l].contact = work[h].contact /\ leads[l].active
        BY <2>1, <3>2, ActiveTyped
      <4> QED
        BY <1>0, <2>1, <4>1 DEF StandsNext
    <3> QED
      BY <3>1, <3>2
  <2>3. ASSUME NEW g \in Handlers, Settling(g), work[g].contact = work[h].contact,
               work[h].contact > 0
        PROVE  FALSE
    <3>1. OpportunityFree(work[h].contact)
      BY <1>6, <2>3 DEF Decide
    <3> QED
      BY <2>3, <3>1, FreeMeansAlone
  <2> SUFFICES ASSUME NEW g \in Handlers, work'[g].stage \in {"decided", "notified"},
                      work'[g].door # "chat"
               PROVE  /\ StandsNext(work'[g])
                      /\ \A f \in Handlers :
                           work'[f].stage \in {"decided", "notified"} /\ work'[f].door # "chat"
                             /\ work'[f].contact = work'[g].contact /\ work'[g].contact > 0 => f = g
    BY DEF DecisionsStand, Settling, StandsNext
  <2>4. \A f \in Handlers \ {h} :
          work'[f].stage \in {"decided", "notified"} /\ work'[f].door # "chat" => Settling(f)
    BY <2>1 DEF Settling
  <2>5. StandsNext(work'[g])
    BY <1>1, <2>1, <2>2, <2>4
  <2> QED
    BY <2>1, <2>3, <2>4, <2>5 DEF DecisionsStand
<1>7. ASSUME NEW h \in Handlers, DecideAgainst(h) \/ Abandon(h)
      PROVE  DecisionsStand'
  <2>1. work' = [work EXCEPT ![h] = Idle] /\ UNCHANGED leads
    BY <1>7 DEF DecideAgainst, Abandon, crm
  <2> QED
    BY <1>1, <1>3, <2>1
<1>8. ASSUME NEW h \in Handlers, Commit(h)
      PROVE  DecisionsStand'
  <2> DEFINE w == work[h]
  <2>1. /\ \A l \in 1..Len(leads) : leads'[l] = leads[l]
        /\ ~ Opens(w) => leads' = leads
        /\ Opens(w) => /\ Len(leads') = Len(leads) + 1
                       /\ leads'[Len(leads')].contact = ContactOf(w)
                       /\ leads'[Len(leads')].from = w.of
    BY <1>8, CommitLeads
  <2>2. /\ w.stage \in {"decided", "notified"} /\ w.contact \in 0..Len(contacts)
        /\ w.contact = 0 => ContactOf(w) = Len(contacts) + 1
        /\ w.contact > 0 => ContactOf(w) = w.contact
    BY <1>8, Committing DEF Works
  <2>3. ASSUME NEW g \in Handlers \ {h}, Settling(g), w.of \notin Chats
        PROVE  ContactOf(w) # work[g].contact
    <3>1. Settling(h)
      BY <2>2, <2>3, DoorOfChats DEF Settling
    <3>2. CASE w.contact = 0
      BY <1>0, <2>2, <3>2
    <3>3. CASE w.contact > 0
      BY <2>2, <2>3, <3>1, <3>3 DEF DecisionsStand
    <3> QED
      BY <1>0, <2>2, <3>2, <3>3
  <2>4. ASSUME NEW g \in Handlers \ {h}, Settling(g)
        PROVE  StandsNext(work[g])
    <3>1. CASE ~ Opens(w)
      BY <1>1, <2>1, <2>4, <3>1
    <3>2. CASE Opens(w)
      <4> HIDE DEF w
      <4>1. \A l \in 1..Len(leads') : l \in 1..Len(leads) \/ l = Len(leads')
        BY <1>0, <2>1, <3>2
      <4>2. work[g].lead > 0 => work[g].lead \in 1..Len(leads)
        BY <1>0
      <4>3. ASSUME work[g].lead = 0, NEW l \in 1..Len(leads'),
                   leads'[l].contact = work[g].contact, leads'[l].active
            PROVE  leads'[l].from \in Chats
        <5>1. CASE l \in 1..Len(leads)
          BY <2>1, <2>4, <4>3, <5>1 DEF DecisionsStand
        <5>2. CASE l = Len(leads')
          BY <2>1, <2>3, <2>4, <3>2, <4>3, <5>2
        <5> QED
          BY <4>1, <5>1, <5>2
      <4>4. work[g].lead > 0 => leads'[work[g].lead].active
                                /\ leads'[work[g].lead].contact = work[g].contact
        BY <2>1, <2>4, <4>2 DEF DecisionsStand
      <4> QED
        BY <4>3, <4>4 DEF StandsNext
    <3> QED
      BY <3>1, <3>2
  <2>5. work' = [work EXCEPT ![h] = Idle]
    BY <1>8 DEF Commit
  <2> QED
    BY <1>3, <2>4, <2>5
<1>9. CASE Staff
  <2>1. PICK c \in 1..Len(contacts) :
          /\ OpportunityFree(c)
          /\ \A k \in 1..Len(leads) : leads[k].contact # c => leads'[k] = leads[k]
          /\ \A k \in 1..Len(leads') : k \notin 1..Len(leads) => leads'[k].contact = c
    BY <1>9, StaffMoves
  <2>2. UNCHANGED work /\ \A k \in 1..Len(leads) : leads'[k].contact = leads[k].contact
    BY <1>9, StaffLeads DEF Staff
  <2>3. ASSUME NEW g \in Handlers, Settling(g)
        PROVE  StandsNext(work[g])
    <3>1. work[g].contact # c
      BY <2>1, <2>3, FreeMeansAlone
    <3>2. work[g].lead > 0 => work[g].lead \in 1..Len(leads)
      BY <1>0
    <3>3. ASSUME work[g].lead = 0, NEW l \in 1..Len(leads'),
                 leads'[l].contact = work[g].contact, leads'[l].active
          PROVE  leads'[l].from \in Chats
      <4>1. l \in 1..Len(leads) /\ leads'[l] = leads[l]
        BY <2>1, <2>2, <3>1, <3>3
      <4> QED
        BY <2>3, <3>3, <4>1 DEF DecisionsStand
    <3>4. work[g].lead > 0 => leads'[work[g].lead].active
                              /\ leads'[work[g].lead].contact = work[g].contact
      BY <2>1, <2>3, <3>1, <3>2 DEF DecisionsStand
    <3> QED
      BY <3>3, <3>4 DEF StandsNext
  <2> QED
    BY <2>2, <2>3, DecisionsKept DEF Settling
<1>10. ASSUME \/ Stores
              \/ \E a \in Ads : RefuseApproval(a)
              \/ \E s \in Submissions :
                   \/ \E status \in Decisions : Review(s, status)
                   \/ \E status \in Decisions \ {"approved"} : ReviewItem(s, status)
              \/ UNCHANGED vars
       PROVE  DecisionsStand'
  <2>1. UNCHANGED <<leads, work>>
    BY <1>10 DEF Stores, QueueForReview, LinkChat, RefuseApproval, Review, ReviewItem, crm, vars
  <2> QED
    BY <1>2, <2>1
<1> QED
  BY <1>4, <1>5, <1>6, <1>7, <1>8, <1>9, <1>10 DEF Next, Staff, Stores, Begins

-----------------------------------------------------------------------------
(* The tasks.                                                              *)

LEMMA TasksStep ==
    ASSUME TypeOK, BusyOK, TasksOnce, [Next]_vars
    PROVE  TasksOnce'
<1>0. tasks \in [Keys -> Nat] /\ OneTaskPerKey
  BY DEF TypeOK, TasksOnce
<1>1. ASSUME UNCHANGED tasks,
             \A g \in Handlers : work'[g].stage = "notified" => work'[g] = work[g]
      PROVE  TasksOnce'
  BY <1>0, <1>1 DEF TasksOnce, OneTaskPerKey
<1>2. ASSUME NEW h \in Handlers, work' = [work EXCEPT ![h] = Idle], UNCHANGED tasks
      PROVE  TasksOnce'
  <2>1. work'[h].stage = "idle" /\ \A g \in Handlers \ {h} : work'[g] = work[g]
    BY <1>2, Ending
  <2> QED
    BY <1>1, <1>2, <2>1
<1>3. ASSUME NEW h \in Handlers, Begins(h)
      PROVE  TasksOnce'
  <2>1. PICK s \in Submissions, door \in Doors, b \in 0..MaxBatches,
             stage \in {"classified", "decided"}, c \in 0..Len(contacts) :
             OpensWith(h, s, door, b, stage, c)
    BY <1>3, TransactionOpens
  <2>2. Open(h, s, door, b, stage, c) /\ UNCHANGED tasks
    BY <2>1 DEF OpensWith, crm
  <2>3. work'[h].stage = stage /\ \A g \in Handlers \ {h} : work'[g] = work[g]
    BY <2>2, Opening
  <2> QED
    BY <1>1, <2>2, <2>3
<1>4. ASSUME NEW h \in Handlers, Decide(h)
      PROVE  TasksOnce'
  <2>1. /\ work'[h].stage = "decided" /\ UNCHANGED tasks
        /\ \A g \in Handlers \ {h} : work'[g] = work[g]
    BY <1>4, Deciding
  <2> QED
    BY <1>1, <2>1
<1>5. ASSUME NEW h \in Handlers, Notify(h)
      PROVE  TasksOnce'
  <2>1. /\ work[h].stage = "decided" /\ work'[h].of = work[h].of
        /\ work'[h].told = (tasks[TaskKey(work[h].of)] > 0)
        /\ work[h].of \in Submissions /\ UNCHANGED tasks
        /\ \A g \in Handlers \ {h} : work'[g] = work[g]
    BY <1>5, Deciding
  <2>2. \A g \in Handlers : work[g].stage = "notified" => TaskKey(work[g].of) # TaskKey(work[h].of)
    BY <1>5 DEF Notify, KeyFree
  <2>3. work'[h].told \/ tasks[TaskKey(work[h].of)] = 0
    <3>1. tasks[TaskKey(work[h].of)] \in Nat
      BY <1>0, <2>1, KeyTyped
    <3>2. CASE tasks[TaskKey(work[h].of)] > 0
      BY <2>1, <3>2
    <3>3. CASE ~ tasks[TaskKey(work[h].of)] > 0
      BY <3>1, <3>3
    <3> QED
      BY <3>2, <3>3
  <2> QED
    BY <1>0, <2>1, <2>2, <2>3 DEF TasksOnce, OneTaskPerKey
<1>6. ASSUME NEW h \in Handlers, DecideAgainst(h) \/ Abandon(h)
      PROVE  TasksOnce'
  BY <1>2, <1>6 DEF DecideAgainst, Abandon, crm
<1>7. ASSUME NEW h \in Handlers, Commit(h)
      PROVE  TasksOnce'
  <2> DEFINE w == work[h]
             k == TaskKey(w.of)
  <2>1. work' = [work EXCEPT ![h] = Idle]
    BY <1>7 DEF Commit
  <2>2. CASE ~ TaskMissing(w)
    <3>1. UNCHANGED tasks
      BY <1>7, <2>2 DEF Commit
    <3> QED
      BY <1>2, <2>1, <3>1
  <2>3. CASE TaskMissing(w)
    <3>1. w.stage = "notified" /\ ~ w.told /\ k \in Keys
      BY <1>7, <2>3, KeyTyped, Commits DEF TaskMissing
    <3>2. tasks[k] = 0 /\ \A g \in Handlers \ {h} : work[g].stage = "notified" => TaskKey(work[g].of) # k
      BY <3>1 DEF TasksOnce
    <3>3. tasks' = [tasks EXCEPT ![k] = @ + 1]
      BY <1>7, <2>3 DEF Commit
    <3> HIDE DEF k
    <3>4. /\ \A j \in Keys : j # k => tasks'[j] = tasks[j]
          /\ tasks'[k] = 1
      BY <1>0, <3>1, <3>2, <3>3
    <3>5. work'[h].stage = "idle" /\ \A g \in Handlers \ {h} : work'[g] = work[g]
      BY <2>1, Ending
    <3>6. OneTaskPerKey'
      BY <1>0, <3>4 DEF OneTaskPerKey
    <3>7. \A g \in Handlers \ {h} : work[g].stage = "notified" => TaskKey(work[g].of) \in Keys
      BY KeyTyped DEF BusyOK
    <3>8. \A g \in Handlers : work'[g].stage = "notified" =>
            /\ work[g].stage = "notified" /\ work'[g] = work[g]
            /\ tasks'[TaskKey(work[g].of)] = tasks[TaskKey(work[g].of)]
      BY <3>2, <3>4, <3>5, <3>7
    <3> QED
      BY <3>6, <3>8 DEF TasksOnce
  <2> QED
    BY <2>2, <2>3
<1>8. ASSUME \/ Stores
             \/ \E a \in Ads : RefuseApproval(a)
             \/ \E s \in Submissions :
                  \/ \E status \in Decisions : Review(s, status)
                  \/ \E status \in Decisions \ {"approved"} : ReviewItem(s, status)
             \/ \E c \in 1..Len(contacts) : StartOpportunity(c)
             \/ \E l \in 1..Len(leads) : CloseOpportunity(l) \/ ReopenOpportunity(l)
             \/ UNCHANGED vars
      PROVE  TasksOnce'
  <2>1. UNCHANGED <<tasks, work>>
    BY <1>8 DEF Stores, QueueForReview, LinkChat, RefuseApproval, Review, ReviewItem,
                StartOpportunity, CloseOpportunity, ReopenOpportunity, crm, vars
  <2> QED
    BY <1>1, <2>1
<1> QED
  BY <1>3, <1>4, <1>5, <1>6, <1>7, <1>8 DEF Next, Stores, Begins

-----------------------------------------------------------------------------
(* The contacts.                                                           *)

LEMMA BatchesCoverStep ==
    ASSUME TypeOK, BusyOK, BatchesCover, [Next]_vars
    PROVE  BatchesCover'
<1>0. /\ batches' \in [Batched -> 0..MaxBatches]
      /\ batches \in [Batched -> 0..MaxBatches] /\ MaxBatches \in Nat
      /\ \A d \in Batched : batches[d] <= batches'[d]
  BY BatchesStep, IntakeConstants DEF TypeOK
<1>1. \A d \in Batched : \A b : b \in 1..batches[d] => b \in 1..batches'[d]
  BY <1>0
<1>2. ASSUME NEW h \in Handlers, NEW s \in Submissions, NEW door \in Doors,
             NEW b \in 0..MaxBatches, NEW stage \in {"classified", "decided"},
             NEW c \in 0..Len(contacts), OpensWith(h, s, door, b, stage, c)
      PROVE  BatchesCover'
  <2>1. Open(h, s, door, b, stage, c) /\ InBatch(door, b)
    BY <1>2 DEF OpensWith
  <2>2. /\ work'[h].door = door /\ work'[h].batch = b
        /\ \A g \in Handlers \ {h} : work'[g] = work[g]
    BY <2>1, Opening
  <2>3. door \in Batched => b \in 1..batches'[door]
    BY <2>1, BatchFound
  <2> QED
    BY <1>1, <2>2, <2>3 DEF BatchesCover
<1>3. CASE \A g \in Handlers : work'[g].stage # "idle" =>
             /\ work[g].stage # "idle"
             /\ work'[g].of = work[g].of /\ work'[g].door = work[g].door
             /\ work'[g].batch = work[g].batch /\ work'[g].contact = work[g].contact
  BY <1>1, <1>3 DEF BatchesCover
<1> QED
  BY <1>2, <1>3, WorkMoves

\* Forms, and events, that are handled at once bring different identifiers.
LEMMA BroughtOnce ==
    ASSUME LocksApart, NEW f \in Fields, NEW i, i # None, NEW door \in {"form", "event"},
           NEW g \in Bringing(f, i, door), NEW h \in Bringing(f, i, door)
    PROVE  g = h
<1> SUFFICES ASSUME g # h
             PROVE  FALSE
  OBVIOUS
<1>1. LocksHeld(g) \cap LocksHeld(h) = {}
  BY DEF LocksApart, Bringing
<1>2. ASSUME NEW x \in Bringing(f, i, door)
      PROVE  <<door, i>> \in LocksHeld(x)
  <2>1. work[x].door = door /\ Brought(work[x].of, f) = i
    BY <1>2 DEF Bringing
  <2>2. <<door, i>> \in IdentityLocks(door, Brings[work[x].of])
    BY <2>1 DEF IdentityLocks, Brought, Has
  <2> QED
    BY <2>1, <2>2, LockNames DEF LocksHeld
<1> QED
  BY <1>1, <1>2

\* What is counted by different numbers up to n is at most n.
LEMMA CountedOff ==
    ASSUME NEW n \in Nat, NEW S, NEW mark,
           \A x \in S : mark[x] \in 1..n,
           \A x, y \in S : x # y => mark[x] # mark[y]
    PROVE  IsFiniteSet(S) /\ Cardinality(S) <= n
<1> DEFINE m == [x \in S |-> mark[x]]
<1>1. m \in [S -> 1..n] /\ \A x, y \in S : m[x] = m[y] => x = y
  OBVIOUS
<1> HIDE DEF m
<1>2. m \in Injection(S, 1..n)
  BY <1>1 DEF Injection, IsInjective
<1>3. IsFiniteSet(1..n) /\ Cardinality(1..n) = n
  BY FS_Interval
<1> QED
  BY <1>2, <1>3, FS_Injection

\* A set that loses a member, or gains one at most.
LEMMA OneLess ==
    ASSUME NEW S, IsFiniteSet(S), NEW k \in S, NEW T, T \subseteq S \ {k}
    PROVE  IsFiniteSet(T) /\ Cardinality(T) + 1 <= Cardinality(S)
<1>1. /\ IsFiniteSet(S \ {k}) /\ Cardinality(S \ {k}) = Cardinality(S) - 1
      /\ Cardinality(S) \in Nat
  BY FS_RemoveElement, FS_CardinalityType
<1>2. IsFiniteSet(T) /\ Cardinality(T) <= Cardinality(S \ {k}) /\ Cardinality(T) \in Nat
  BY <1>1, FS_Subset, FS_CardinalityType
<1> QED
  BY <1>1, <1>2

LEMMA OneMore ==
    ASSUME NEW S, IsFiniteSet(S), NEW k, NEW T, T \subseteq S \cup {k}
    PROVE  Cardinality(T) <= Cardinality(S) + 1
<1>1. /\ IsFiniteSet(S \cup {k}) /\ Cardinality(S) \in Nat
      /\ Cardinality(S \cup {k}) \in {Cardinality(S), Cardinality(S) + 1}
  BY FS_AddElement, FS_CardinalityType
<1>2. Cardinality(T) <= Cardinality(S \cup {k}) /\ Cardinality(T) \in Nat
  BY <1>1, FS_Subset, FS_CardinalityType
<1> QED
  BY <1>1, <1>2

LEMMA FewAreFinite ==
    ASSUME TypeOK, NEW f, NEW i, NEW door
    PROVE  IsFiniteSet(With(f, i, door)) /\ Cardinality(With(f, i, door)) \in Nat
<1>1. With(f, i, door) \subseteq 1..Len(contacts) /\ Len(contacts) \in Nat
  BY DEF With, TypeOK
<1>2. IsFiniteSet(1..Len(contacts))
  BY <1>1, FS_Interval
<1> QED
  BY <1>1, <1>2, FS_Subset, FS_CardinalityType

\* Each field of a contact is as before, or is what the commit brought.
LEMMA CommitWrites ==
    ASSUME TypeOK, BusyOK, NEW h \in Handlers, Commit(h), NEW f \in Fields,
           NEW c \in 1..Len(contacts')
    PROVE  \/ /\ c \in 1..Len(contacts)
              /\ Has(contacts'[c], f) = Has(contacts[c], f)
              /\ By(contacts'[c], f) = By(contacts[c], f)
           \/ /\ c = ContactOf(work[h])
              /\ Has(contacts'[c], f) = Has(Identity(work[h]), f)
              /\ By(contacts'[c], f) = work[h].door
              /\ work[h].contact > 0 =>
                   Over(work[h].door, Has(contacts[c], f), Has(Identity(work[h]), f))
<1> DEFINE w == work[h]
           id == Identity(w)
<1>0. contacts \in Seq(Contacts) /\ Len(contacts) \in Nat /\ w.contact \in 0..Len(contacts)
  <2>1. contacts \in Seq(Contacts) /\ Len(contacts) \in Nat
    BY DEF TypeOK
  <2>2. w.contact \in 0..Len(contacts)
    BY DEF TypeOK
  <2> QED
    BY <2>1, <2>2
<1>1. CASE w.contact = 0
  <2>1. contacts' = Append(contacts, NewContact(id, w.door)) /\ ContactOf(w) = Len(contacts) + 1
    BY <1>1 DEF Commit, ContactOf
  <2>2. /\ Len(contacts') = Len(contacts) + 1
        /\ contacts'[Len(contacts) + 1] = NewContact(id, w.door)
        /\ \A d \in 1..Len(contacts) : contacts'[d] = contacts[d]
    BY <1>0, <2>1, <1>1, Committing
  <2>3. /\ Has(NewContact(id, w.door), f) = Has(id, f)
        /\ By(NewContact(id, w.door), f) = w.door
    BY DEF Has, By, NewContact
  <2> HIDE DEF w, id
  <2>4. c \in 1..Len(contacts) \/ c = Len(contacts) + 1
    BY <1>0, <2>2
  <2>5. ~ w.contact > 0
    BY <1>1
  <2>6. CASE c \in 1..Len(contacts)
    BY <2>2, <2>6
  <2>7. CASE c = Len(contacts) + 1
    BY <2>1, <2>2, <2>3, <2>5, <2>7 DEF w, id
  <2> QED
    BY <2>4, <2>6, <2>7
<1>2. CASE w.contact > 0
  <2> DEFINE old == contacts[w.contact]
             new == Updated(old, id, w.door)
  <2>1. contacts' = [contacts EXCEPT ![w.contact] = new] /\ ContactOf(w) = w.contact
    BY <1>2 DEF Commit, ContactOf
  <2>2. w.contact \in 1..Len(contacts)
    BY <1>0, <1>2
  <2>3. \/ Has(new, f) = Has(old, f) /\ By(new, f) = By(old, f)
        \/ /\ Has(new, f) = Has(id, f) /\ By(new, f) = w.door
           /\ Over(w.door, Has(old, f), Has(id, f))
    <3> HIDE DEF old, id, w
    <3>1. /\ new.email = IF Over(w.door, old.email, id.email) THEN id.email ELSE old.email
          /\ new.emailBy = IF Over(w.door, old.email, id.email) THEN w.door ELSE old.emailBy
          /\ new.phone = IF Over(w.door, old.phone, id.phone) THEN id.phone ELSE old.phone
          /\ new.phoneBy = IF Over(w.door, old.phone, id.phone) THEN w.door ELSE old.phoneBy
      BY DEF Updated
    <3> HIDE DEF new
    <3> QED
      BY <3>1 DEF Has, By, Fields
  <2> HIDE DEF new
  <2>4. /\ \A d \in 1..Len(contacts) : d # w.contact => contacts'[d] = contacts[d]
        /\ contacts'[w.contact] = new /\ c \in 1..Len(contacts)
    BY <1>0, <2>1, <2>2
  <2> QED
    BY <2>1, <2>3, <2>4
<1> QED
  BY <1>0, <1>1, <1>2

\* What a commit adds to those who have an identifier by a door is its own
\* contact, and what it brought is no longer to be written.
LEMMA CommitGains ==
    ASSUME TypeOK, BusyOK, NEW h \in Handlers, Commit(h), NEW f \in Fields,
           NEW i, i # None, NEW door \in {"form", "event", "ad", "chat"}
    PROVE  /\ \A c \in With(f, i, door)' : c \notin With(f, i, door) =>
                /\ c = ContactOf(work[h]) /\ h \in Bringing(f, i, door)
                /\ door \in Batched => h \in Writers(f, i, door)
           /\ Bringing(f, i, door)' \subseteq Bringing(f, i, door) \ {h}
           /\ \A g \in Bringing(f, i, door)' : work'[g] = work[g]
           /\ Writers(f, i, door)' \subseteq Writers(f, i, door) \ {h}
<1>0. /\ Len(contacts) \in Nat /\ work[h].stage # "idle"
      /\ work'[h].stage = "idle" /\ \A g \in Handlers \ {h} : work'[g] = work[g]
      /\ \A g \in Handlers : work[g].contact \in 0..Len(contacts)
      /\ Len(contacts) <= Len(contacts') /\ Len(contacts') \in Nat
  <2>1. work' = [work EXCEPT ![h] = Idle]
    BY DEF Commit
  <2>2. work'[h].stage = "idle" /\ \A g \in Handlers \ {h} : work'[g] = work[g]
    BY <2>1, Ending
  <2>3. work[h].stage # "idle" /\ Len(contacts) <= Len(contacts') /\ Len(contacts') \in Nat
    BY Committing
  <2>4. Len(contacts) \in Nat /\ \A g \in Handlers : work[g].contact \in 0..Len(contacts)
    BY DEF TypeOK
  <2> QED
    BY <2>2, <2>3, <2>4
<1>1. ASSUME NEW c \in With(f, i, door)', c \notin With(f, i, door)
      PROVE  /\ c = ContactOf(work[h]) /\ h \in Bringing(f, i, door)
             /\ door \in Batched => h \in Writers(f, i, door)
  <2>1. /\ c \in 1..Len(contacts') /\ Has(contacts'[c], f) = i /\ By(contacts'[c], f) = door
    BY <1>1 DEF With
  <2>2. ~ /\ c \in 1..Len(contacts)
          /\ Has(contacts'[c], f) = Has(contacts[c], f)
          /\ By(contacts'[c], f) = By(contacts[c], f)
    BY <1>1, <2>1 DEF With
  <2>3. /\ c = ContactOf(work[h]) /\ Has(Identity(work[h]), f) = i /\ work[h].door = door
        /\ work[h].contact > 0 => Over(door, Has(contacts[c], f), i)
    BY <2>1, <2>2, CommitWrites
  <2>4. h \in Bringing(f, i, door)
    BY <1>0, <2>3 DEF Bringing, Identity, Brought
  <2>5. CASE door \in Batched
    <3>1. CASE work[h].contact = 0
      BY <2>3, <2>4, <2>5, <3>1 DEF Writers
    <3>2. CASE work[h].contact > 0
      <4>1. c = work[h].contact /\ Over(door, Has(contacts[c], f), i)
        BY <2>3, <3>2 DEF ContactOf
      <4>2. door = "ad" /\ Has(contacts[c], f) = None
        BY <2>5, <4>1 DEF Over, Batched
      <4> QED
        BY <2>3, <2>4, <4>1, <4>2 DEF Writers
    <3> QED
      BY <1>0, <3>1, <3>2
  <2> QED
    BY <2>3, <2>4, <2>5
<1>2. /\ Bringing(f, i, door)' \subseteq Bringing(f, i, door) \ {h}
      /\ \A g \in Bringing(f, i, door)' : work'[g] = work[g]
  BY <1>0 DEF Bringing, Brought
<1>3. ASSUME NEW g \in Writers(f, i, door)'
      PROVE  g \in Writers(f, i, door) \ {h}
  <2>1. g \in Bringing(f, i, door) \ {h} /\ work'[g] = work[g] /\ g \in Handlers
    BY <1>2, <1>3 DEF Writers, Bringing
  <2>2. CASE work[g].contact = 0
    BY <2>1, <2>2 DEF Writers
  <2>3. CASE work[g].contact # 0
    <3> DEFINE c == work[g].contact
    <3>1. door = "ad" /\ Has(contacts'[c], f) = None
      BY <1>3, <2>1, <2>3 DEF Writers
    <3>2. c \in 1..Len(contacts) /\ c \in 1..Len(contacts')
      BY <1>0, <2>1, <2>3
    <3>3. Has(contacts[c], f) = None
      <4> SUFFICES ASSUME Has(contacts[c], f) # None
                   PROVE  FALSE
        OBVIOUS
      <4>1. /\ c = ContactOf(work[h]) /\ Has(Identity(work[h]), f) = None
            /\ work[h].contact > 0 =>
                 Over(work[h].door, Has(contacts[c], f), Has(Identity(work[h]), f))
        BY <3>1, <3>2, CommitWrites
      <4>2. work[h].contact > 0
        <5> HIDE DEF c
        <5> QED
          BY <1>0, <3>2, <4>1 DEF ContactOf
      <4> QED
        BY <4>1, <4>2 DEF Over
    <3> QED
      BY <2>1, <3>1, <3>3 DEF Writers
  <2> QED
    BY <2>2, <2>3
<1> QED
  BY <1>1, <1>2, <1>3

\* Nobody has what a new transaction is to write, and one contact at most has
\* what it brings.
LEMMA OpeningFound ==
    ASSUME TypeOK, NEW h \in Handlers, NEW s \in Submissions, NEW door \in Doors,
           NEW b \in 0..MaxBatches, NEW stage \in {"classified", "decided"},
           NEW c \in 0..Len(contacts), OpensWith(h, s, door, b, stage, c), door # "review",
           NEW f \in Fields, NEW i, i # None, Brought(s, f) = i
    PROVE  /\ door # "chat" => With(f, i, door) \subseteq {c}
           /\ c = 0 \/ (door = "ad" /\ Has(contacts[c], f) = None) => With(f, i, door) = {}
<1>1. /\ c = 0 => Matches(Brings[s]) = {}
      /\ door # "chat" => Matches(Brings[s]) \subseteq {c}
  BY DEF OpensWith
<1>2. With(f, i, door) \subseteq Matches(Brings[s])
  BY DEF With, Matches, Brought, Has, Fields
<1>3. CASE door = "ad" /\ Has(contacts[c], f) = None
  <2>1. With(f, i, door) \subseteq {c}
    BY <1>1, <1>2, <1>3
  <2>2. c \notin With(f, i, door)
    BY <1>3 DEF With
  <2> QED
    BY <1>1, <1>2, <2>1, <2>2
<1> QED
  BY <1>1, <1>2, <1>3

\* A step that goes on with what there was.
LEMMA TwinsKept ==
    ASSUME TypeOK, FewTwins, [Next]_vars, UNCHANGED contacts,
           \A g \in Handlers : work'[g].stage # "idle" =>
               /\ work[g].stage # "idle"
               /\ work'[g].of = work[g].of /\ work'[g].door = work[g].door
               /\ work'[g].batch = work[g].batch /\ work'[g].contact = work[g].contact
    PROVE  FewTwins'
<1>1. ASSUME NEW f \in Fields, NEW i \in Emails \cup Phones, NEW door
      PROVE  /\ With(f, i, door)' = With(f, i, door)
             /\ Bringing(f, i, door)' \subseteq Bringing(f, i, door)
             /\ \A h \in Bringing(f, i, door)' : work'[h].contact = work[h].contact
             /\ Writers(f, i, door)' \subseteq Writers(f, i, door)
  <2>1. With(f, i, door)' = With(f, i, door)
    BY DEF With
  <2>2. /\ Bringing(f, i, door)' \subseteq Bringing(f, i, door)
        /\ \A h \in Bringing(f, i, door)' : work'[h].contact = work[h].contact
    BY DEF Bringing
  <2>3. Writers(f, i, door)' \subseteq Writers(f, i, door)
    BY <2>2 DEF Writers
  <2> QED
    BY <2>1, <2>2, <2>3
<1>2. ASSUME NEW f \in Fields, NEW i \in Emails \cup Phones, NEW door \in {"form", "event"}
      PROVE  OneByName(f, i, door)'
  <2>1. OneByName(f, i, door)
    BY DEF FewTwins
  <2> QED
    BY <1>1, <2>1 DEF OneByName
<1>3. ASSUME NEW f \in Fields, NEW i \in Emails \cup Phones, NEW door \in Batched
      PROVE  OnePerBatch(f, i, door)'
  <2>1. OnePerBatch(f, i, door)
    BY DEF FewTwins
  <2>2. /\ batches[door] \in Nat /\ batches'[door] \in Nat /\ batches[door] <= batches'[door]
    BY BatchesStep, IntakeConstants DEF TypeOK
  <2> DEFINE S == Writers(f, i, door)
             T == Writers(f, i, door)'
             n == Cardinality(With(f, i, door))
  <2>3. IsFiniteSet(S) /\ n + Cardinality(S) <= batches[door] /\ T \subseteq S
    BY <1>1, <2>1 DEF OnePerBatch
  <2>4. n \in Nat /\ Cardinality(With(f, i, door)') = n
    BY <1>1, FewAreFinite
  <2> HIDE DEF S, T, n
  <2>5. IsFiniteSet(T) /\ Cardinality(T) <= Cardinality(S)
        /\ Cardinality(T) \in Nat /\ Cardinality(S) \in Nat
    BY <2>3, FS_Subset, FS_CardinalityType
  <2>6. n + Cardinality(T) <= batches'[door]
    BY <2>2, <2>3, <2>4, <2>5
  <2> QED
    BY <2>4, <2>5, <2>6 DEF OnePerBatch, T
<1> QED
  BY <1>2, <1>3 DEF FewTwins

\* A transaction that opens found nobody for what it is to write.
LEMMA TwinsOpening ==
    ASSUME TypeOK, BusyOK, FewTwins, LocksApart', BatchesCover', [Next]_vars,
           NEW h \in Handlers, NEW s \in Submissions, NEW door \in Doors,
           NEW b \in 0..MaxBatches, NEW stage \in {"classified", "decided"},
           NEW c \in 0..Len(contacts), OpensWith(h, s, door, b, stage, c)
    PROVE  FewTwins'
<1>0. Open(h, s, door, b, stage, c) /\ UNCHANGED contacts /\ work[h] = Idle
  BY DEF OpensWith, crm
<1>1. /\ work'[h].of = s /\ work'[h].door = door /\ work'[h].contact = c
      /\ \A g \in Handlers \ {h} : work'[g] = work[g]
  BY <1>0, Opening
<1>2. ASSUME NEW f \in Fields, NEW i \in Emails \cup Phones, NEW d
      PROVE  /\ With(f, i, d)' = With(f, i, d)
             /\ Bringing(f, i, d)' \subseteq Bringing(f, i, d) \cup {h}
             /\ \A g \in Bringing(f, i, d)' \ {h} : work'[g].contact = work[g].contact
             /\ h \in Bringing(f, i, d)' => d = door /\ Brought(s, f) = i
             /\ Writers(f, i, d)' \subseteq Writers(f, i, d) \cup {h}
             /\ h \in Writers(f, i, d)' =>
                  c = 0 \/ (door = "ad" /\ Has(contacts[c], f) = None)
  <2>1. With(f, i, d)' = With(f, i, d)
    BY <1>0 DEF With
  <2>2. /\ Bringing(f, i, d)' \subseteq Bringing(f, i, d) \cup {h}
        /\ \A g \in Bringing(f, i, d)' \ {h} : work'[g] = work[g]
        /\ h \in Bringing(f, i, d)' => d = door /\ Brought(s, f) = i
    BY <1>1 DEF Bringing, Brought
  <2>3. /\ Writers(f, i, d)' \subseteq Writers(f, i, d) \cup {h}
        /\ h \in Writers(f, i, d)' =>
             c = 0 \/ (door = "ad" /\ Has(contacts[c], f) = None)
    BY <1>0, <1>1, <2>2 DEF Writers
  <2> QED
    BY <2>1, <2>2, <2>3
<1>3. ASSUME NEW f \in Fields, NEW i \in Emails \cup Phones, NEW d \in {"form", "event"}
      PROVE  OneByName(f, i, d)'
  <2>1. OneByName(f, i, d) /\ i # None
    BY IntakeConstants DEF FewTwins
  <2>2. h \in Bringing(f, i, d)' => With(f, i, d) \subseteq {c}
    BY <1>2, <2>1, OpeningFound
  <2>3. \A g \in Bringing(f, i, d)' : With(f, i, d)' \subseteq {work'[g].contact}
    BY <1>1, <1>2, <2>1, <2>2 DEF OneByName
  <2> QED
    BY <1>2, <2>1, <2>3 DEF OneByName
<1>4. ASSUME NEW f \in Fields, NEW i \in Emails \cup Phones, NEW d \in Batched
      PROVE  OnePerBatch(f, i, d)'
  <2>1. OnePerBatch(f, i, d) /\ i # None
    BY IntakeConstants DEF FewTwins
  <2>2. batches[d] \in Nat /\ batches'[d] \in Nat /\ batches[d] <= batches'[d]
    BY BatchesStep, IntakeConstants DEF TypeOK
  <2> DEFINE S == Writers(f, i, d)
             T == Writers(f, i, d)'
             n == Cardinality(With(f, i, d))
  <2>3. n \in Nat /\ Cardinality(With(f, i, d)') = n
    BY <1>2, FewAreFinite
  <2>4. CASE h \notin T
    <3>1. IsFiniteSet(S) /\ n + Cardinality(S) <= batches[d] /\ T \subseteq S
      BY <1>2, <2>1, <2>4 DEF OnePerBatch
    <3> HIDE DEF S, T, n
    <3>2. IsFiniteSet(T) /\ Cardinality(T) <= Cardinality(S)
          /\ Cardinality(T) \in Nat /\ Cardinality(S) \in Nat
      BY <3>1, FS_Subset, FS_CardinalityType
    <3>3. n + Cardinality(T) <= batches'[d]
      BY <2>2, <2>3, <3>1, <3>2
    <3> QED
      BY <2>3, <3>2, <3>3 DEF OnePerBatch, T
  <2>5. CASE h \in T
    <3>1. With(f, i, d) = {}
      <4>1. d = door /\ Brought(s, f) = i
            /\ (c = 0 \/ (door = "ad" /\ Has(contacts[c], f) = None))
        BY <1>2, <2>5 DEF Writers
      <4>2. door # "review"
        BY <4>1 DEF Batched
      <4> QED
        BY <2>1, <4>1, <4>2, OpeningFound
    <3>2. n = 0
      BY <3>1, FS_EmptySet
    <3> DEFINE mark == [g \in T |-> work'[g].batch]
    <3>3. \A g \in T : g \in Handlers /\ work'[g].stage # "idle" /\ work'[g].door = d
      BY DEF Writers, Bringing
    <3>4. \A g \in T : mark[g] \in 1..batches'[d]
      BY <3>3 DEF BatchesCover
    <3>5. ASSUME NEW x \in T, NEW y \in T, x # y
          PROVE  mark[x] # mark[y]
      <4>1. LocksOf(work'[x].of, d, work'[x].batch)
              \cap LocksOf(work'[y].of, d, work'[y].batch) = {}
        BY <3>3, <3>5 DEF LocksApart, LocksHeld
      <4>2. /\ <<d, "batch", work'[x].batch>> \in LocksOf(work'[x].of, d, work'[x].batch)
            /\ <<d, "batch", work'[y].batch>> \in LocksOf(work'[y].of, d, work'[y].batch)
        BY LockNames
      <4> QED
        BY <4>1, <4>2
    <3> HIDE DEF mark, T, n
    <3>6. IsFiniteSet(T) /\ Cardinality(T) <= batches'[d]
      BY <2>2, <3>4, <3>5, CountedOff
    <3>7. Cardinality(T) \in Nat
      BY <3>6, FS_CardinalityType
    <3>8. n + Cardinality(T) <= batches'[d]
      BY <3>2, <3>6, <3>7
    <3> QED
      BY <2>3, <3>6, <3>8 DEF OnePerBatch, T
  <2> QED
    BY <2>4, <2>5
<1> QED
  BY <1>3, <1>4 DEF FewTwins

\* A commit writes for itself, and gives up its turn.
LEMMA TwinsCommit ==
    ASSUME TypeOK, BusyOK, LocksApart, FewTwins, NEW h \in Handlers, Commit(h)
    PROVE  FewTwins'
<1>1. ASSUME NEW f \in Fields, NEW i \in Emails \cup Phones, NEW door \in {"form", "event"}
      PROVE  OneByName(f, i, door)'
  <2>1. OneByName(f, i, door) /\ i # None
    BY IntakeConstants DEF FewTwins
  <2>2. /\ \A c \in With(f, i, door)' : c \notin With(f, i, door) =>
             c = ContactOf(work[h]) /\ h \in Bringing(f, i, door)
        /\ Bringing(f, i, door)' \subseteq Bringing(f, i, door) \ {h}
        /\ \A g \in Bringing(f, i, door)' : work'[g] = work[g]
    BY <2>1, CommitGains
  <2>3. CASE h \in Bringing(f, i, door)
    <3>1. Bringing(f, i, door)' = {}
      BY <2>1, <2>2, <2>3, BroughtOnce
    <3>2. With(f, i, door) \subseteq {work[h].contact} /\ 0 \notin With(f, i, door)
      BY <2>1, <2>3 DEF OneByName, With
    <3>3. With(f, i, door) \subseteq {ContactOf(work[h])}
      BY <3>2 DEF ContactOf
    <3>4. With(f, i, door)' \subseteq {ContactOf(work[h])}
      BY <2>2, <3>3
    <3> QED
      BY <3>1, <3>4 DEF OneByName
  <2>4. CASE h \notin Bringing(f, i, door)
    <3>1. With(f, i, door)' \subseteq With(f, i, door)
      BY <2>2, <2>4
    <3>2. \A g \in Bringing(f, i, door)' : With(f, i, door)' \subseteq {work'[g].contact}
      BY <2>1, <2>2, <3>1 DEF OneByName
    <3>3. \A c, d \in With(f, i, door)' : c = d
      BY <2>1, <3>1 DEF OneByName
    <3> QED
      BY <3>2, <3>3 DEF OneByName
  <2> QED
    BY <2>3, <2>4
<1>2. ASSUME NEW f \in Fields, NEW i \in Emails \cup Phones, NEW door \in Batched
      PROVE  OnePerBatch(f, i, door)'
  <2> DEFINE S == Writers(f, i, door)
             T == Writers(f, i, door)'
             W == With(f, i, door)
             X == With(f, i, door)'
  <2>1. /\ IsFiniteSet(S) /\ Cardinality(W) + Cardinality(S) <= batches[door]
        /\ i # None /\ UNCHANGED batches /\ batches[door] \in Nat
    BY IntakeConstants DEF FewTwins, OnePerBatch, Commit, TypeOK
  <2>2. /\ \A c \in X : c \notin W => c = ContactOf(work[h]) /\ h \in S
        /\ T \subseteq S \ {h}
    BY <2>1, CommitGains DEF Batched
  <2>3. IsFiniteSet(W) /\ Cardinality(W) \in Nat
    BY FewAreFinite
  <2> HIDE DEF S, T, W, X
  <2>4. IsFiniteSet(T) /\ Cardinality(S) \in Nat /\ Cardinality(T) \in Nat
    BY <2>1, <2>2, FS_Subset, FS_CardinalityType
  <2>5. CASE h \in S
    <3>1. Cardinality(T) + 1 <= Cardinality(S)
      BY <2>1, <2>2, <2>5, OneLess
    <3>2. X \subseteq W \cup {ContactOf(work[h])}
      BY <2>2
    <3>3. Cardinality(X) <= Cardinality(W) + 1 /\ Cardinality(X) \in Nat
      BY <2>3, <3>2, OneMore, FS_Subset, FS_AddElement, FS_CardinalityType
    <3>4. Cardinality(X) + Cardinality(T) <= batches[door]
      BY <2>1, <2>3, <2>4, <3>1, <3>3
    <3> QED
      BY <2>1, <2>4, <3>4 DEF OnePerBatch, X, T
  <2>6. CASE h \notin S
    <3>1. X \subseteq W /\ T \subseteq S
      BY <2>2, <2>6
    <3>2. Cardinality(X) <= Cardinality(W) /\ Cardinality(X) \in Nat
          /\ Cardinality(T) <= Cardinality(S)
      BY <2>1, <2>3, <3>1, FS_Subset, FS_CardinalityType
    <3>3. Cardinality(X) + Cardinality(T) <= batches[door]
      BY <2>1, <2>3, <2>4, <3>2
    <3> QED
      BY <2>1, <2>4, <3>3 DEF OnePerBatch, X, T
  <2> QED
    BY <2>5, <2>6
<1> QED
  BY <1>1, <1>2 DEF FewTwins

LEMMA TwinsStep ==
    ASSUME TypeOK, BusyOK, LocksApart, FewTwins, LocksApart', BatchesCover', [Next]_vars
    PROVE  FewTwins'
<1>1. ASSUME NEW h \in Handlers, NEW s \in Submissions, NEW door \in Doors,
             NEW b \in 0..MaxBatches, NEW stage \in {"classified", "decided"},
             NEW c \in 0..Len(contacts), OpensWith(h, s, door, b, stage, c)
      PROVE  FewTwins'
  BY <1>1, TwinsOpening
<1>2. ASSUME \A g \in Handlers : work'[g].stage # "idle" =>
               /\ work[g].stage # "idle"
               /\ work'[g].of = work[g].of /\ work'[g].door = work[g].door
               /\ work'[g].batch = work[g].batch /\ work'[g].contact = work[g].contact
      PROVE  FewTwins'
  <2>1. CASE UNCHANGED contacts
    BY <1>2, <2>1, TwinsKept
  <2>2. CASE \E h \in Handlers : Commit(h)
    BY <2>2, TwinsCommit
  <2>3. CASE Staff
    BY <2>1, <2>3, StaffLeads DEF Staff
  <2> QED
    BY <2>1, <2>2, <2>3, WhoWrites
<1> QED
  BY <1>1, <1>2, WorkMoves

-----------------------------------------------------------------------------
(* The invariant.                                                          *)

LEMMA InitInv == Init => Inv
<1> SUFFICES ASSUME Init
             PROVE  Inv
  OBVIOUS
<1>1. /\ contacts \in Seq(Contacts) /\ leads = <<>> /\ Len(leads) = 0
      /\ \A s \in Submissions : record[s] = NoRecord
      /\ \A h \in Handlers : work[h] = Idle
      /\ \A k \in Keys : tasks[k] = 0
  BY IntakeConstants DEF Init
<1>2. TypeOK
  <2>1. Len(contacts) \in Nat
    BY <1>1
  <2>2. Idle \in [of : Submissions \cup {None}, door : Doors,
                  batch : 0..MaxBatches, stage : {"idle", "classified", "decided", "notified"},
                  contact : 0..Len(contacts), lead : 0..Len(leads), told : BOOLEAN]
    BY <1>1, <2>1, IntakeConstants DEF Idle, Doors
  <2>3. NoRecord \in [status : RecordStatuses, lead : 0..Len(leads), fetched : BOOLEAN]
    BY <1>1 DEF NoRecord, RecordStatuses
  <2>4. leads \in Seq([contact : 1..Len(contacts), active : BOOLEAN,
                       from : Submissions \cup {None}])
    BY <1>1
  <2>5. item \in [Submissions -> ItemStatuses]
    BY DEF Init, ItemStatuses
  <2>6. /\ heard \subseteq Events /\ tasks \in [Keys -> Nat]
        /\ batches \in [Batched -> 0..MaxBatches]
    BY IntakeConstants DEF Init
  <2> QED
    BY <1>1, <2>2, <2>3, <2>4, <2>5, <2>6 DEF Init, TypeOK
<1>3. Idle.stage = "idle" /\ NoRecord.lead = 0
  BY DEF Idle, NoRecord
<1>4. BusyOK /\ LocksApart /\ DecisionsStand /\ BatchesCover
  BY <1>1, <1>3 DEF BusyOK, LocksApart, DecisionsStand, Settling, BatchesCover
<1>5. RecordsOK /\ OneFrom /\ OneActive
  BY <1>1, <1>3 DEF RecordsOK, Opened, OneFrom, OneActive
<1>6. TasksOnce
  BY <1>1, <1>3 DEF TasksOnce, OneTaskPerKey
<1>7. FewTwins
  <2>1. ASSUME NEW f \in Fields, NEW i, NEW door \in {"form", "event", "ad", "chat"}
        PROVE  /\ With(f, i, door) = {} /\ Bringing(f, i, door) = {}
               /\ Writers(f, i, door) = {}
    <3>1. \A c \in 1..Len(contacts) : By(contacts[c], f) = "known"
      BY IntakeConstants DEF Init, By
    <3>2. With(f, i, door) = {}
      BY <3>1 DEF With
    <3>3. Bringing(f, i, door) = {}
      BY <1>1, <1>3 DEF Bringing
    <3> QED
      BY <3>2, <3>3 DEF Writers
  <2>2. IsFiniteSet({}) /\ Cardinality({}) = 0
    BY FS_EmptySet
  <2>3. \A door \in Batched : batches[door] = 0
    BY DEF Init
  <2>4. ASSUME NEW f \in Fields, NEW i, NEW door \in {"form", "event"}
        PROVE  OneByName(f, i, door)
    BY <2>1 DEF OneByName
  <2>5. ASSUME NEW f \in Fields, NEW i, NEW door \in Batched
        PROVE  OnePerBatch(f, i, door)
    BY <2>1, <2>2, <2>3 DEF OnePerBatch, Batched
  <2> QED
    BY <2>4, <2>5 DEF FewTwins
<1> QED
  BY <1>2, <1>4, <1>5, <1>6, <1>7 DEF Inv

LEMMA NextInv == ASSUME Inv, [Next]_vars PROVE Inv'
<1>1. TypeOK' /\ BusyOK' /\ LocksApart' /\ RecordsOK'
  BY TypeStep, BusyStep, LocksStep, RecordsStep DEF Inv
<1>2. OneFrom' /\ OneActive' /\ DecisionsStand'
  BY OneFromStep, OneActiveStep, DecisionsStep DEF Inv
<1>3. BatchesCover' /\ TasksOnce'
  BY BatchesCoverStep, TasksStep DEF Inv
<1>4. FewTwins'
  BY <1>1, <1>3, TwinsStep DEF Inv
<1> QED
  BY <1>1, <1>2, <1>3, <1>4 DEF Inv

\* In every behaviour the invariant holds.
LEMMA Invariance == Spec => []Inv
<1>1. Init => Inv
  BY InitInv
<1>2. Inv /\ [Next]_vars => Inv'
  BY NextInv
<1> QED
  BY <1>1, <1>2, PTL DEF Spec

-----------------------------------------------------------------------------
(* The theorems.                                                           *)

\* A set whose members are all the same has one member at most.
LEMMA AtMostOne ==
    ASSUME NEW S, \A x, y \in S : x = y
    PROVE  Cardinality(S) <= 1
<1>1. CASE S = {}
  BY <1>1, FS_EmptySet
<1>2. CASE S # {}
  <2>1. PICK x \in S : TRUE
    BY <1>2
  <2>2. S = {x}
    BY <2>1
  <2> QED
    BY <2>2, FS_Singleton
<1> QED
  BY <1>1, <1>2

\* The tables keep their types, whatever comes in and whatever staff do.
THEOREM TypeCorrect == Spec => []TypeOK
<1>1. Inv => TypeOK
  BY DEF Inv
<1> QED
  BY <1>1, Invariance, PTL

\* Forms, ads, events, approvals and staff, in any number and order, leave a
\* contact with one active opportunity; only WhatsApp may add another.
THEOREM OneOpportunityEach == Spec => []OneActiveOpportunity
<1>1. Inv => OneActiveOpportunity
  <2> SUFFICES ASSUME Inv, NEW c \in 1..Len(contacts)
               PROVE  Cardinality({l \in Active(c) : leads[l].from \notin Chats}) <= 1
    BY DEF OneActiveOpportunity
  <2>1. \A k, l \in {m \in Active(c) : leads[m].from \notin Chats} : k = l
    BY ActiveTyped DEF Inv, OneActive
  <2> QED
    BY <2>1, AtMostOne
<1> QED
  BY <1>1, Invariance, PTL

\* The unique key of the notification gives the intake tasks one, too.
THEOREM TaskPerKey == Spec => []OneTaskPerKey
<1>1. Inv => OneTaskPerKey
  BY DEF Inv, TasksOnce
<1> QED
  BY <1>1, Invariance, PTL

\* No redelivery and no repeated approval opens a second opportunity.
THEOREM OpenedOnce == Spec => []OpensOnce
<1>1. Inv => OpensOnce
  <2> SUFFICES ASSUME Inv, NEW s \in Submissions
               PROVE  LET opened == {l \in 1..Len(leads) : leads[l].from = s} IN
                      /\ Cardinality(opened) <= 1
                      /\ s \in Ads /\ opened # {} => record[s].status = "promoted"
    BY DEF OpensOnce
  <2> DEFINE opened == {l \in 1..Len(leads) : leads[l].from = s}
  <2>1. \A k, l \in opened : k = l
    BY DEF Inv, OneFrom
  <2>2. Cardinality(opened) <= 1
    BY <2>1, AtMostOne
  <2>3. opened # {} => Opened(s)
    BY DEF Opened
  <2> QED
    BY <2>2, <2>3 DEF Inv, RecordsOK
<1> QED
  BY <1>1, Invariance, PTL

\* However the batches of the day are found and transactions interleave, a form
\* or an event makes no second contact of an identifier that came by its door,
\* and ads and messages make no more of one than there are batches.
THEOREM NoTwins == Spec => []TwinsPerBatch
<1>1. ASSUME Inv, NEW f \in Fields, NEW i \in Emails \cup Phones, NEW door \in {"form", "event"}
      PROVE  Cardinality(With(f, i, door)) <= 1
  <2>1. \A c, d \in With(f, i, door) : c = d
    BY <1>1 DEF Inv, FewTwins, OneByName
  <2> QED
    BY <2>1, AtMostOne
<1>2. ASSUME Inv, NEW f \in Fields, NEW i \in Emails \cup Phones, NEW door \in Batched
      PROVE  Cardinality(With(f, i, door)) <= batches[door]
  <2> DEFINE n == Cardinality(With(f, i, door))
             m == Cardinality(Writers(f, i, door))
  <2>1. n + m <= batches[door] /\ IsFiniteSet(Writers(f, i, door))
    BY <1>2 DEF Inv, FewTwins, OnePerBatch
  <2>2. n \in Nat /\ m \in Nat /\ batches[door] \in Nat
    BY <1>2, <2>1, FewAreFinite, FS_CardinalityType, IntakeConstants DEF Inv, TypeOK
  <2> HIDE DEF n, m
  <2>3. n <= batches[door]
    BY <2>1, <2>2
  <2> QED
    BY <2>3 DEF n
<1>3. /\ \A e, door : WithEmail(e, door) = With("email", e, door)
      /\ \A p, door : WithPhone(p, door) = With("phone", p, door)
  BY DEF WithEmail, WithPhone, With, Has, By
<1>4. {"form", "event"} \cap Batched = {} /\ "email" \in Fields /\ "phone" \in Fields
  BY DEF Batched, Fields
<1>5. ASSUME Inv, NEW door \in {"form", "event"} \cup Batched
      PROVE  LET most == IF door \in Batched THEN batches[door] ELSE 1 IN
             /\ \A e \in Emails : Cardinality(WithEmail(e, door)) <= most
             /\ \A p \in Phones : Cardinality(WithPhone(p, door)) <= most
  <2>1. CASE door \in Batched
    BY <1>2, <1>3, <1>4, <1>5, <2>1
  <2>2. CASE door \notin Batched
    BY <1>1, <1>3, <1>4, <1>5, <2>2
  <2> QED
    BY <2>1, <2>2
<1>6. Inv => TwinsPerBatch
  BY <1>5 DEF TwinsPerBatch
<1> QED
  BY <1>6, Invariance, PTL

\* A review that is begun, or turned back, links nothing; a commit does. The
\* record of an ad changes while it is new or in the review.
LEMMA RecordChanges ==
    ASSUME Inv, Next, NEW s \in Submissions \ Chats, record'[s] # record[s]
    PROVE  /\ s \in Ads => record[s].status \in Reviewable \cup {"none"}
           /\ \/ record'[s].lead = 0
              \/ \E h \in Handlers : Commit(h) /\ work[h].of = s /\ s \notin Events
<1>0. TypeOK /\ BusyOK /\ RecordsOK
  BY DEF Inv
<1>1. ASSUME NEW h \in Handlers, work[h].stage # "idle", work[h].of = s, s \in Ads
      PROVE  record[s].status \in Reviewable \cup {"none"}
  BY <1>0, <1>1, DoorOfSource DEF BusyOK
<1>2. ASSUME NEW t \in Submissions, NEW b \in 0..MaxBatches, QueueForReview(t, b)
      PROVE  record'[s].lead = 0 /\ (s \in Ads => record[s].status = "none")
  <2>1. (\E fetched \in BOOLEAN : ToReview(t, fetched)) /\ ~ Stored(t)
    BY <1>2 DEF QueueForReview, Fresh
  <2>2. s = t
    BY <1>0, <2>1, ReviewWritten
  <2> QED
    BY <1>0, <2>1, <2>2, ToReviewIsNew, StoredMeans
<1>3. ASSUME NEW m \in Chats, NEW b \in 0..MaxBatches, LinkChat(m, b)
      PROVE  FALSE
  <2>1. \A t \in Submissions \ {m} : record'[t] = record[t]
    BY <1>0, <1>3 DEF LinkChat, TypeOK
  <2> QED
    BY <2>1
<1>4. ASSUME NEW t \in Submissions, BackToReview(t), record[t].status \in Reviewable
      PROVE  record'[s].lead = 0 /\ record[s].status \in Reviewable
  <2>1. s = t /\ record'[t].lead \in {0, record[t].lead}
    BY <1>0, <1>4, ReviewWritten
  <2> QED
    BY <1>0, <1>4, <2>1, ReviewableIsNew
<1>5. ASSUME NEW a \in Ads, RefuseApproval(a)
      PROVE  record'[s].lead = 0 /\ record[s].status \in Reviewable
  <2>1. a \in Submissions /\ BackToReview(a) /\ record[a].status \in Reviewable
    BY <1>5 DEF RefuseApproval, Submissions
  <2> QED
    BY <1>4, <2>1
<1>6. ASSUME NEW h \in Handlers, DecideAgainst(h)
      PROVE  /\ record'[s].lead = 0
             /\ s \in Ads => record[s].status \in Reviewable \cup {"none"}
  <2>1. work[h].stage # "idle" /\ work[h].of \in Submissions
        /\ (work[h].door = "review" => record[work[h].of].status \in Reviewable)
    BY <1>0, <1>6 DEF DecideAgainst, BusyOK
  <2>2. CASE work[h].door = "review"
    <3>1. BackToReview(work[h].of)
      BY <1>6, <2>2 DEF DecideAgainst
    <3> QED
      BY <1>4, <2>1, <2>2, <3>1
  <2>3. CASE work[h].door # "review"
    <3>1. \E fetched \in BOOLEAN : ToReview(work[h].of, fetched)
      BY <1>6, <2>3 DEF DecideAgainst
    <3>2. work[h].of = s
      BY <1>0, <2>1, <3>1, ReviewWritten
    <3> QED
      BY <1>0, <1>1, <2>1, <3>1, <3>2, ToReviewIsNew
  <2> QED
    BY <2>2, <2>3
<1>7. ASSUME NEW h \in Handlers, Abandon(h)
      PROVE  record'[s].lead = 0 /\ record[s].status \in Reviewable
  <2>1. work[h].stage # "idle"
    BY <1>7 DEF Abandon, Busy
  <2>2. ~ UNCHANGED review
    BY DEF review
  <2>3. work[h].door = "review" /\ BackToReview(work[h].of)
    BY <1>7, <2>2 DEF Abandon
  <2>4. work[h].of \in Submissions /\ record[work[h].of].status \in Reviewable
    BY <1>0, <2>1, <2>3 DEF BusyOK
  <2> QED
    BY <1>4, <2>3, <2>4
<1>8. ASSUME NEW h \in Handlers, Commit(h)
      PROVE  /\ s \in Ads => record[s].status \in Reviewable \cup {"none"}
             /\ work[h].of = s /\ s \notin Events
  <2>1. work[h].of = s /\ s \notin Events /\ work[h].stage \in {"decided", "notified"}
    BY <1>0, <1>8, Commits
  <2> QED
    BY <1>1, <2>1
<1>9. ASSUME NEW t \in Submissions, NEW status \in Decisions, Review(t, status)
      PROVE  record'[s].lead = 0 /\ record[s].status \in Reviewable
  <2>1. record' = [record EXCEPT ![t].status = status] /\ record[t].status \in Reviewable
    BY <1>9 DEF Review
  <2>2. s = t
    BY <1>0, <2>1 DEF TypeOK
  <2>3. record[t] \in RecordRows
    BY <1>0 DEF TypeOK, RecordRows
  <2>4. record'[t].lead = record[t].lead
    BY <1>0, <2>1, <2>3 DEF TypeOK, RecordRows
  <2> QED
    BY <1>0, <2>1, <2>2, <2>4, ReviewableIsNew
<1>10. ASSUME UNCHANGED record
       PROVE  FALSE
  BY <1>10
<1>11. CASE \E h \in Handlers :
              \/ Begins(h)
              \/ Decide(h) \/ Notify(h)
  BY <1>10, <1>11 DEF Begins, Receive, ReceiveChat, Approve, Decide, Notify, review
<1>12. CASE Staff \/ \E t \in Submissions : \E status \in Decisions : ReviewItem(t, status)
  <2>1. UNCHANGED record
    BY <1>0, <1>12, StaffLeads DEF Staff, ReviewItem
  <2> QED
    BY <1>10, <2>1
<1> QED
  BY <1>2, <1>3, <1>5, <1>6, <1>7, <1>8, <1>9, <1>11, <1>12
  DEF Next, Staff, Begins

\* No close, and no reopening, comes between the look at the opportunities and
\* the link to one of them.
THEOREM Attached == Spec => AttachedToActive
<1> DEFINE Active1(s) == record'[s].lead > 0 /\ record'[s] # record[s] =>
                           leads'[record'[s].lead].active
<1>1. ASSUME Inv, Next, NEW s \in Submissions \ Chats
      PROVE  Active1(s)
  <2> SUFFICES ASSUME record'[s].lead > 0, record'[s] # record[s]
               PROVE  leads'[record'[s].lead].active
    OBVIOUS
  <2>0. TypeOK /\ BusyOK /\ DecisionsStand
    BY <1>1 DEF Inv
  <2>1. PICK h \in Handlers : Commit(h) /\ work[h].of = s /\ s \notin Events
    BY <1>1, RecordChanges
  <2>2. record'[s].lead = LeadOf(work[h]) /\ work[h].stage \in {"decided", "notified"}
    BY <2>0, <2>1, Commits
  <2>3. /\ Opens(work[h]) => LeadOf(work[h]) = Len(leads') /\ leads'[Len(leads')].active
        /\ ~ Opens(work[h]) => LeadOf(work[h]) = work[h].lead /\ leads' = leads
    BY <2>0, <2>1, CommitLeads
  <2>4. work[h].door # "chat"
    BY <2>0, <2>1, <2>2, DoorOfSource DEF BusyOK
  <2>5. work[h].lead > 0 => leads[work[h].lead].active
    BY <2>0, <2>2, <2>4 DEF DecisionsStand, Settling
  <2> QED
    BY <2>2, <2>3, <2>5
<1>2. Inv /\ [Next]_vars => [\A s \in Submissions \ Chats : Active1(s)]_vars
  BY <1>1
<1> QED
  BY <1>2, Invariance, PTL DEF Spec, AttachedToActive

\* Staff who decide at once, retries and redeliveries leave a settled ad alone.
THEOREM ReviewFinal == Spec => ReviewIsFinal
<1> DEFINE Final(a) == record[a].status \in {"promoted", "rejected"} => record'[a] = record[a]
<1>1. ASSUME Inv, Next, NEW a \in Ads
      PROVE  Final(a)
  <2>1. a \in Submissions \ Chats
    BY IntakeConstants DEF Submissions
  <2>2. record'[a] # record[a] => record[a].status \in Reviewable \cup {"none"}
    BY <1>1, <2>1, RecordChanges
  <2> QED
    BY <2>2 DEF Reviewable
<1>2. Inv /\ [Next]_vars => [\A a \in Ads : Final(a)]_vars
  BY <1>1
<1> QED
  BY <1>2, Invariance, PTL DEF Spec, ReviewIsFinal

=============================================================================
