---------------------------- MODULE SmsOutreach ----------------------------
(***************************************************************************)
(* Text messages of one business unit: what people write in and the        *)
(* consent it means, one campaign, and the replies employees send by hand. *)
(*                                                                         *)
(* An inbound message is stored in a transaction that holds the day's      *)
(* batch, so that the messages of a batch are stored one after another.    *)
(* A campaign is launched in three parts: a transaction that takes the     *)
(* audience down and claims the campaign, the sends, and a transaction     *)
(* that notes their results.  A reply is noted as pending before it is     *)
(* sent.  A handler may die between any two of its steps, and the carrier  *)
(* repeats what was not accepted.                                          *)
(*                                                                         *)
(* The carrier and the people are outside: inbound messages come in any    *)
(* order and any number of times, a send is accepted, refused, or accepted *)
(* with its answer lost, and a delivery report may say anything.           *)
(***************************************************************************)
EXTENDS Naturals, FiniteSets, Sequences

CONSTANTS
    Handlers,       \* requests under way at a time
    Phones,
    Known,          \* contacts there are at first
    Newcomers,      \* contacts that inbound messages may create
    Phone,          \* the phone of each known contact
    Inbound,        \* messages people send
    From,           \* the phone each comes from
    Word,           \* what each says
    Replies,        \* request ids of replies by hand
    MaxApprovals,   \* bound on approvals of the campaign
    MaxWrites,      \* bound on the transactions of a run; what a
                    \* handler does once between two of them is not counted
    Nobody

Contacts == Known \cup Newcomers
Words == {"stop", "start", "talk", "long"}

ASSUME SmsAssumption ==
    /\ Known \cap Newcomers = {} /\ Nobody \notin Contacts \cup Phones
    /\ Phone \in [Known -> Phones]
    /\ From \in [Inbound -> Phones] /\ Word \in [Inbound -> Words]
    /\ Inbound \cap Replies = {} /\ Contacts \cap Replies = {}
    /\ MaxApprovals \in Nat /\ MaxWrites \in Nat

VARIABLES
    contact,        \* contacts of the unit, with consent and do-not-call
    thread,         \* conversations: the contact of each phone
    stored,         \* inbound messages that are stored
    batches,        \* import batches of the day
    campaign,       \* sms_campaigns.status
    approvals,      \* history: how often the campaign was approved
    rows,           \* the recipient snapshot
    snapshot,       \* its number: rows of an older one are gone
    reply,          \* outbound messages by request id
    texts,          \* what the carrier sent: sequence of [phone, by]
    lastWord,       \* history: what each phone last said about consent
    request,        \* what each handler holds
    writes          \* transactions so far

inboxVars == <<contact, thread, stored, batches, lastWord>>
campaignVars == <<campaign, approvals, rows, snapshot>>
vars == <<contact, thread, stored, batches, campaign, approvals, rows, snapshot,
          reply, texts, lastWord, request, writes>>

Absent == [phone |-> Nobody, consent |-> "unknown", blocked |-> FALSE]
NoRow == [eligibility |-> "none", delivery |-> "none", text |-> 0]
NoReply == [status |-> "none", text |-> 0]
Idle == [op |-> "idle", what |-> Nobody, batch |-> 0, whom |-> Nobody,
         todo |-> {}, results |-> {}]

Final == {"cancelled", "completed", "failed"}
Statuses == Final \cup {"draft", "approved", "scheduled", "launch_blocked", "launching"}

\* A campaign is created with the status the request names: a draft, or one
\* that needs no further approval.
Init ==
    /\ contact = [c \in Contacts |-> IF c \in Known
                    THEN [Absent EXCEPT !.phone = Phone[c], !.consent = "opted_in"]
                    ELSE Absent]
    /\ thread = [p \in Phones |-> Nobody]
    /\ stored = {}
    /\ batches = 0
    /\ campaign \in {"draft", "approved"}
    /\ approvals = IF campaign = "approved" THEN 1 ELSE 0
    /\ rows = [c \in Contacts |-> NoRow]
    /\ snapshot = 0
    /\ reply = [r \in Replies |-> NoReply]
    /\ texts = <<>>
    /\ lastWord = [p \in Phones |-> "none"]
    /\ request = [h \in Handlers |-> Idle]
    /\ writes = 0

Write == writes < MaxWrites /\ writes' = writes + 1
Hold(h, r) == request' = [request EXCEPT ![h] = r]
Release(h) == Hold(h, Idle)
With(p) == {c \in Contacts : contact[c].phone = p}

-----------------------------------------------------------------------------
(* Inbound messages.                                                       *)

\* findOrCreateSmsProviderBatch: the latest batch of the day,
FindBatch(h, m) ==
    /\ request[h] = Idle
    /\ Hold(h, [Idle EXCEPT !.op = IF batches = 0 THEN "batch" ELSE "inbound",
                            !.what = m, !.batch = batches])
    /\ UNCHANGED <<inboxVars, campaignVars, reply, texts, writes>>

\* or a new one; nothing keeps two handlers from making one each.
CreateBatch(h) ==
    /\ request[h].op = "batch"
    /\ batches' = batches + 1
    /\ Hold(h, [request[h] EXCEPT !.op = "inbound", !.batch = batches + 1])
    /\ UNCHANGED <<contact, thread, stored, lastWord, campaignVars, reply, texts, writes>>

\* Mutant of Serialized: only the event is locked.
EventLocked(h) ==
    \A g \in Handlers \ {h} : request[g].op = "store" => request[g].what # request[h].what

\* withSerializedWebhookEvent, lockedNextRowNumber: a handler waits while
\* another one stores the same message or a message of the same batch.
Serialized(h) ==
    \A g \in Handlers \ {h} : request[g].op = "store" =>
        request[g].what # request[h].what /\ request[g].batch # request[h].batch

\* findExistingSmsLead: the contact of the conversation, or else some contact
\* with this phone.
Existing(p) ==
    IF thread[p] # Nobody THEN {thread[p]}
    ELSE IF With(p) # {} THEN With(p) ELSE {Nobody}

\* The transaction begins: it takes its locks and looks for the contact.
Look(h) ==
    /\ request[h].op = "inbound"
    /\ Serialized(h)
    /\ request[h].what \notin stored
    /\ \E c \in Existing(From[request[h].what]) :
         Hold(h, [request[h] EXCEPT !.op = "store", !.whom = c])
    /\ UNCHANGED <<inboxVars, campaignVars, reply, texts, writes>>

\* hasSmsMessageId: the message is there already and nothing is written.
SeenBefore(h) ==
    /\ request[h].op = "inbound"
    /\ Serialized(h)
    /\ request[h].what \in stored
    /\ Release(h)
    /\ UNCHANGED <<inboxVars, campaignVars, reply, texts, writes>>

\* createSmsContactAndLead: a message that can be read and comes from nobody
\* known makes a contact; an overlong one waits for review.
Sender(h) ==
    LET r == request[h] IN
    IF r.whom # Nobody THEN {r.whom}
    ELSE IF Word[r.what] = "long" THEN {Nobody}
    ELSE {c \in Newcomers : contact[c] = Absent}

\* Mutant of ConsentAfter: the keyword is kept for the status.
ConsentNamed(word, consent) == IF word \in {"stop", "start"} THEN word ELSE consent

ConsentAfter(word, consent) ==
    CASE word = "stop" -> "opted_out"
      [] word = "start" -> "opted_in"
      [] OTHER -> consent

\* Mutant of Recorded: only the consent of a contact that was known before.
RecordedForKnown(h, c) ==
    LET m == request[h].what IN
    IF c = Nobody THEN contact
    ELSE [contact EXCEPT ![c].phone = From[m],
            ![c].consent = IF request[h].whom = c THEN ConsentAfter(Word[m], @) ELSE @]

\* The contact, made if need be, with the consent that a keyword means.
Recorded(h, c) ==
    LET m == request[h].what IN
    IF c = Nobody THEN contact
    ELSE [contact EXCEPT ![c].phone = From[m], ![c].consent = ConsentAfter(Word[m], @)]

\* persistSmsInboundEvent, up to its commit.
Store(h) ==
    LET m == request[h].what  p == From[m] IN
    /\ request[h].op = "store"
    /\ Write
    /\ \E c \in Sender(h) :
         /\ contact' = Recorded(h, c)
         /\ thread' = [thread EXCEPT ![p] = IF c # Nobody THEN c ELSE @]
    /\ stored' = stored \cup {m}
    /\ lastWord' = [lastWord EXCEPT ![p] = IF Word[m] \in {"stop", "start"} THEN Word[m] ELSE @]
    /\ Release(h)
    /\ UNCHANGED <<batches, campaignVars, reply, texts>>

\* recordWebsiteLeadSmsConsent: a web form with the box for text messages
\* ticked, or left empty.
FormAnswer(c, consent) ==
    /\ contact[c] # Absent /\ contact[c].consent # consent
    /\ Write
    /\ contact' = [contact EXCEPT ![c].consent = consent]
    /\ lastWord' = [lastWord EXCEPT ![contact[c].phone] =
                      IF consent = "opted_in" THEN "start" ELSE @]
    /\ UNCHANGED <<thread, stored, batches, campaignVars, reply, texts, request>>

\* An employee marks a contact do-not-call or wrong number.
Block(c) ==
    /\ contact[c] # Absent /\ ~ contact[c].blocked
    /\ Write
    /\ contact' = [contact EXCEPT ![c].blocked = TRUE]
    /\ UNCHANGED <<thread, stored, batches, lastWord, campaignVars, reply, texts, request>>

-----------------------------------------------------------------------------
(* The campaign.                                                           *)

\* evaluateSmsEligibility
Eligible(c) == ~ contact[c].blocked /\ contact[c].consent = "opted_in"

\* Mutant of Audiences: a phone is not asked for twice.
AudiencesOfContacts == {{c \in Contacts : contact[c] # Absent /\ Eligible(c)}}

\* buildSmsCampaignAudiencePreview: of the contacts with one phone the first is
\* included, if it is eligible, and the others are duplicates.  Which is first
\* depends on when they were last changed.
Audiences ==
    LET Used == {p \in Phones : With(p) # {}}
        Firsts == {f \in [Used -> Contacts] : \A p \in Used : f[p] \in With(p)}
    IN  {{f[p] : p \in {p \in Used : Eligible(f[p])}} : f \in Firsts}

\* replaceSmsCampaignRecipientSnapshot
Snapshot(included) ==
    /\ rows' = [c \in Contacts |->
         CASE c \in included -> [NoRow EXCEPT !.eligibility = "included", !.delivery = "not_queued"]
           [] contact[c] = Absent -> NoRow
           [] OTHER -> [NoRow EXCEPT !.eligibility = "blocked", !.delivery = "not_queued"]]
    /\ snapshot' = snapshot + 1

Approve ==
    /\ campaign \notin Final /\ approvals < MaxApprovals
    /\ Write
    /\ campaign' = "approved" /\ approvals' = approvals + 1
    /\ UNCHANGED <<inboxVars, rows, snapshot, reply, texts, request>>

Schedule ==
    /\ campaign = "approved"
    /\ Write
    /\ campaign' = "scheduled"
    /\ UNCHANGED <<inboxVars, approvals, rows, snapshot, reply, texts, request>>

Cancel ==
    /\ campaign \notin Final
    /\ Write
    /\ campaign' = "cancelled"
    /\ UNCHANGED <<inboxVars, approvals, rows, snapshot, reply, texts, request>>

Preview ==
    /\ Write
    /\ \E included \in Audiences : Snapshot(included)
    /\ UNCHANGED <<inboxVars, campaign, approvals, reply, texts, request>>

\* Mutant of MayLaunch: a campaign that is being launched is approved as well.
MayLaunchAgain(included) == campaign \in {"approved", "launching"} /\ included # {}

\* evaluateSmsCampaignLaunchPolicy, as far as it does not depend on settings.
MayLaunch(included) == campaign = "approved" /\ included # {}

\* requestSmsCampaignLaunch: its first transaction.  Whether the provider and
\* the compliance settings are ready is the environment's.
Launch(h) ==
    /\ request[h] = Idle
    /\ Write
    /\ \E included \in Audiences :
         /\ Snapshot(included)
         /\ \/ /\ MayLaunch(included)
               /\ campaign' = "launching"
               /\ Hold(h, [Idle EXCEPT !.op = "send", !.todo = included])
            \/ campaign' = "launch_blocked" /\ UNCHANGED request
    /\ UNCHANGED <<inboxVars, approvals, reply, texts>>

\* What became of a send: the carrier took it, or knows its Idempotency-Key,
\* refused it, or took it and the answer was lost.  0: the sender has no id.
Sent(phone, by, result) ==
    \/ texts' = Append(texts, [phone |-> phone, by |-> by]) /\ result = Len(texts) + 1
    \/ texts' = Append(texts, [phone |-> phone, by |-> by]) /\ result = 0
    \/ UNCHANGED texts /\ result = 0
    \/ /\ UNCHANGED texts
       /\ result \in {t \in 1 .. Len(texts) : texts[t] = [phone |-> phone, by |-> by]}

Results == 0 .. Len(texts) + 1

SendNext(h) ==
    /\ request[h].op = "send"
    /\ \E c \in request[h].todo, t \in Results :
         /\ Sent(contact[c].phone, c, t)
         /\ Hold(h, [request[h] EXCEPT !.todo = @ \ {c}, !.results = @ \cup {<<c, t>>}])
    /\ UNCHANGED <<inboxVars, campaignVars, reply, writes>>

\* Mutant of Reached: whatever row is included.
ReachedIncluded(c, d) == rows[d].eligibility = "included"

\* The results are noted by phone, in the snapshot there is by then.
Reached(c, d) == contact[d].phone = contact[c].phone /\ rows[d].eligibility = "included"

NoteResults(h) ==
    LET r == request[h] IN
    /\ r.op = "send" /\ r.todo = {}
    /\ Write
    /\ rows' = [d \in Contacts |->
         IF \E x \in r.results : Reached(x[1], d)
         THEN LET t == (CHOOSE x \in r.results : Reached(x[1], d))[2] IN
              [rows[d] EXCEPT !.delivery = IF t # 0 THEN "pending" ELSE "failed", !.text = t]
         ELSE rows[d]]
    /\ campaign' = IF \E x \in r.results : x[2] = 0 THEN "failed" ELSE "completed"
    /\ Release(h)
    /\ UNCHANGED <<inboxVars, approvals, snapshot, reply, texts>>

\* refreshSmsCampaignDeliveryStatuses: the rows that have a provider's id are
\* asked about one by one,
ReadRows(h) ==
    LET asked == {c \in Contacts : rows[c].eligibility = "included" /\ rows[c].text # 0} IN
    /\ request[h] = Idle /\ asked # {}
    /\ Hold(h, [Idle EXCEPT !.op = "refresh", !.batch = snapshot, !.todo = asked])
    /\ UNCHANGED <<inboxVars, campaignVars, reply, texts, writes>>

\* and updated by their row id, if they are there still.
NoteRefresh(h) ==
    /\ request[h].op = "refresh"
    /\ Write
    /\ \E answer \in [request[h].todo -> {"pending", "delivered", "failed"}] :
         rows' = [c \in Contacts |->
           IF request[h].batch = snapshot /\ c \in request[h].todo
           THEN [rows[c] EXCEPT !.delivery = answer[c]] ELSE rows[c]]
    /\ Release(h)
    /\ UNCHANGED <<inboxVars, campaign, approvals, snapshot, reply, texts>>

-----------------------------------------------------------------------------
(* Replies by hand.                                                        *)

\* evaluateManualOutboundGuardrails on what loadManualOutboundContext read: the
\* phone has written, and its contact has not opted out.
CheckReply(h, r, c) ==
    /\ request[h] = Idle
    /\ \E p \in Phones :
         /\ thread[p] = c
         /\ \E m \in stored : From[m] = p
         /\ Hold(h, [Idle EXCEPT !.op = "reply", !.what = r, !.whom = p])
    /\ ~ contact[c].blocked /\ contact[c].consent # "opted_out"
    /\ UNCHANGED <<inboxVars, campaignVars, reply, texts, writes>>

\* Mutant of Fresh: the row that is there is not told from a new one.
FreshOrFound(r) == TRUE

\* recordConversationMessage on conflict: only the handler that inserted the
\* row of this request id goes on to send.
Fresh(r) == reply[r] = NoReply

NoteReply(h) ==
    LET r == request[h].what IN
    /\ request[h].op = "reply"
    /\ IF Fresh(r)
       THEN /\ Write
            /\ reply' = [reply EXCEPT ![r].status = "pending"]
            /\ Hold(h, [request[h] EXCEPT !.op = "dispatch"])
       ELSE Release(h) /\ UNCHANGED <<reply, writes>>
    /\ UNCHANGED <<inboxVars, campaignVars, texts>>

Dispatch(h) ==
    /\ request[h].op = "dispatch"
    /\ \E t \in Results :
         /\ Sent(request[h].whom, request[h].what, t)
         /\ Hold(h, [request[h] EXCEPT !.op = "settle", !.batch = t])
    /\ UNCHANGED <<inboxVars, campaignVars, reply, writes>>

\* updateConversationMessageDeliveryStatus keeps an id it has.
Settle(h) ==
    LET t == request[h].batch IN
    /\ request[h].op = "settle"
    /\ Write
    /\ reply' = [reply EXCEPT ![request[h].what] =
         [status |-> IF t # 0 THEN "sent" ELSE "failed", text |-> IF t # 0 THEN t ELSE @.text]]
    /\ Release(h)
    /\ UNCHANGED <<inboxVars, campaignVars, texts>>

\* persistSmsDeliveryStatusEvent: a report is matched by the provider's id, so
\* one that comes before the id was noted finds nothing.
DeliveryReport(r) ==
    /\ reply[r].text # 0
    /\ Write
    /\ \E status \in {"sent", "delivered", "failed"} :
         /\ status # reply[r].status
         /\ reply' = [reply EXCEPT ![r].status = status]
    /\ UNCHANGED <<inboxVars, campaignVars, texts, request>>

-----------------------------------------------------------------------------
\* The handler fails or dies; what it committed or sent stays.
Abandon(h) ==
    /\ request[h] # Idle
    /\ Release(h)
    /\ UNCHANGED <<inboxVars, campaignVars, reply, texts, writes>>

Handle(h) ==
    \/ \E m \in Inbound : FindBatch(h, m)
    \/ CreateBatch(h) \/ Look(h) \/ SeenBefore(h) \/ Store(h)
    \/ Launch(h) \/ SendNext(h) \/ NoteResults(h)
    \/ ReadRows(h) \/ NoteRefresh(h)
    \/ \E r \in Replies, c \in Contacts : CheckReply(h, r, c)
    \/ NoteReply(h) \/ Dispatch(h) \/ Settle(h)
    \/ Abandon(h)

Next ==
    \/ \E h \in Handlers : Handle(h)
    \/ \E c \in Contacts :
         \/ Block(c)
         \/ \E consent \in {"opted_in", "opted_out"} : FormAnswer(c, consent)
    \/ Approve \/ Schedule \/ Cancel \/ Preview
    \/ \E r \in Replies : DeliveryReport(r)

Spec == Init /\ [][Next]_vars

-----------------------------------------------------------------------------
(* Properties.                                                             *)

TypeOK ==
    /\ contact \in [Contacts -> [phone : Phones \cup {Nobody}, blocked : BOOLEAN,
                                 consent : {"unknown", "opted_in", "opted_out"}]]
    /\ thread \in [Phones -> Contacts \cup {Nobody}]
    /\ stored \subseteq Inbound
    /\ batches \in Nat /\ snapshot \in Nat /\ approvals \in Nat /\ writes \in Nat
    /\ campaign \in Statuses
    /\ rows \in [Contacts -> [eligibility : {"none", "included", "blocked"},
         delivery : {"none", "not_queued", "pending", "delivered", "failed"}, text : Nat]]
    /\ reply \in [Replies -> [status : {"none", "pending", "sent", "delivered", "failed"},
                              text : Nat]]
    /\ texts \in Seq([phone : Phones, by : Contacts \cup Replies])
    /\ lastWord \in [Phones -> {"none", "stop", "start"}]

\* However launches, approvals, cancellations and crashes cross, nobody gets
\* the campaign's text more often than the campaign was approved: also with
\* several contacts for a phone, and when a launch died in the middle and the
\* campaign was approved and launched again.
TextsAreApproved ==
    \A p \in Phones :
        Cardinality({t \in 1 .. Len(texts) : texts[t].phone = p /\ texts[t].by \in Contacts})
            <= approvals

\* The provider's id on a recipient's row is of a text to that recipient's
\* phone, also where the results of one launch were noted in the snapshot of
\* a later preview or launch with another choice among duplicates.
RowsTellTheirTexts ==
    \A c \in Contacts : rows[c].text # 0 =>
        /\ rows[c].text <= Len(texts)
        /\ texts[rows[c].text].phone = contact[c].phone
        /\ texts[rows[c].text].by \in Contacts

\* Messages of one unknown phone that arrive together make one contact: at most
\* one in each batch of the day, of which there is one but for a race of the
\* day's first messages.
NewcomersPerBatch ==
    \A p \in Phones : Cardinality(With(p) \cap Newcomers) <= batches

\* With one batch: whoever's last word was STOP, the contact their conversation
\* belongs to, of which every reply asks the consent, has opted out; also when
\* the STOP was the first message of an unknown phone or arrived twice or
\* beside other messages.
StopIsHeard ==
    batches <= 1 =>
        \A p \in Phones : lastWord[p] = "stop" =>
            thread[p] # Nobody /\ contact[thread[p]].consent = "opted_out"

\* One request for a reply, repeated by the browser or sent to two servers,
\* hands the carrier at most one text, whatever died in between.
OneTextPerReply ==
    \A t, u \in 1 .. Len(texts) :
        texts[t].by = texts[u].by /\ texts[t].by \in Replies => t = u

=============================================================================
