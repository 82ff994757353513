------------------------- MODULE SmsOutreachProofs -------------------------
(***************************************************************************)
(* Proofs about SmsOutreach, for any number of handlers, phones, contacts, *)
(* messages and replies.                                                   *)
(***************************************************************************)
EXTENDS SmsOutreach, FiniteSetTheorems, TLAPS

Ops == {"idle", "batch", "inbound", "store", "send", "refresh", "reply", "dispatch", "settle"}
Requests == [op : Ops, what : Inbound \cup Replies \cup {Nobody}, batch : Nat,
             whom : Contacts \cup Phones \cup {Nobody},
             todo : SUBSET Contacts, results : SUBSET (Contacts \X Nat)]

RequestTyped == request \in [Handlers -> Requests]

\* What a handler of each kind holds; a stored message's contact, once found,
\* has the phone the message came from.
HandlerIsRight(h) ==
    LET r == request[h] IN
    /\ r.op \in {"batch", "inbound", "store"} => r.what \in Inbound
    /\ r.op \in {"inbound", "store"} => r.batch \in 1 .. batches
    /\ r.op = "store" /\ r.whom # Nobody =>
         r.whom \in Contacts /\ contact[r.whom].phone = From[r.what]
    /\ r.op \in {"reply", "dispatch", "settle"} => r.what \in Replies /\ r.whom \in Phones

HandlersAreRight == \A h \in Handlers : HandlerIsRight(h)

\* A contact that is there has a phone, and a conversation's contact its phone.
PhonesAreRight ==
    /\ \A c \in Contacts : contact[c].phone = Nobody => contact[c] = Absent
    /\ \A p \in Phones : thread[p] # Nobody => contact[thread[p]].phone = p

\* Two contacts still to be texted have different phones.
TodoIsRight ==
    \A h \in Handlers : request[h].op = "send" =>
        /\ \A c \in request[h].todo : contact[c].phone # Nobody
        /\ \A c, d \in request[h].todo : contact[c].phone = contact[d].phone => c = d

Base == TypeOK /\ RequestTyped /\ HandlersAreRight /\ PhonesAreRight /\ TodoIsRight

TellsText(c, t) ==
    t # 0 => /\ t <= Len(texts)
             /\ texts[t].phone = contact[c].phone
             /\ texts[t].by \in Contacts

ResultsAreRight ==
    \A h \in Handlers : request[h].op = "send" =>
        \A x \in request[h].results : TellsText(x[1], x[2])

\* The campaign's texts to a phone, the launches that still owe it one, and the
\* approval that is still to be used.
TextsTo(p) == {t \in 1 .. Len(texts) : texts[t].phone = p /\ texts[t].by \in Contacts}
Owing(p) == {h \in Handlers : request[h].op = "send"
                /\ \E c \in request[h].todo : contact[c].phone = p}
Spare == IF campaign = "approved" THEN 1 ELSE 0

Covered(p) ==
    /\ IsFiniteSet(Owing(p))
    /\ Cardinality(TextsTo(p)) + Cardinality(Owing(p)) + Spare <= approvals

ApprovalsCover == \A p \in Phones : Covered(p)

\* Two handlers in the storing transaction hold different batches.
StoresAreApart ==
    \A g, h \in Handlers :
        request[g].op = "store" /\ request[h].op = "store"
          /\ request[g].batch = request[h].batch => g = h

\* The contacts created with a phone, and the handlers that may create one.
Made(p) == With(p) \cap Newcomers
Makers(p) == {h \in Handlers : request[h].op = "store" /\ request[h].whom = Nobody
                 /\ From[request[h].what] = p}

Accounted(p) ==
    /\ IsFiniteSet(Made(p)) /\ IsFiniteSet(Makers(p))
    /\ Cardinality(Made(p)) + Cardinality(Makers(p)) <= batches

BatchesCover == \A p \in Phones : Accounted(p)

\* With one batch, a handler that stores a message knows its conversation.
StoreKnowsThread ==
    batches <= 1 =>
        \A h \in Handlers : request[h].op = "store" =>
            LET p == From[request[h].what] IN
            thread[p] # Nobody => request[h].whom = thread[p]

\* One handler at most has inserted the row of a request id; it has not sent
\* while it is about to, and nothing was sent before the row was there.
Sends(h, r) == request[h].op \in {"dispatch", "settle"} /\ request[h].what = r
SentBy(r) == {t \in 1 .. Len(texts) : texts[t].by = r}

SenderIsRight(r) ==
    /\ \A g, h \in Handlers : Sends(g, r) /\ Sends(h, r) => g = h
    /\ \A h \in Handlers : Sends(h, r) => reply[r] # NoReply
    /\ \A h \in Handlers : request[h].op = "dispatch" /\ request[h].what = r => SentBy(r) = {}
    /\ reply[r] = NoReply => SentBy(r) = {}
    /\ \A t, u \in SentBy(r) : t = u

SendersAreRight == \A r \in Replies : SenderIsRight(r)

-----------------------------------------------------------------------------
(* What the pieces of the actions do.                                      *)

ContactRows == [phone : Phones \cup {Nobody}, blocked : BOOLEAN,
                consent : {"unknown", "opted_in", "opted_out"}]
RecipientRows == [eligibility : {"none", "included", "blocked"},
                  delivery : {"none", "not_queued", "pending", "delivered", "failed"}, text : Nat]
ReplyRows == [status : {"none", "pending", "sent", "delivered", "failed"}, text : Nat]
Texts == [phone : Phones, by : Contacts \cup Replies]

\* Who has a phone keeps it.
PhonesStay == \A c \in Contacts : contact[c].phone # Nobody => contact'[c].phone = contact[c].phone

LEMMA IdleTyped == Idle \in Requests
<1>1. Idle.op \in Ops /\ Idle.what = Nobody /\ Idle.batch = 0 /\ Idle.whom = Nobody
      /\ Idle.todo = {} /\ Idle.results = {}
  BY DEF Idle, Ops
<1> QED
  BY <1>1 DEF Idle, Requests, Ops

\* A handler's new request is the only one that changes.
LEMMA HoldStep ==
    ASSUME RequestTyped, NEW h \in Handlers, NEW r \in Requests, Hold(h, r)
    PROVE  /\ RequestTyped'
           /\ request'[h] = r
           /\ \A g \in Handlers : g # h => request'[g] = request[g]
BY DEF RequestTyped, Hold

\* What the other handlers hold stays right.
LEMMA OthersStayRight ==
    ASSUME TypeOK, RequestTyped, HandlersAreRight, NEW g \in Handlers,
           request'[g] = request[g], batches' \in Nat, batches' >= batches, PhonesStay
    PROVE  HandlerIsRight(g)'
<1>1. HandlerIsRight(g) /\ request[g] \in Requests
  BY DEF HandlersAreRight, RequestTyped
<1>2. request[g].batch \in 1 .. batches => request[g].batch \in 1 .. batches'
  BY DEF TypeOK
<1>3. request[g].op = "store" /\ request[g].whom # Nobody =>
        contact'[request[g].whom].phone = From[request[g].what]
  <2>1. request[g].op = "store" => From[request[g].what] \in Phones
    BY <1>1, SmsAssumption DEF HandlerIsRight
  <2> QED
    BY <1>1, <2>1, SmsAssumption DEF HandlerIsRight, PhonesStay
<1> QED
  BY <1>1, <1>2, <1>3 DEF HandlerIsRight

\* So what the handler that takes the step holds decides.
LEMMA RightAfterHold ==
    ASSUME TypeOK, RequestTyped, HandlersAreRight, NEW h \in Handlers, NEW r \in Requests,
           Hold(h, r), batches' \in Nat, batches' >= batches, PhonesStay,
           HandlerIsRight(h)'
    PROVE  RequestTyped' /\ HandlersAreRight'
<1>1. RequestTyped' /\ \A g \in Handlers : g # h => request'[g] = request[g]
  BY HoldStep
<1>2. ASSUME NEW g \in Handlers
      PROVE  HandlerIsRight(g)'
  <2>1. CASE g = h
    BY <2>1
  <2>2. CASE g # h
    <3>1. request'[g] = request[g]
      BY <1>1, <2>2
    <3> QED
      BY <3>1, OthersStayRight
  <2> QED
    BY <2>1, <2>2
<1> QED
  BY <1>1, <1>2 DEF HandlersAreRight

LEMMA RightWithoutHold ==
    ASSUME TypeOK, RequestTyped, HandlersAreRight, UNCHANGED request,
           batches' \in Nat, batches' >= batches, PhonesStay
    PROVE  RequestTyped' /\ HandlersAreRight'
<1>1. ASSUME NEW g \in Handlers
      PROVE  HandlerIsRight(g)'
  BY OthersStayRight
<1> QED
  BY <1>1 DEF HandlersAreRight, RequestTyped

\* A handler that ends holds nothing.
LEMMA RightAfterRelease ==
    ASSUME TypeOK, RequestTyped, HandlersAreRight, NEW h \in Handlers,
           Release(h), batches' \in Nat, batches' >= batches, PhonesStay
    PROVE  RequestTyped' /\ HandlersAreRight' /\ request'[h] = Idle
<1>1. Hold(h, Idle) /\ Idle \in Requests
  BY IdleTyped DEF Release
<1>2. request'[h] = Idle
  BY <1>1, HoldStep
<1>3. HandlerIsRight(h)'
  BY <1>2 DEF HandlerIsRight, Idle
<1> QED
  BY <1>1, <1>2, <1>3, RightAfterHold

\* The contacts of a handler that sends.
TodoOf(h) ==
    /\ \A c \in request[h].todo : contact[c].phone # Nobody
    /\ \A c, d \in request[h].todo : contact[c].phone = contact[d].phone => c = d

LEMMA TodoStaysRight ==
    ASSUME TypeOK, RequestTyped, TodoIsRight, PhonesStay, NEW g \in Handlers,
           request'[g].op = "send",
           request[g].op = "send", request'[g].todo \subseteq request[g].todo
    PROVE  TodoOf(g)'
<1>1. TodoOf(g) /\ request[g].todo \subseteq Contacts
  BY DEF TodoIsRight, TodoOf, RequestTyped, Requests
<1>2. \A c \in request[g].todo : contact'[c].phone = contact[c].phone /\ contact[c].phone # Nobody
  BY <1>1 DEF PhonesStay, TodoOf
<1> QED
  BY <1>1, <1>2 DEF TodoOf

\* Every handler but one is as it was; that one does not begin to send.
LEMMA TodoRightAfterHold ==
    ASSUME TypeOK, RequestTyped, TodoIsRight, PhonesStay,
           \A g \in Handlers : request'[g] = request[g]
              \/ request'[g].op # "send"
              \/ (request[g].op = "send" /\ request'[g].todo \subseteq request[g].todo)
    PROVE  TodoIsRight'
<1>1. ASSUME NEW g \in Handlers, request'[g].op = "send"
      PROVE  TodoOf(g)'
  <2>1. request[g].op = "send" /\ request'[g].todo \subseteq request[g].todo
    BY <1>1
  <2> QED
    BY <1>1, <2>1, TodoStaysRight
<1> QED
  BY <1>1 DEF TodoIsRight, TodoOf

\* The carrier's answer is 0 or the number of a text to that phone on that
\* account; the texts sent before stay.
LEMMA SentStep ==
    ASSUME TypeOK, NEW phone \in Phones, NEW by \in Contacts \cup Replies, NEW t \in Results,
           Sent(phone, by, t)
    PROVE  /\ texts' \in Seq(Texts)
           /\ texts' = texts \/ texts' = Append(texts, [phone |-> phone, by |-> by])
           /\ Len(texts') >= Len(texts)
           /\ \A i \in 1 .. Len(texts) : texts'[i] = texts[i]
           /\ t # 0 => /\ t \in 1 .. Len(texts')
                       /\ texts'[t].phone = phone /\ texts'[t].by = by
           /\ t \in Nat
<1> DEFINE x == [phone |-> phone, by |-> by]
<1>1. x \in Texts /\ x.phone = phone /\ x.by = by
  BY DEF Texts
<1>2. texts \in Seq(Texts) /\ Len(texts) \in Nat
  BY DEF TypeOK, Texts
<1>3. t \in Nat
  BY <1>2 DEF Results
<1>4. Sent(phone, by, t) <=>
        \/ texts' = Append(texts, x) /\ t = Len(texts) + 1
        \/ texts' = Append(texts, x) /\ t = 0
        \/ texts' = texts /\ t = 0
        \/ texts' = texts /\ t \in 1 .. Len(texts) /\ texts[t] = x
  BY DEF Sent
<1> HIDE DEF x
<1>5. CASE texts' = Append(texts, x)
  <2>1. Len(texts') = Len(texts) + 1 /\ texts'[Len(texts) + 1] = x
        /\ \A i \in 1 .. Len(texts) : texts'[i] = texts[i]
    BY <1>1, <1>2, <1>5
  <2>2. texts' \in Seq(Texts)
    BY <1>1, <1>2, <1>5
  <2>3. t = 0 \/ t = Len(texts) + 1 \/ (t \in 1 .. Len(texts) /\ texts[t] = x)
    BY <1>4
  <2>4. t # 0 => t \in 1 .. Len(texts') /\ texts'[t] = x
    BY <1>2, <2>1, <2>3
  <2> QED
    BY <1>1, <1>2, <1>3, <1>5, <2>1, <2>2, <2>4 DEF x
<1>6. CASE texts' = texts
  <2>1. texts # Append(texts, x)
    BY <1>1, <1>2
  <2>2. t = 0 \/ (t \in 1 .. Len(texts) /\ texts[t] = x)
    BY <1>4, <1>6, <2>1
  <2> QED
    BY <1>1, <1>2, <1>3, <1>6, <2>2
<1> QED
  BY <1>4, <1>5, <1>6

\* An audience has contacts with phones, one for each phone.
LEMMA AudienceIsRight ==
    ASSUME TypeOK, NEW included \in Audiences
    PROVE  /\ included \subseteq Contacts
           /\ \A c \in included : contact[c].phone \in Phones /\ contact[c].phone # Nobody
           /\ \A c, d \in included : contact[c].phone = contact[d].phone => c = d
<1> DEFINE Used == {p \in Phones : With(p) # {}}
<1>1. PICK f \in [Used -> Contacts] :
        /\ \A p \in Used : f[p] \in With(p)
        /\ included = {f[p] : p \in {p \in Used : Eligible(f[p])}}
  BY DEF Audiences
<1>2. \A c \in included : \E p \in Used : c = f[p] /\ contact[c].phone = p /\ c \in Contacts
  BY <1>1 DEF With
<1>3. \A p \in Used : p \in Phones /\ p # Nobody
  BY SmsAssumption
<1> HIDE DEF Used
<1> QED
  BY <1>2, <1>3

\* A snapshot is of new rows, without texts.
LEMMA SnapshotStep ==
    ASSUME NEW included, Snapshot(included)
    PROVE  /\ rows' \in [Contacts -> RecipientRows]
           /\ \A c \in Contacts : rows'[c].text = 0
<1> DEFINE row(c) ==
      CASE c \in included -> [NoRow EXCEPT !.eligibility = "included", !.delivery = "not_queued"]
        [] contact[c] = Absent -> NoRow
        [] OTHER -> [NoRow EXCEPT !.eligibility = "blocked", !.delivery = "not_queued"]
<1>1. rows' = [c \in Contacts |-> row(c)]
  BY DEF Snapshot
<1>2. ASSUME NEW c \in Contacts
      PROVE  row(c) \in RecipientRows /\ row(c).text = 0
  BY DEF NoRow, RecipientRows
<1> HIDE DEF row
<1> QED
  BY <1>1, <1>2

-----------------------------------------------------------------------------
(* The handlers' kinds and the types, kept by every step.                  *)

\* TypeOK of what an inbound message does not touch, and of what it does.
InboxTyped ==
    /\ contact \in [Contacts -> ContactRows]
    /\ thread \in [Phones -> Contacts \cup {Nobody}]
    /\ stored \subseteq Inbound
    /\ batches \in Nat
    /\ lastWord \in [Phones -> {"none", "stop", "start"}]

CampaignTyped ==
    /\ campaign \in Statuses
    /\ approvals \in Nat /\ snapshot \in Nat
    /\ rows \in [Contacts -> RecipientRows]

OutboxTyped ==
    /\ reply \in [Replies -> ReplyRows]
    /\ texts \in Seq(Texts)
    /\ writes \in Nat

LEMMA TypeParts == TypeOK <=> InboxTyped /\ CampaignTyped /\ OutboxTyped
BY DEF TypeOK, InboxTyped, CampaignTyped, OutboxTyped, ContactRows, RecipientRows, ReplyRows, Texts

LEMMA TypePartsNext == TypeOK' <=> InboxTyped' /\ CampaignTyped' /\ OutboxTyped'
BY TypeParts, PTL

LEMMA InboxSame == ASSUME InboxTyped, UNCHANGED inboxVars PROVE InboxTyped'
BY DEF InboxTyped, inboxVars

LEMMA CampaignSame == ASSUME CampaignTyped, UNCHANGED campaignVars PROVE CampaignTyped'
BY DEF CampaignTyped, campaignVars

LEMMA OutboxSame ==
    ASSUME OutboxTyped, UNCHANGED <<reply, texts>>, UNCHANGED writes \/ Write
    PROVE  OutboxTyped'
BY DEF OutboxTyped, Write

\* A step that leaves the contacts and conversations alone leaves them right.
LEMMA PhonesSame ==
    ASSUME PhonesAreRight, UNCHANGED inboxVars
    PROVE  PhonesAreRight' /\ PhonesStay
BY DEF PhonesAreRight, PhonesStay, inboxVars

\* A step of a handler between transactions: it takes up something else.
LEMMA TakesUp ==
    ASSUME Base, NEW h \in Handlers, NEW r \in Requests, Hold(h, r),
           UNCHANGED inboxVars, r.op # "send", HandlerIsRight(h)'
    PROVE  RequestTyped' /\ HandlersAreRight' /\ PhonesAreRight' /\ TodoIsRight'
<1>1. PhonesAreRight' /\ PhonesStay
  BY PhonesSame DEF Base
<1>2. batches' = batches /\ batches \in Nat
  BY DEF inboxVars, Base, TypeOK
<1>3. RequestTyped' /\ HandlersAreRight'
  BY <1>1, <1>2, RightAfterHold DEF Base
<1>4. \A g \in Handlers : request'[g] = request[g] \/ request'[g].op # "send"
  BY HoldStep DEF Base
<1> QED
  BY <1>1, <1>3, <1>4, TodoRightAfterHold DEF Base

LEMMA Ends ==
    ASSUME Base, NEW h \in Handlers, Release(h), batches' = batches, PhonesStay
    PROVE  RequestTyped' /\ HandlersAreRight' /\ TodoIsRight'
<1>1. RequestTyped' /\ HandlersAreRight' /\ request'[h] = Idle
  BY RightAfterRelease DEF Base, TypeOK
<1>2. \A g \in Handlers : request'[g] = request[g] \/ request'[g].op # "send"
  BY <1>1, HoldStep, IdleTyped DEF Base, Release, Idle
<1> QED
  BY <1>1, <1>2, TodoRightAfterHold DEF Base

LEMMA Waits ==
    ASSUME Base, UNCHANGED request, batches' = batches, PhonesStay
    PROVE  RequestTyped' /\ HandlersAreRight' /\ TodoIsRight'
<1>1. RequestTyped' /\ HandlersAreRight'
  BY RightWithoutHold DEF Base, TypeOK
<1>2. \A g \in Handlers : request'[g] = request[g]
  OBVIOUS
<1> QED
  BY <1>1, <1>2, TodoRightAfterHold DEF Base

LEMMA FindBatchKeepsBase ==
    ASSUME Base, NEW h \in Handlers, NEW m \in Inbound, FindBatch(h, m)
    PROVE  Base'
<1> DEFINE r == [Idle EXCEPT !.op = IF batches = 0 THEN "batch" ELSE "inbound",
                             !.what = m, !.batch = batches]
<1>1. /\ r.op = IF batches = 0 THEN "batch" ELSE "inbound"
      /\ r.what = m /\ r.batch = batches
  BY DEF Idle
<1>2. r \in Requests
  BY IdleTyped DEF Base, TypeOK, Requests, Ops
<1>3. Hold(h, r)
  BY DEF FindBatch
<1> HIDE DEF r
<1>4. UNCHANGED <<inboxVars, campaignVars, reply, texts, writes>>
  BY DEF FindBatch
<1>5. request'[h] = r
  BY <1>2, <1>3, HoldStep DEF Base
<1>6. HandlerIsRight(h)'
  BY <1>1, <1>4, <1>5 DEF HandlerIsRight, Base, TypeOK, inboxVars
<1>7. RequestTyped' /\ HandlersAreRight' /\ PhonesAreRight' /\ TodoIsRight'
  BY <1>1, <1>2, <1>3, <1>4, <1>6, TakesUp
<1>8. TypeOK'
  BY <1>4, TypeParts, TypePartsNext, InboxSame, CampaignSame, OutboxSame DEF Base
<1> QED
  BY <1>7, <1>8 DEF Base

LEMMA CreateBatchKeepsBase ==
    ASSUME Base, NEW h \in Handlers, CreateBatch(h)
    PROVE  Base'
<1> DEFINE r == [request[h] EXCEPT !.op = "inbound", !.batch = batches + 1]
<1>1. request[h] \in Requests /\ HandlerIsRight(h) /\ batches \in Nat
  BY DEF Base, RequestTyped, HandlersAreRight, TypeOK
<1>2. /\ r \in Requests /\ r.op = "inbound" /\ r.batch = batches + 1
      /\ r.what = request[h].what
  <2>1. batches + 1 \in Nat /\ "inbound" \in Ops
    BY <1>1 DEF Ops
  <2> QED
    BY <1>1, <2>1 DEF Requests
<1>3. Hold(h, r) /\ batches' = batches + 1 /\ UNCHANGED <<contact, thread, stored, lastWord>>
      /\ UNCHANGED <<campaignVars, reply, texts, writes>>
  BY DEF CreateBatch
<1>4. request[h].what \in Inbound
  BY <1>1 DEF CreateBatch, HandlerIsRight
<1> HIDE DEF r
<1>5. request'[h] = r /\ \A g \in Handlers : g # h => request'[g] = request[g]
  BY <1>2, <1>3, HoldStep DEF Base
<1>6. HandlerIsRight(h)'
  BY <1>1, <1>2, <1>3, <1>4, <1>5 DEF HandlerIsRight
<1>7. PhonesStay /\ PhonesAreRight'
  BY <1>3 DEF PhonesStay, PhonesAreRight, Base
<1>8. RequestTyped' /\ HandlersAreRight'
  BY <1>1, <1>2, <1>3, <1>6, <1>7, RightAfterHold DEF Base
<1>9. TodoIsRight'
  BY <1>2, <1>5, <1>7, TodoRightAfterHold DEF Base
<1>10. InboxTyped'
  BY <1>1, <1>3, TypeParts DEF InboxTyped, Base
<1>11. TypeOK'
  BY <1>3, <1>10, TypeParts, TypePartsNext, CampaignSame, OutboxSame DEF Base
<1> QED
  BY <1>7, <1>8, <1>9, <1>11 DEF Base

\* The contact found for a phone has that phone.
LEMMA ExistingHasPhone ==
    ASSUME Base, NEW p \in Phones, NEW c \in Existing(p)
    PROVE  /\ c \in Contacts \cup {Nobody}
           /\ c # Nobody => contact[c].phone = p
           /\ c = Nobody => thread[p] = Nobody /\ With(p) = {}
           /\ thread[p] # Nobody => c = thread[p]
<1>1. thread[p] \in Contacts \cup {Nobody} /\ (thread[p] # Nobody => contact[thread[p]].phone = p)
  BY DEF Base, TypeOK, PhonesAreRight
<1>2. \A d \in With(p) : d \in Contacts /\ d # Nobody /\ contact[d].phone = p
  BY SmsAssumption DEF With
<1> HIDE DEF With
<1> QED
  BY <1>1, <1>2 DEF Existing

LEMMA LookKeepsBase ==
    ASSUME Base, NEW h \in Handlers, Look(h)
    PROVE  Base'
<1>1. request[h] \in Requests /\ HandlerIsRight(h) /\ request[h].op = "inbound"
  BY DEF Base, RequestTyped, HandlersAreRight, Look
<1>2. request[h].what \in Inbound /\ request[h].batch \in 1 .. batches
      /\ From[request[h].what] \in Phones
  BY <1>1, SmsAssumption DEF HandlerIsRight
<1>3. PICK c \in Existing(From[request[h].what]) :
        Hold(h, [request[h] EXCEPT !.op = "store", !.whom = c])
  BY DEF Look
<1>4. c \in Contacts \cup {Nobody} /\ (c # Nobody => contact[c].phone = From[request[h].what])
  BY <1>2, <1>3, ExistingHasPhone
<1> DEFINE r == [request[h] EXCEPT !.op = "store", !.whom = c]
<1>5. /\ r \in Requests /\ r.op = "store" /\ r.batch = request[h].batch
      /\ r.what = request[h].what /\ r.whom = c
  BY <1>1, <1>4 DEF Requests, Ops
<1>6. Hold(h, r)
  BY <1>3
<1>7. UNCHANGED <<inboxVars, campaignVars, reply, texts, writes>>
  BY DEF Look
<1> HIDE DEF r
<1>8. request'[h] = r
  BY <1>5, <1>6, HoldStep DEF Base
<1>9. HandlerIsRight(h)'
  BY <1>2, <1>4, <1>5, <1>7, <1>8 DEF HandlerIsRight, inboxVars
<1>10. RequestTyped' /\ HandlersAreRight' /\ PhonesAreRight' /\ TodoIsRight'
  BY <1>5, <1>6, <1>7, <1>9, TakesUp
<1>11. TypeOK'
  BY <1>7, TypeParts, TypePartsNext, InboxSame, CampaignSame, OutboxSame DEF Base
<1> QED
  BY <1>10, <1>11 DEF Base

LEMMA SeenBeforeKeepsBase ==
    ASSUME Base, NEW h \in Handlers, SeenBefore(h)
    PROVE  Base'
<1>1. Release(h) /\ UNCHANGED <<inboxVars, campaignVars, reply, texts, writes>>
  BY DEF SeenBefore
<1>2. PhonesAreRight' /\ PhonesStay
  BY <1>1, PhonesSame DEF Base
<1>3. RequestTyped' /\ HandlersAreRight' /\ TodoIsRight'
  BY <1>1, <1>2, Ends DEF inboxVars
<1>4. TypeOK'
  BY <1>1, TypeParts, TypePartsNext, InboxSame, CampaignSame, OutboxSame DEF Base
<1> QED
  BY <1>2, <1>3, <1>4 DEF Base

LEMMA AbandonKeepsBase ==
    ASSUME Base, NEW h \in Handlers, Abandon(h)
    PROVE  Base'
<1>1. Release(h) /\ UNCHANGED <<inboxVars, campaignVars, reply, texts, writes>>
  BY DEF Abandon
<1>2. PhonesAreRight' /\ PhonesStay
  BY <1>1, PhonesSame DEF Base
<1>3. RequestTyped' /\ HandlersAreRight' /\ TodoIsRight'
  BY <1>1, <1>2, Ends DEF inboxVars
<1>4. TypeOK'
  BY <1>1, TypeParts, TypePartsNext, InboxSame, CampaignSame, OutboxSame DEF Base
<1> QED
  BY <1>2, <1>3, <1>4 DEF Base

\* What the transaction that stores a message does: the contact that comes out
\* is the one found, or a new one where nobody was, or nobody.
StoredAs(h, c) ==
    /\ c \in Sender(h)
    /\ contact' = Recorded(h, c)
    /\ thread' = [thread EXCEPT ![From[request[h].what]] = IF c # Nobody THEN c ELSE @]

LEMMA StoreStep ==
    ASSUME Base, NEW h \in Handlers, Store(h)
    PROVE  /\ request[h].op = "store" /\ request[h].what \in Inbound
           /\ From[request[h].what] \in Phones /\ Word[request[h].what] \in Words
           /\ \E c : StoredAs(h, c)
           /\ lastWord' = [lastWord EXCEPT ![From[request[h].what]] =
                IF Word[request[h].what] \in {"stop", "start"} THEN Word[request[h].what] ELSE @]
           /\ Release(h) /\ Write
           /\ batches' = batches /\ UNCHANGED <<campaignVars, reply, texts>>
<1>1. request[h].op = "store" /\ HandlerIsRight(h)
  BY DEF Store, Base, HandlersAreRight
<1>2. request[h].what \in Inbound
  BY <1>1 DEF HandlerIsRight
<1> QED
  BY <1>1, <1>2, SmsAssumption DEF Store, StoredAs

LEMMA SenderStep ==
    ASSUME Base, NEW h \in Handlers, request[h].op = "store", NEW c, StoredAs(h, c)
    PROVE  LET p == From[request[h].what] IN
           /\ c \in Contacts \cup {Nobody}
           /\ c # Nobody => contact[c].phone = p \/ contact[c].phone = Nobody
           /\ request[h].whom # Nobody => c = request[h].whom
           /\ (request[h].whom = Nobody /\ c # Nobody) => c \in Newcomers /\ contact[c] = Absent
           /\ c # Nobody => contact' = [contact EXCEPT ![c].phone = p,
                              ![c].consent = ConsentAfter(Word[request[h].what], @)]
           /\ c = Nobody => contact' = contact /\ Word[request[h].what] = "long"
<1>1. HandlerIsRight(h) /\ request[h] \in Requests
  BY DEF Base, HandlersAreRight, RequestTyped
<1>2. request[h].whom # Nobody => request[h].whom \in Contacts
        /\ contact[request[h].whom].phone = From[request[h].what]
  BY <1>1 DEF HandlerIsRight
<1>3. Absent.phone = Nobody
  BY DEF Absent
<1>4. c = Nobody => contact' = contact
  BY DEF StoredAs, Recorded
<1>5. c # Nobody => contact' = [contact EXCEPT ![c].phone = From[request[h].what],
                              ![c].consent = ConsentAfter(Word[request[h].what], @)]
  BY DEF StoredAs, Recorded
<1>6. CASE request[h].whom # Nobody
  <2>1. c = request[h].whom
    BY <1>6 DEF StoredAs, Sender
  <2> QED
    BY <1>2, <1>4, <1>5, <1>6, <2>1
<1>7. CASE request[h].whom = Nobody /\ Word[request[h].what] = "long"
  <2>1. c = Nobody
    BY <1>7 DEF StoredAs, Sender
  <2> QED
    BY <1>4, <1>7, <2>1
<1>8. CASE request[h].whom = Nobody /\ Word[request[h].what] # "long"
  <2>1. c \in Newcomers /\ contact[c] = Absent
    BY <1>8 DEF StoredAs, Sender
  <2>2. c # Nobody /\ c \in Contacts
    BY <2>1, SmsAssumption DEF Contacts
  <2> QED
    BY <1>3, <1>5, <1>8, <2>1, <2>2
<1> QED
  BY <1>6, <1>7, <1>8

LEMMA StoreKeepsBase ==
    ASSUME Base, NEW h \in Handlers, Store(h)
    PROVE  Base' /\ PhonesStay
<1> DEFINE p == From[request[h].what]
           w == Word[request[h].what]
<1>1. /\ request[h].op = "store" /\ request[h].what \in Inbound /\ p \in Phones /\ w \in Words
      /\ lastWord' = [lastWord EXCEPT ![p] = IF w \in {"stop", "start"} THEN w ELSE @]
      /\ Release(h) /\ Write
      /\ batches' = batches /\ UNCHANGED <<campaignVars, reply, texts>>
  BY StoreStep
<1>2. PICK c : StoredAs(h, c)
  BY StoreStep
<1>3. /\ c \in Contacts \cup {Nobody}
      /\ c # Nobody => contact[c].phone = p \/ contact[c].phone = Nobody
      /\ c # Nobody => contact' = [contact EXCEPT ![c].phone = p, ![c].consent = ConsentAfter(w, @)]
      /\ c = Nobody => contact' = contact
      /\ thread' = [thread EXCEPT ![p] = IF c # Nobody THEN c ELSE @]
  BY <1>1, <1>2, SenderStep DEF StoredAs
<1>4. stored' \subseteq Inbound
  BY <1>1 DEF Store, Base, TypeOK
<1> HIDE DEF p, w
<1>5. InboxTyped
  BY TypeParts DEF Base
<1>6. contact' \in [Contacts -> ContactRows]
  <2>1. CASE c = Nobody
    BY <1>3, <1>5, <2>1 DEF InboxTyped
  <2>2. CASE c # Nobody
    <3> DEFINE row == [contact[c] EXCEPT !.phone = p, !.consent = ConsentAfter(w, @)]
    <3>1. contact' = [contact EXCEPT ![c] = row]
      BY <1>3, <1>5, <2>2 DEF InboxTyped
    <3>2. contact[c] \in ContactRows
      BY <1>3, <1>5, <2>2 DEF InboxTyped
    <3>3. ConsentAfter(w, contact[c].consent) \in {"unknown", "opted_in", "opted_out"}
      BY <3>2 DEF ConsentAfter, ContactRows
    <3>4. row \in ContactRows
      BY <1>1, <3>2, <3>3 DEF ContactRows
    <3> HIDE DEF row
    <3> QED
      BY <1>5, <3>1, <3>4 DEF InboxTyped
  <2> QED
    BY <2>1, <2>2
<1>7. PhonesStay /\ (c # Nobody => contact'[c].phone = p)
      /\ \A d \in Contacts : d # c => contact'[d] = contact[d]
  <2>1. CASE c = Nobody
    BY <1>3, <1>5, <2>1, SmsAssumption DEF InboxTyped, PhonesStay
  <2>2. CASE c # Nobody
    <3>1. contact'[c].phone = p
      BY <1>3, <1>5, <2>2 DEF InboxTyped, ContactRows
    <3>2. \A d \in Contacts : d # c => contact'[d] = contact[d]
      BY <1>3, <1>5, <2>2 DEF InboxTyped
    <3> QED
      BY <1>3, <2>2, <3>1, <3>2 DEF PhonesStay
  <2> QED
    BY <2>1, <2>2
<1>8. InboxTyped'
  <2>1. thread' \in [Phones -> Contacts \cup {Nobody}]
    BY <1>1, <1>3, <1>5 DEF InboxTyped
  <2>2. lastWord' \in [Phones -> {"none", "stop", "start"}]
    BY <1>1, <1>5 DEF InboxTyped
  <2> QED
    BY <1>1, <1>4, <1>5, <1>6, <2>1, <2>2 DEF InboxTyped
<1>9. TypeOK'
  BY <1>1, <1>8, TypeParts, TypePartsNext, CampaignSame, OutboxSame DEF Base
<1>10. PhonesAreRight'
  <2>1. ASSUME NEW d \in Contacts, contact'[d].phone = Nobody
        PROVE  contact'[d] = Absent
    <3>1. d # c
      BY <1>1, <1>7, <2>1, SmsAssumption
    <3> QED
      BY <1>7, <2>1, <3>1 DEF Base, PhonesAreRight
  <2>2. ASSUME NEW q \in Phones, thread'[q] # Nobody
        PROVE  contact'[thread'[q]].phone = q
    <3>1. CASE q = p /\ c # Nobody
      BY <1>1, <1>3, <1>5, <1>7, <3>1 DEF InboxTyped
    <3>2. CASE q # p \/ c = Nobody
      <4>1. thread'[q] = thread[q]
        BY <1>1, <1>3, <1>5, <3>2 DEF InboxTyped
      <4>2. contact[thread[q]].phone = q /\ thread[q] \in Contacts /\ q # Nobody
        BY <1>5, <2>2, <4>1, SmsAssumption DEF Base, PhonesAreRight, InboxTyped
      <4> QED
        BY <1>7, <4>1, <4>2 DEF PhonesStay
    <3> QED
      BY <3>1, <3>2
  <2> QED
    BY <2>1, <2>2 DEF PhonesAreRight
<1>11. RequestTyped' /\ HandlersAreRight' /\ TodoIsRight'
  BY <1>1, <1>7, Ends
<1> QED
  BY <1>7, <1>9, <1>10, <1>11 DEF Base

\* Consent given on a form and the do-not-call mark leave the phones alone.
LEMMA RowStep ==
    ASSUME Base, NEW c \in Contacts, contact[c] # Absent, NEW row \in ContactRows,
           row.phone = contact[c].phone, contact' = [contact EXCEPT ![c] = row],
           UNCHANGED thread
    PROVE  PhonesStay /\ PhonesAreRight' /\ contact' \in [Contacts -> ContactRows]
<1>1. contact \in [Contacts -> ContactRows] /\ thread \in [Phones -> Contacts \cup {Nobody}]
  BY TypeParts DEF Base, InboxTyped
<1>2. contact[c].phone # Nobody
  BY DEF Base, PhonesAreRight
<1>3. \A d \in Contacts : contact'[d].phone = contact[d].phone /\ (d # c => contact'[d] = contact[d])
  BY <1>1
<1> QED
  BY <1>1, <1>2, <1>3 DEF PhonesStay, PhonesAreRight, Base

LEMMA FormAnswerKeepsBase ==
    ASSUME Base, NEW c \in Contacts, NEW consent \in {"opted_in", "opted_out"},
           FormAnswer(c, consent)
    PROVE  Base' /\ PhonesStay
<1> DEFINE row == [contact[c] EXCEPT !.consent = consent]
<1>1. InboxTyped
  BY TypeParts DEF Base
<1>2. row \in ContactRows /\ row.phone = contact[c].phone
  BY <1>1 DEF InboxTyped, ContactRows
<1>3. /\ contact[c] # Absent /\ contact' = [contact EXCEPT ![c] = row]
      /\ UNCHANGED thread /\ batches' = batches /\ Write
      /\ UNCHANGED <<stored, campaignVars, reply, texts, request>>
      /\ lastWord' = [lastWord EXCEPT ![contact[c].phone] =
                        IF consent = "opted_in" THEN "start" ELSE @]
  BY <1>1 DEF FormAnswer, InboxTyped
<1> HIDE DEF row
<1>4. PhonesStay /\ PhonesAreRight' /\ contact' \in [Contacts -> ContactRows]
  BY <1>2, <1>3, RowStep
<1>5. lastWord' \in [Phones -> {"none", "stop", "start"}]
  BY <1>1, <1>3 DEF InboxTyped
<1>6. InboxTyped'
  BY <1>1, <1>3, <1>4, <1>5 DEF InboxTyped
<1>7. TypeOK'
  BY <1>3, <1>6, TypeParts, TypePartsNext, CampaignSame, OutboxSame DEF Base
<1>8. RequestTyped' /\ HandlersAreRight' /\ TodoIsRight'
  BY <1>3, <1>4, Waits
<1> QED
  BY <1>4, <1>7, <1>8 DEF Base

LEMMA BlockKeepsBase ==
    ASSUME Base, NEW c \in Contacts, Block(c)
    PROVE  Base' /\ PhonesStay
<1> DEFINE row == [contact[c] EXCEPT !.blocked = TRUE]
<1>1. InboxTyped
  BY TypeParts DEF Base
<1>2. row \in ContactRows /\ row.phone = contact[c].phone
  BY <1>1 DEF InboxTyped, ContactRows
<1>3. /\ contact[c] # Absent /\ contact' = [contact EXCEPT ![c] = row]
      /\ UNCHANGED thread /\ batches' = batches /\ Write
      /\ UNCHANGED <<stored, lastWord, campaignVars, reply, texts, request>>
  BY <1>1 DEF Block, InboxTyped
<1> HIDE DEF row
<1>4. PhonesStay /\ PhonesAreRight' /\ contact' \in [Contacts -> ContactRows]
  BY <1>2, <1>3, RowStep
<1>5. InboxTyped'
  BY <1>1, <1>3, <1>4 DEF InboxTyped
<1>6. TypeOK'
  BY <1>3, <1>5, TypeParts, TypePartsNext, CampaignSame, OutboxSame DEF Base
<1>7. RequestTyped' /\ HandlersAreRight' /\ TodoIsRight'
  BY <1>3, <1>4, Waits
<1> QED
  BY <1>4, <1>6, <1>7 DEF Base

\* The campaign's own steps.
LEMMA CampaignStepKeepsBase ==
    ASSUME Base, UNCHANGED <<inboxVars, request, reply, texts>>, Write, CampaignTyped'
    PROVE  Base'
<1>1. PhonesAreRight' /\ PhonesStay
  BY PhonesSame DEF Base
<1>2. RequestTyped' /\ HandlersAreRight' /\ TodoIsRight'
  BY <1>1, Waits DEF inboxVars
<1>3. TypeOK'
  BY TypeParts, TypePartsNext, InboxSame, OutboxSame DEF Base
<1> QED
  BY <1>1, <1>2, <1>3 DEF Base

LEMMA ApproveKeepsBase == ASSUME Base, Approve PROVE Base'
<1>1. CampaignTyped
  BY TypeParts DEF Base
<1>2. CampaignTyped'
  BY <1>1 DEF CampaignTyped, Approve, Statuses
<1> QED
  BY <1>2, CampaignStepKeepsBase DEF Approve

LEMMA ScheduleKeepsBase == ASSUME Base, Schedule PROVE Base'
<1>1. CampaignTyped
  BY TypeParts DEF Base
<1>2. CampaignTyped'
  BY <1>1 DEF CampaignTyped, Schedule, Statuses
<1> QED
  BY <1>2, CampaignStepKeepsBase DEF Schedule

LEMMA CancelKeepsBase == ASSUME Base, Cancel PROVE Base'
<1>1. CampaignTyped
  BY TypeParts DEF Base
<1>2. CampaignTyped'
  BY <1>1 DEF CampaignTyped, Cancel, Statuses, Final
<1> QED
  BY <1>2, CampaignStepKeepsBase DEF Cancel

LEMMA PreviewKeepsBase == ASSUME Base, Preview PROVE Base'
<1>1. CampaignTyped
  BY TypeParts DEF Base
<1>2. PICK included \in Audiences : Snapshot(included)
  BY DEF Preview
<1>3. rows' \in [Contacts -> RecipientRows] /\ snapshot' = snapshot + 1
  BY <1>2, SnapshotStep DEF Snapshot
<1>4. CampaignTyped'
  BY <1>1, <1>3 DEF CampaignTyped, Preview
<1> QED
  BY <1>4, CampaignStepKeepsBase DEF Preview

\* A launch makes a new snapshot and, where it may, a sender of its audience.
LaunchesWith(h, included) ==
    /\ MayLaunch(included)
    /\ campaign' = "launching"
    /\ Hold(h, [Idle EXCEPT !.op = "send", !.todo = included])

LEMMA LaunchStep ==
    ASSUME Base, NEW h \in Handlers, Launch(h)
    PROVE  /\ UNCHANGED <<inboxVars, approvals, reply, texts>> /\ Write
           /\ \A c \in Contacts : rows'[c].text = 0
           /\ rows' \in [Contacts -> RecipientRows] /\ snapshot' = snapshot + 1
           /\ request[h] = Idle
           /\ \/ campaign' = "launch_blocked" /\ UNCHANGED request
              \/ \E included \in Audiences : LaunchesWith(h, included)
<1>1. PICK included \in Audiences :
         /\ Snapshot(included)
         /\ LaunchesWith(h, included) \/ (campaign' = "launch_blocked" /\ UNCHANGED request)
  BY DEF Launch, LaunchesWith
<1>2. rows' \in [Contacts -> RecipientRows] /\ \A c \in Contacts : rows'[c].text = 0
  BY <1>1, SnapshotStep
<1>3. snapshot' = snapshot + 1
  BY <1>1 DEF Snapshot
<1> QED
  BY <1>1, <1>2, <1>3 DEF Launch

LEMMA LaunchedRequest ==
    ASSUME Base, NEW h \in Handlers, NEW included \in Audiences, LaunchesWith(h, included)
    PROVE  /\ request'[h].op = "send" /\ request'[h].todo = included /\ request'[h].results = {}
           /\ \A g \in Handlers : g # h => request'[g] = request[g]
           /\ RequestTyped'
           /\ included \subseteq Contacts
           /\ \A c \in included : contact[c].phone \in Phones /\ contact[c].phone # Nobody
           /\ \A c, d \in included : contact[c].phone = contact[d].phone => c = d
<1>1. /\ included \subseteq Contacts
      /\ \A c \in included : contact[c].phone \in Phones /\ contact[c].phone # Nobody
      /\ \A c, d \in included : contact[c].phone = contact[d].phone => c = d
  BY AudienceIsRight DEF Base
<1> DEFINE r == [Idle EXCEPT !.op = "send", !.todo = included]
<1>2. r.op = "send" /\ r.todo = included /\ r.results = {}
  BY DEF Idle
<1>3. r \in Requests
  BY <1>1, IdleTyped DEF Requests, Ops
<1>4. Hold(h, r)
  BY DEF LaunchesWith
<1> HIDE DEF r
<1>5. request'[h] = r /\ RequestTyped' /\ \A g \in Handlers : g # h => request'[g] = request[g]
  BY <1>3, <1>4, HoldStep DEF Base
<1> QED
  BY <1>1, <1>2, <1>5

LEMMA LaunchKeepsBase ==
    ASSUME Base, NEW h \in Handlers, Launch(h)
    PROVE  Base'
<1>1. UNCHANGED <<inboxVars, approvals, reply, texts>> /\ Write
      /\ rows' \in [Contacts -> RecipientRows] /\ snapshot' = snapshot + 1
  BY LaunchStep
<1>2. PhonesAreRight' /\ PhonesStay
  BY <1>1, PhonesSame DEF Base
<1>3. \/ campaign' = "launch_blocked" /\ UNCHANGED request
      \/ \E included \in Audiences : LaunchesWith(h, included)
  BY LaunchStep
<1>4. campaign' \in {"launch_blocked", "launching"}
  BY <1>3 DEF LaunchesWith
<1>5. CampaignTyped
  BY TypeParts DEF Base
<1>6. CampaignTyped'
  BY <1>1, <1>4, <1>5 DEF CampaignTyped, Statuses
<1>7. TypeOK'
  BY <1>1, <1>6, TypeParts, TypePartsNext, InboxSame, OutboxSame DEF Base
<1>8. CASE UNCHANGED request
  <2>1. RequestTyped' /\ HandlersAreRight' /\ TodoIsRight'
    BY <1>1, <1>2, <1>8, Waits DEF inboxVars
  <2> QED
    BY <1>2, <1>7, <2>1 DEF Base
<1>9. ASSUME NEW included \in Audiences, LaunchesWith(h, included)
      PROVE  Base'
  <2>1. /\ request'[h].op = "send" /\ request'[h].todo = included /\ request'[h].results = {}
        /\ \A g \in Handlers : g # h => request'[g] = request[g]
        /\ RequestTyped'
        /\ included \subseteq Contacts
        /\ \A c \in included : contact[c].phone \in Phones /\ contact[c].phone # Nobody
        /\ \A c, d \in included : contact[c].phone = contact[d].phone => c = d
    BY <1>9, LaunchedRequest
  <2>2. batches' \in Nat /\ batches' >= batches
    BY <1>1 DEF inboxVars, Base, TypeOK
  <2>3. ASSUME NEW g \in Handlers
        PROVE  HandlerIsRight(g)'
    <3>1. CASE g = h
      BY <2>1, <3>1 DEF HandlerIsRight
    <3>2. CASE g # h
      BY <1>2, <2>1, <2>2, <3>2, OthersStayRight DEF Base
    <3> QED
      BY <3>1, <3>2
  <2>4. ASSUME NEW g \in Handlers, request'[g].op = "send"
        PROVE  TodoOf(g)'
    <3>1. CASE g = h
      BY <1>2, <2>1, <3>1 DEF TodoOf, PhonesStay
    <3>2. CASE g # h
      BY <1>2, <2>1, <2>4, <3>2, TodoStaysRight DEF Base
    <3> QED
      BY <3>1, <3>2
  <2> QED
    BY <1>2, <1>7, <2>1, <2>3, <2>4 DEF Base, HandlersAreRight, TodoIsRight, TodoOf
<1> QED
  BY <1>3, <1>8, <1>9

\* One text of a launch: the contact is not among those still to be texted, and
\* the carrier's answer is kept with it.
SendsTo(h, c, t) ==
    /\ Sent(contact[c].phone, c, t)
    /\ Hold(h, [request[h] EXCEPT !.todo = @ \ {c}, !.results = @ \cup {<<c, t>>}])

LEMMA SendStep ==
    ASSUME Base, NEW h \in Handlers, SendNext(h)
    PROVE  /\ request[h].op = "send"
           /\ \E c \in request[h].todo, t \in Results : SendsTo(h, c, t)
           /\ UNCHANGED <<inboxVars, campaignVars, reply, writes>>
BY DEF SendNext, SendsTo

AnswerKept(h, c, t) ==
    /\ request'[h].results = request[h].results \cup {<<c, t>>}
    /\ t \in Nat
    /\ t # 0 => /\ t \in 1 .. Len(texts')
                /\ texts'[t].phone = contact[c].phone /\ texts'[t].by = c

LEMMA SendsToStep ==
    ASSUME Base, NEW h \in Handlers, request[h].op = "send",
           NEW c \in request[h].todo, NEW t \in Results, SendsTo(h, c, t)
    PROVE  /\ c \in Contacts /\ contact[c].phone \in Phones
           /\ texts' \in Seq(Texts)
           /\ texts' = texts \/ texts' = Append(texts, [phone |-> contact[c].phone, by |-> c])
           /\ Len(texts') >= Len(texts)
           /\ \A i \in 1 .. Len(texts) : texts'[i] = texts[i]
           /\ AnswerKept(h, c, t)
           /\ request'[h].op = "send" /\ request'[h].todo = request[h].todo \ {c}
           /\ \A g \in Handlers : g # h => request'[g] = request[g]
           /\ RequestTyped'
<1>1. request[h] \in Requests
  BY DEF Base, RequestTyped
<1>2. c \in Contacts
  BY <1>1 DEF Requests
<1>3. contact[c].phone \in Phones
  <2>1. contact[c].phone \in Phones \cup {Nobody}
    BY <1>2 DEF Base, TypeOK
  <2>2. contact[c].phone # Nobody
    BY DEF Base, TodoIsRight
  <2> QED
    BY <2>1, <2>2
<1>4. /\ texts' \in Seq(Texts)
      /\ texts' = texts \/ texts' = Append(texts, [phone |-> contact[c].phone, by |-> c])
      /\ Len(texts') >= Len(texts)
      /\ \A i \in 1 .. Len(texts) : texts'[i] = texts[i]
      /\ t # 0 => /\ t \in 1 .. Len(texts')
                  /\ texts'[t].phone = contact[c].phone /\ texts'[t].by = c
      /\ t \in Nat
  BY <1>2, <1>3, SentStep DEF SendsTo, Base
<1> DEFINE r == [request[h] EXCEPT !.todo = @ \ {c}, !.results = @ \cup {<<c, t>>}]
<1>5. /\ r.op = "send" /\ r.todo = request[h].todo \ {c}
      /\ r.results = request[h].results \cup {<<c, t>>}
  BY <1>1 DEF Requests
<1>6. r \in Requests
  <2>1. request[h].todo \ {c} \in SUBSET Contacts
        /\ request[h].results \cup {<<c, t>>} \in SUBSET (Contacts \X Nat)
    BY <1>1, <1>2, <1>4 DEF Requests
  <2> QED
    BY <1>1, <2>1 DEF Requests
<1>7. Hold(h, r)
  BY DEF SendsTo
<1> HIDE DEF r
<1>8. request'[h] = r /\ RequestTyped' /\ \A g \in Handlers : g # h => request'[g] = request[g]
  BY <1>6, <1>7, HoldStep DEF Base
<1> QED
  BY <1>2, <1>3, <1>4, <1>5, <1>8 DEF AnswerKept

LEMMA SendNextKeepsBase ==
    ASSUME Base, NEW h \in Handlers, SendNext(h)
    PROVE  Base'
<1>1. request[h].op = "send" /\ UNCHANGED <<inboxVars, campaignVars, reply, writes>>
  BY SendStep
<1>2. PICK c \in request[h].todo, t \in Results : SendsTo(h, c, t)
  BY SendStep
<1>3. /\ request'[h].op = "send" /\ request'[h].todo \subseteq request[h].todo
      /\ \A g \in Handlers : g # h => request'[g] = request[g]
      /\ RequestTyped' /\ texts' \in Seq(Texts)
  BY <1>1, <1>2, SendsToStep
<1>4. PhonesAreRight' /\ PhonesStay
  BY <1>1, PhonesSame DEF Base
<1>5. TypeOK'
  <2>1. OutboxTyped'
    BY <1>1, <1>3, TypeParts DEF Base, OutboxTyped
  <2> QED
    BY <1>1, <2>1, TypeParts, TypePartsNext, InboxSame, CampaignSame DEF Base
<1>6. TodoIsRight'
  BY <1>1, <1>3, <1>4, TodoRightAfterHold DEF Base
<1>7. HandlersAreRight'
  <2>1. batches' \in Nat /\ batches' >= batches
    BY <1>1 DEF inboxVars, Base, TypeOK
  <2>2. ASSUME NEW g \in Handlers
        PROVE  HandlerIsRight(g)'
    <3>1. CASE g = h
      BY <1>3, <3>1 DEF HandlerIsRight
    <3>2. CASE g # h
      BY <1>3, <1>4, <2>1, <3>2, OthersStayRight DEF Base
    <3> QED
      BY <3>1, <3>2
  <2> QED
    BY <2>2 DEF HandlersAreRight
<1> QED
  BY <1>3, <1>4, <1>5, <1>6, <1>7 DEF Base

\* A noted result is a number the carrier gave, or 0.
Noted(h, d) == CHOOSE x \in request[h].results : Reached(x[1], d)

LEMMA NoteStep ==
    ASSUME Base, NEW h \in Handlers, NoteResults(h)
    PROVE  /\ request[h].op = "send" /\ Release(h) /\ Write
           /\ UNCHANGED <<inboxVars, approvals, snapshot, reply, texts>>
           /\ campaign' \in {"failed", "completed"}
           /\ rows' \in [Contacts -> RecipientRows]
           /\ \A d \in Contacts :
                \/ rows'[d].text = rows[d].text
                \/ \E x \in request[h].results :
                     /\ contact[d].phone = contact[x[1]].phone
                     /\ rows'[d].text = x[2]
<1> DEFINE row(d) ==
      IF \E x \in request[h].results : Reached(x[1], d)
      THEN LET t == Noted(h, d)[2] IN
           [rows[d] EXCEPT !.delivery = IF t # 0 THEN "pending" ELSE "failed", !.text = t]
      ELSE rows[d]
<1>1. rows' = [d \in Contacts |-> row(d)]
  BY DEF NoteResults, Noted
<1>2. ASSUME NEW d \in Contacts
      PROVE  /\ row(d) \in RecipientRows
             /\ \/ row(d).text = rows[d].text
                \/ \E x \in request[h].results :
                     /\ contact[d].phone = contact[x[1]].phone
                     /\ row(d).text = x[2]
  <2>1. rows[d] \in RecipientRows
    BY TypeParts DEF Base, CampaignTyped
  <2>2. CASE ~ \E x \in request[h].results : Reached(x[1], d)
    BY <2>1, <2>2
  <2>3. CASE \E x \in request[h].results : Reached(x[1], d)
    <3>1. Noted(h, d) \in request[h].results /\ Reached(Noted(h, d)[1], d)
      BY <2>3 DEF Noted
    <3>2. Noted(h, d)[2] \in Nat
      BY <3>1 DEF Base, RequestTyped, Requests
    <3>3. row(d) = [rows[d] EXCEPT !.delivery = IF Noted(h, d)[2] # 0 THEN "pending" ELSE "failed",
                                   !.text = Noted(h, d)[2]]
      BY <2>3
    <3> HIDE DEF row
    <3>4. row(d) \in RecipientRows /\ row(d).text = Noted(h, d)[2]
      BY <2>1, <3>2, <3>3 DEF RecipientRows
    <3> QED
      BY <3>1, <3>4 DEF Reached
  <2> QED
    BY <2>2, <2>3
<1> HIDE DEF row
<1>3. rows' \in [Contacts -> RecipientRows]
  BY <1>1, <1>2
<1>4. \A d \in Contacts :
                \/ rows'[d].text = rows[d].text
                \/ \E x \in request[h].results :
                     /\ contact[d].phone = contact[x[1]].phone
                     /\ rows'[d].text = x[2]
  BY <1>1, <1>2
<1>5. campaign' \in {"failed", "completed"}
  BY DEF NoteResults
<1> QED
  BY <1>3, <1>4, <1>5 DEF NoteResults

LEMMA NoteResultsKeepsBase ==
    ASSUME Base, NEW h \in Handlers, NoteResults(h)
    PROVE  Base'
<1>1. /\ Release(h) /\ Write
      /\ UNCHANGED <<inboxVars, approvals, snapshot, reply, texts>>
      /\ campaign' \in {"failed", "completed"}
      /\ rows' \in [Contacts -> RecipientRows]
  BY NoteStep
<1>2. PhonesAreRight' /\ PhonesStay
  BY <1>1, PhonesSame DEF Base
<1>3. RequestTyped' /\ HandlersAreRight' /\ TodoIsRight'
  BY <1>1, <1>2, Ends DEF inboxVars
<1>4. CampaignTyped'
  BY <1>1, TypeParts DEF Base, CampaignTyped, Statuses, Final
<1>5. TypeOK'
  BY <1>1, <1>4, TypeParts, TypePartsNext, InboxSame, OutboxSame DEF Base
<1> QED
  BY <1>2, <1>3, <1>5 DEF Base

LEMMA ReadRowsKeepsBase ==
    ASSUME Base, NEW h \in Handlers, ReadRows(h)
    PROVE  Base'
<1> DEFINE asked == {c \in Contacts : rows[c].eligibility = "included" /\ rows[c].text # 0}
           r == [Idle EXCEPT !.op = "refresh", !.batch = snapshot, !.todo = asked]
<1>1. Hold(h, r) /\ UNCHANGED <<inboxVars, campaignVars, reply, texts, writes>>
  BY DEF ReadRows
<1>2. asked \in SUBSET Contacts /\ snapshot \in Nat
  BY DEF Base, TypeOK
<1> HIDE DEF asked
<1>3. r \in Requests /\ r.op = "refresh"
  BY <1>2, IdleTyped DEF Requests, Ops
<1> HIDE DEF r
<1>4. request'[h] = r
  BY <1>1, <1>3, HoldStep DEF Base
<1>5. HandlerIsRight(h)'
  BY <1>3, <1>4 DEF HandlerIsRight
<1>6. RequestTyped' /\ HandlersAreRight' /\ PhonesAreRight' /\ TodoIsRight'
  BY <1>1, <1>3, <1>5, TakesUp
<1>7. TypeOK'
  BY <1>1, TypeParts, TypePartsNext, InboxSame, CampaignSame, OutboxSame DEF Base
<1> QED
  BY <1>6, <1>7 DEF Base

LEMMA RefreshStep ==
    ASSUME Base, NEW h \in Handlers, NoteRefresh(h)
    PROVE  /\ request[h].op = "refresh" /\ Release(h) /\ Write
           /\ UNCHANGED <<inboxVars, campaign, approvals, snapshot, reply, texts>>
           /\ rows' \in [Contacts -> RecipientRows]
           /\ \A c \in Contacts : rows'[c].text = rows[c].text
<1>1. PICK answer \in [request[h].todo -> {"pending", "delivered", "failed"}] :
        rows' = [c \in Contacts |->
           IF request[h].batch = snapshot /\ c \in request[h].todo
           THEN [rows[c] EXCEPT !.delivery = answer[c]] ELSE rows[c]]
  BY DEF NoteRefresh
<1> DEFINE row(c) == IF request[h].batch = snapshot /\ c \in request[h].todo
                     THEN [rows[c] EXCEPT !.delivery = answer[c]] ELSE rows[c]
<1>2. ASSUME NEW c \in Contacts
      PROVE  row(c) \in RecipientRows /\ row(c).text = rows[c].text
  <2>1. rows[c] \in RecipientRows
    BY TypeParts DEF Base, CampaignTyped
  <2> QED
    BY <2>1 DEF RecipientRows
<1>3. rows' = [c \in Contacts |-> row(c)]
  BY <1>1
<1> HIDE DEF row
<1>4. rows' \in [Contacts -> RecipientRows] /\ \A c \in Contacts : rows'[c].text = rows[c].text
  BY <1>2, <1>3
<1> QED
  BY <1>4 DEF NoteRefresh

LEMMA NoteRefreshKeepsBase ==
    ASSUME Base, NEW h \in Handlers, NoteRefresh(h)
    PROVE  Base'
<1>1. /\ Release(h) /\ Write
      /\ UNCHANGED <<inboxVars, campaign, approvals, snapshot, reply, texts>>
      /\ rows' \in [Contacts -> RecipientRows]
  BY RefreshStep
<1>2. PhonesAreRight' /\ PhonesStay
  BY <1>1, PhonesSame DEF Base
<1>3. RequestTyped' /\ HandlersAreRight' /\ TodoIsRight'
  BY <1>1, <1>2, Ends DEF inboxVars
<1>4. CampaignTyped'
  BY <1>1, TypeParts DEF Base, CampaignTyped
<1>5. TypeOK'
  BY <1>1, <1>4, TypeParts, TypePartsNext, InboxSame, OutboxSame DEF Base
<1> QED
  BY <1>2, <1>3, <1>5 DEF Base

LEMMA CheckReplyKeepsBase ==
    ASSUME Base, NEW h \in Handlers, NEW r \in Replies, NEW c \in Contacts, CheckReply(h, r, c)
    PROVE  Base'
<1>1. PICK p \in Phones : Hold(h, [Idle EXCEPT !.op = "reply", !.what = r, !.whom = p])
  BY DEF CheckReply
<1> DEFINE q == [Idle EXCEPT !.op = "reply", !.what = r, !.whom = p]
<1>2. q \in Requests /\ q.op = "reply" /\ q.what = r /\ q.whom = p
  BY IdleTyped DEF Requests, Ops
<1>3. Hold(h, q)
  BY <1>1
<1>4. UNCHANGED <<inboxVars, campaignVars, reply, texts, writes>>
  BY DEF CheckReply
<1> HIDE DEF q
<1>5. request'[h] = q
  BY <1>2, <1>3, HoldStep DEF Base
<1>6. HandlerIsRight(h)'
  BY <1>2, <1>5 DEF HandlerIsRight
<1>7. RequestTyped' /\ HandlersAreRight' /\ PhonesAreRight' /\ TodoIsRight'
  BY <1>2, <1>3, <1>4, <1>6, TakesUp
<1>8. TypeOK'
  BY <1>4, TypeParts, TypePartsNext, InboxSame, CampaignSame, OutboxSame DEF Base
<1> QED
  BY <1>7, <1>8 DEF Base

\* The row of a request id is inserted once: who finds it there stops.
LEMMA NoteReplyStep ==
    ASSUME Base, NEW h \in Handlers, NoteReply(h)
    PROVE  LET r == request[h].what IN
           /\ request[h].op = "reply" /\ r \in Replies /\ request[h].whom \in Phones
           /\ UNCHANGED <<inboxVars, campaignVars, texts>>
           /\ \/ /\ reply[r] = NoReply /\ Write
                 /\ reply' = [reply EXCEPT ![r].status = "pending"]
                 /\ Hold(h, [request[h] EXCEPT !.op = "dispatch"])
              \/ Release(h) /\ UNCHANGED <<reply, writes>>
<1>1. HandlerIsRight(h) /\ request[h].op = "reply"
  BY DEF Base, HandlersAreRight, NoteReply
<1>2. request[h].what \in Replies /\ request[h].whom \in Phones
  BY <1>1 DEF HandlerIsRight
<1> QED
  BY <1>1, <1>2 DEF NoteReply, Fresh

LEMMA InsertedRow ==
    ASSUME OutboxTyped, NEW r \in Replies, reply' = [reply EXCEPT ![r].status = "pending"]
    PROVE  /\ reply' \in [Replies -> ReplyRows]
           /\ reply'[r] # NoReply
           /\ \A q \in Replies : q # r => reply'[q] = reply[q]
<1> DEFINE row == [reply[r] EXCEPT !.status = "pending"]
<1>1. reply \in [Replies -> ReplyRows]
  BY DEF OutboxTyped
<1>2. row \in ReplyRows /\ row.status = "pending"
  BY <1>1 DEF ReplyRows
<1>3. reply' = [reply EXCEPT ![r] = row]
  BY <1>1
<1>4. NoReply.status = "none"
  BY DEF NoReply
<1> HIDE DEF row
<1> QED
  BY <1>1, <1>2, <1>3, <1>4

LEMMA DispatchRequest ==
    ASSUME Base, NEW h \in Handlers, Hold(h, [request[h] EXCEPT !.op = "dispatch"])
    PROVE  /\ request'[h].op = "dispatch" /\ request'[h].what = request[h].what
           /\ request'[h].whom = request[h].whom
           /\ \A g \in Handlers : g # h => request'[g] = request[g]
           /\ [request[h] EXCEPT !.op = "dispatch"] \in Requests
<1> DEFINE q == [request[h] EXCEPT !.op = "dispatch"]
<1>1. request[h] \in Requests /\ "dispatch" \in Ops
  BY DEF Base, RequestTyped, Ops
<1>2. q \in Requests /\ q.op = "dispatch" /\ q.what = request[h].what /\ q.whom = request[h].whom
  BY <1>1 DEF Requests
<1>3. Hold(h, q)
  OBVIOUS
<1> HIDE DEF q
<1>4. request'[h] = q /\ \A g \in Handlers : g # h => request'[g] = request[g]
  BY <1>2, <1>3, HoldStep DEF Base
<1> QED
  BY <1>2, <1>4 DEF q

LEMMA NoteReplyKeepsBase ==
    ASSUME Base, NEW h \in Handlers, NoteReply(h)
    PROVE  Base'
<1> DEFINE r == request[h].what
<1>1. request[h].op = "reply" /\ r \in Replies /\ request[h].whom \in Phones
      /\ UNCHANGED <<inboxVars, campaignVars, texts>>
  BY NoteReplyStep
<1>2. CASE reply' = [reply EXCEPT ![r].status = "pending"] /\ Write
           /\ Hold(h, [request[h] EXCEPT !.op = "dispatch"])
  <2>1. /\ request'[h].op = "dispatch" /\ request'[h].what = r
        /\ request'[h].whom = request[h].whom
        /\ [request[h] EXCEPT !.op = "dispatch"] \in Requests
    BY <1>2, DispatchRequest
  <2>2. [request[h] EXCEPT !.op = "dispatch"].op # "send"
    BY DEF Base, RequestTyped, Requests
  <2>3. HandlerIsRight(h)'
    BY <1>1, <2>1 DEF HandlerIsRight
  <2>4. RequestTyped' /\ HandlersAreRight' /\ PhonesAreRight' /\ TodoIsRight'
    BY <1>1, <1>2, <2>1, <2>2, <2>3, TakesUp
  <2>5. OutboxTyped'
    <3>1. OutboxTyped
      BY TypeParts DEF Base
    <3>2. reply' \in [Replies -> ReplyRows]
      BY <1>1, <1>2, <3>1, InsertedRow
    <3> QED
      BY <1>1, <1>2, <3>1, <3>2 DEF OutboxTyped, Write
  <2>6. TypeOK'
    BY <1>1, <2>5, TypeParts, TypePartsNext, InboxSame, CampaignSame DEF Base
  <2> QED
    BY <2>4, <2>6 DEF Base
<1>3. CASE Release(h) /\ UNCHANGED <<reply, writes>>
  <2>1. PhonesAreRight' /\ PhonesStay
    BY <1>1, PhonesSame DEF Base
  <2>2. RequestTyped' /\ HandlersAreRight' /\ TodoIsRight'
    BY <1>1, <1>3, <2>1, Ends DEF inboxVars
  <2>3. TypeOK'
    BY <1>1, <1>3, TypeParts, TypePartsNext, InboxSame, CampaignSame, OutboxSame DEF Base
  <2> QED
    BY <2>1, <2>2, <2>3 DEF Base
<1> QED
  BY <1>2, <1>3, NoteReplyStep

\* A reply is handed to the carrier once by the handler that inserted its row.
LEMMA DispatchStep ==
    ASSUME Base, NEW h \in Handlers, Dispatch(h)
    PROVE  LET r == request[h].what IN
           /\ request[h].op = "dispatch" /\ r \in Replies
           /\ UNCHANGED <<inboxVars, campaignVars, reply, writes>>
           /\ texts' \in Seq(Texts)
           /\ \E p \in Phones :
                texts' = texts \/ texts' = Append(texts, [phone |-> p, by |-> r])
           /\ Len(texts') >= Len(texts)
           /\ \A i \in 1 .. Len(texts) : texts'[i] = texts[i]
           /\ request'[h].op = "settle" /\ request'[h].what = r
           /\ request'[h].whom = request[h].whom /\ request'[h].whom \in Phones
           /\ \A g \in Handlers : g # h => request'[g] = request[g]
           /\ RequestTyped'
<1> DEFINE r == request[h].what
           p == request[h].whom
<1>1. HandlerIsRight(h) /\ request[h].op = "dispatch" /\ request[h] \in Requests
  BY DEF Base, HandlersAreRight, RequestTyped, Dispatch
<1>2. r \in Replies /\ p \in Phones
  BY <1>1 DEF HandlerIsRight
<1>3. PICK t \in Results :
         Sent(p, r, t) /\ Hold(h, [request[h] EXCEPT !.op = "settle", !.batch = t])
  BY DEF Dispatch
<1> HIDE DEF r, p
<1>4. /\ texts' \in Seq(Texts)
      /\ texts' = texts \/ texts' = Append(texts, [phone |-> p, by |-> r])
      /\ Len(texts') >= Len(texts)
      /\ \A i \in 1 .. Len(texts) : texts'[i] = texts[i]
      /\ t \in Nat
  BY <1>2, <1>3, SentStep DEF Base
<1> DEFINE q == [request[h] EXCEPT !.op = "settle", !.batch = t]
<1>5. "settle" \in Ops
  BY DEF Ops
<1>6. q \in Requests /\ q.op = "settle" /\ q.what = request[h].what /\ q.whom = request[h].whom
  BY <1>1, <1>4, <1>5 DEF Requests
<1>7. Hold(h, q)
  BY <1>3
<1> HIDE DEF q
<1>8. request'[h] = q /\ RequestTyped' /\ \A g \in Handlers : g # h => request'[g] = request[g]
  BY <1>6, <1>7, HoldStep DEF Base
<1>9. UNCHANGED <<inboxVars, campaignVars, reply, writes>>
  BY DEF Dispatch
<1> QED
  BY <1>1, <1>2, <1>4, <1>6, <1>8, <1>9 DEF r, p

LEMMA DispatchKeepsBase ==
    ASSUME Base, NEW h \in Handlers, Dispatch(h)
    PROVE  Base'
<1>1. UNCHANGED <<inboxVars, campaignVars, reply, writes>> /\ texts' \in Seq(Texts)
      /\ request[h].what \in Replies /\ request'[h].whom \in Phones
      /\ request'[h].op = "settle" /\ request'[h].what = request[h].what
      /\ (\A g \in Handlers : g # h => request'[g] = request[g]) /\ RequestTyped'
  BY DispatchStep
<1>2. PhonesAreRight' /\ PhonesStay
  BY <1>1, PhonesSame DEF Base
<1>3. TodoIsRight'
  BY <1>1, <1>2, TodoRightAfterHold DEF Base
<1>4. HandlersAreRight'
  <2>1. batches' \in Nat /\ batches' >= batches
    BY <1>1 DEF inboxVars, Base, TypeOK
  <2>2. ASSUME NEW g \in Handlers
        PROVE  HandlerIsRight(g)'
    <3>1. CASE g = h
      BY <1>1, <3>1 DEF HandlerIsRight
    <3>2. CASE g # h
      BY <1>1, <1>2, <2>1, <3>2, OthersStayRight DEF Base
    <3> QED
      BY <3>1, <3>2
  <2> QED
    BY <2>2 DEF HandlersAreRight
<1>5. OutboxTyped'
  BY <1>1, TypeParts DEF Base, OutboxTyped
<1>6. TypeOK'
  BY <1>1, <1>5, TypeParts, TypePartsNext, InboxSame, CampaignSame DEF Base
<1> QED
  BY <1>1, <1>2, <1>3, <1>4, <1>6 DEF Base

LEMMA SettleStep ==
    ASSUME Base, NEW h \in Handlers, Settle(h)
    PROVE  LET r == request[h].what IN
           /\ request[h].op = "settle" /\ r \in Replies /\ Release(h) /\ Write
           /\ UNCHANGED <<inboxVars, campaignVars, texts>>
           /\ reply' \in [Replies -> ReplyRows]
           /\ reply'[r] # NoReply
           /\ \A q \in Replies : q # r => reply'[q] = reply[q]
<1> DEFINE r == request[h].what
           t == request[h].batch
           row == [status |-> IF t # 0 THEN "sent" ELSE "failed",
                   text |-> IF t # 0 THEN t ELSE reply[r].text]
<1>1. HandlerIsRight(h) /\ request[h].op = "settle" /\ t \in Nat
  BY DEF Base, HandlersAreRight, RequestTyped, Requests, Settle
<1>2. r \in Replies
  BY <1>1 DEF HandlerIsRight
<1>3. reply \in [Replies -> ReplyRows]
  BY TypeParts DEF Base, OutboxTyped
<1>4. row \in ReplyRows /\ row.status # "none"
  BY <1>1, <1>2, <1>3 DEF ReplyRows
<1>5. reply' = [reply EXCEPT ![r] = row]
  BY DEF Settle
<1>6. NoReply.status = "none"
  BY DEF NoReply
<1> HIDE DEF row, t, r
<1>7. reply' \in [Replies -> ReplyRows] /\ reply'[r] # NoReply
      /\ \A q \in Replies : q # r => reply'[q] = reply[q]
  BY <1>2, <1>3, <1>4, <1>5, <1>6
<1> QED
  BY <1>1, <1>2, <1>7 DEF Settle, r

LEMMA SettleKeepsBase ==
    ASSUME Base, NEW h \in Handlers, Settle(h)
    PROVE  Base'
<1>1. Release(h) /\ Write /\ UNCHANGED <<inboxVars, campaignVars, texts>>
      /\ reply' \in [Replies -> ReplyRows]
  BY SettleStep
<1>2. PhonesAreRight' /\ PhonesStay
  BY <1>1, PhonesSame DEF Base
<1>3. RequestTyped' /\ HandlersAreRight' /\ TodoIsRight'
  BY <1>1, <1>2, Ends DEF inboxVars
<1>4. OutboxTyped'
  BY <1>1, TypeParts DEF Base, OutboxTyped, Write
<1>5. TypeOK'
  BY <1>1, <1>4, TypeParts, TypePartsNext, InboxSame, CampaignSame DEF Base
<1> QED
  BY <1>2, <1>3, <1>5 DEF Base

LEMMA ReportStep ==
    ASSUME Base, NEW r \in Replies, DeliveryReport(r)
    PROVE  /\ UNCHANGED <<inboxVars, campaignVars, texts, request>> /\ Write
           /\ reply' \in [Replies -> ReplyRows]
           /\ \A q \in Replies : reply'[q] = NoReply => reply[q] = NoReply
           /\ \A q \in Replies : reply[q] # NoReply => reply'[q] # NoReply
<1>1. PICK status \in {"sent", "delivered", "failed"} : reply' = [reply EXCEPT ![r].status = status]
  BY DEF DeliveryReport
<1> DEFINE row == [reply[r] EXCEPT !.status = status]
<1>2. reply \in [Replies -> ReplyRows]
  BY TypeParts DEF Base, OutboxTyped
<1>3. row \in ReplyRows /\ row.text = reply[r].text
  BY <1>2 DEF ReplyRows
<1>4. reply' = [reply EXCEPT ![r] = row]
  BY <1>1, <1>2
<1>5. NoReply.text = 0 /\ reply[r].text # 0
  BY DEF NoReply, DeliveryReport
<1> HIDE DEF row
<1>6. reply' \in [Replies -> ReplyRows]
  BY <1>2, <1>3, <1>4
<1>7. ASSUME NEW q \in Replies
      PROVE  reply'[q] = NoReply <=> reply[q] = NoReply
  BY <1>2, <1>3, <1>4, <1>5
<1> QED
  BY <1>6, <1>7 DEF DeliveryReport

LEMMA DeliveryReportKeepsBase ==
    ASSUME Base, NEW r \in Replies, DeliveryReport(r)
    PROVE  Base'
<1>1. UNCHANGED <<inboxVars, campaignVars, texts, request>> /\ Write
      /\ reply' \in [Replies -> ReplyRows]
  BY ReportStep
<1>2. PhonesAreRight' /\ PhonesStay
  BY <1>1, PhonesSame DEF Base
<1>3. RequestTyped' /\ HandlersAreRight' /\ TodoIsRight'
  BY <1>1, <1>2, Waits DEF inboxVars
<1>4. OutboxTyped'
  BY <1>1, TypeParts DEF Base, OutboxTyped, Write
<1>5. TypeOK'
  BY <1>1, <1>4, TypeParts, TypePartsNext, InboxSame, CampaignSame DEF Base
<1> QED
  BY <1>2, <1>3, <1>5 DEF Base

LEMMA InitIsBase == ASSUME Init PROVE Base
<1>1. Absent \in ContactRows /\ Absent.phone = Nobody
  BY DEF Absent, ContactRows
<1> DEFINE row(c) == IF c \in Known THEN [Absent EXCEPT !.phone = Phone[c], !.consent = "opted_in"]
                     ELSE Absent
<1>2. contact = [c \in Contacts |-> row(c)]
  BY DEF Init
<1>3. ASSUME NEW c \in Contacts
      PROVE  row(c) \in ContactRows /\ (row(c).phone = Nobody => row(c) = Absent)
  <2>1. CASE c \in Known
    <3>1. Phone[c] \in Phones /\ Phone[c] # Nobody
      BY <2>1, SmsAssumption
    <3> QED
      BY <1>1, <2>1, <3>1 DEF ContactRows, Absent
  <2>2. CASE c \notin Known
    BY <1>1, <2>2
  <2> QED
    BY <2>1, <2>2
<1> HIDE DEF row
<1>4. contact \in [Contacts -> ContactRows] /\ PhonesAreRight
  BY <1>2, <1>3 DEF Init, PhonesAreRight
<1>5. NoRow \in RecipientRows /\ NoReply \in ReplyRows
  BY DEF NoRow, NoReply, RecipientRows, ReplyRows
<1>6. InboxTyped
  BY <1>4 DEF Init, InboxTyped
<1>7. CampaignTyped
  BY <1>5 DEF Init, CampaignTyped, Statuses
<1>8. OutboxTyped
  <2>1. <<>> \in Seq(Texts)
    OBVIOUS
  <2> QED
    BY <1>5, <2>1 DEF Init, OutboxTyped
<1>9. RequestTyped /\ \A h \in Handlers : request[h] = Idle
  BY IdleTyped DEF Init, RequestTyped
<1>10. HandlersAreRight /\ TodoIsRight
  BY <1>9 DEF HandlersAreRight, HandlerIsRight, TodoIsRight, Idle
<1> QED
  BY <1>4, <1>6, <1>7, <1>8, <1>9, <1>10, TypeParts DEF Base

LEMMA NextKeepsBase == ASSUME Base, [Next]_vars PROVE Base'
<1>1. ASSUME NEW h \in Handlers, Handle(h)
      PROVE  Base'
  <2>1. ASSUME NEW m \in Inbound, FindBatch(h, m)
        PROVE  Base'
    BY <2>1, FindBatchKeepsBase
  <2>2. ASSUME NEW r \in Replies, NEW c \in Contacts, CheckReply(h, r, c)
        PROVE  Base'
    BY <2>2, CheckReplyKeepsBase
  <2> QED
    BY <1>1, <2>1, <2>2, CreateBatchKeepsBase, LookKeepsBase, SeenBeforeKeepsBase, StoreKeepsBase,
       LaunchKeepsBase, SendNextKeepsBase, NoteResultsKeepsBase, ReadRowsKeepsBase,
       NoteRefreshKeepsBase, NoteReplyKeepsBase, DispatchKeepsBase, SettleKeepsBase,
       AbandonKeepsBase DEF Handle
<1>2. ASSUME NEW c \in Contacts, Block(c)
      PROVE  Base'
  BY <1>2, BlockKeepsBase
<1>3. ASSUME NEW c \in Contacts, NEW consent \in {"opted_in", "opted_out"}, FormAnswer(c, consent)
      PROVE  Base'
  BY <1>3, FormAnswerKeepsBase
<1>4. ASSUME NEW r \in Replies, DeliveryReport(r)
      PROVE  Base'
  BY <1>4, DeliveryReportKeepsBase
<1>5. CASE UNCHANGED vars
  <2>1. UNCHANGED <<inboxVars, campaignVars, reply, texts, writes, request>>
    BY <1>5 DEF vars, inboxVars, campaignVars
  <2>2. PhonesAreRight' /\ PhonesStay
    BY <2>1, PhonesSame DEF Base
  <2>3. RequestTyped' /\ HandlersAreRight' /\ TodoIsRight'
    BY <2>1, <2>2, Waits DEF inboxVars
  <2>4. TypeOK'
    BY <2>1, TypeParts, TypePartsNext, InboxSame, CampaignSame, OutboxSame DEF Base
  <2> QED
    BY <2>2, <2>3, <2>4 DEF Base
<1> QED
  BY <1>1, <1>2, <1>3, <1>4, <1>5, ApproveKeepsBase, ScheduleKeepsBase, CancelKeepsBase,
     PreviewKeepsBase DEF Next

\* Every variable keeps its type, what a handler holds was read of rows that
\* there are, a conversation is with its contact's phone, and the contacts a
\* launch has still to text have different phones.
THEOREM BaseHolds == Spec => []Base
<1> QED
  BY InitIsBase, NextKeepsBase, PTL DEF Spec

\* Every variable keeps to the rows and statuses of the tables.
THEOREM TypeCorrect == Spec => []TypeOK
<1>1. Base => TypeOK
  BY DEF Base
<1> QED
  BY <1>1, BaseHolds, PTL

-----------------------------------------------------------------------------
(* Which steps matter to the campaign.                                     *)

\* What the carrier sent stays sent.
TextsGrow ==
    /\ Len(texts') >= Len(texts)
    /\ \A i \in 1 .. Len(texts) : texts'[i] = texts[i]

\* Nobody begins to send or goes on sending.
NobodySends == \A g \in Handlers : request'[g] = request[g] \/ request'[g].op # "send"

Quiet == UNCHANGED <<rows, campaign, approvals, texts>> /\ NobodySends

CampaignStep ==
    \/ Approve \/ Schedule \/ Cancel \/ Preview
    \/ \E h \in Handlers : Launch(h) \/ SendNext(h) \/ NoteResults(h) \/ NoteRefresh(h) \/ Dispatch(h)

LEMMA HoldsOneOnly ==
    ASSUME Base, NEW h \in Handlers, NEW r, Hold(h, r), NEW g \in Handlers
    PROVE  request'[g] = IF g = h THEN r ELSE request[g]
<1>1. request' = [request EXCEPT ![h] = r] /\ request \in [Handlers -> Requests]
  BY DEF Hold, Base, RequestTyped
<1> QED
  BY <1>1

LEMMA EndsQuietly ==
    ASSUME Base, NEW h \in Handlers, Release(h)
    PROVE  NobodySends /\ request'[h] = Idle
<1>1. Hold(h, Idle) /\ Idle.op # "send"
  BY DEF Release, Idle
<1>2. ASSUME NEW g \in Handlers
      PROVE  request'[g] = IF g = h THEN Idle ELSE request[g]
  BY <1>1, HoldsOneOnly
<1> QED
  BY <1>1, <1>2 DEF NobodySends

\* The requests that stand for nothing noted or sent, and which step takes up
\* each of the others.
Light == {"idle", "batch", "inbound", "refresh", "reply"}

TookUp(g) ==
    \/ request'[g] = request[g]
    \/ request'[g].op \in Light
    \/ Look(g) /\ request'[g].op = "store"
    \/ (Launch(g) \/ SendNext(g)) /\ request'[g].op = "send"
    \/ NoteReply(g) /\ request'[g].op = "dispatch"
    \/ Dispatch(g) /\ request'[g].op = "settle"

LEMMA WhatIsTakenUp ==
    ASSUME Base, [Next]_vars, NEW g \in Handlers
    PROVE  TookUp(g)
<1>1. ASSUME NEW h \in Handlers, Handle(h)
      PROVE  TookUp(g)
  <2>1. ASSUME NEW r, Hold(h, r), r.op \in Light
        PROVE  TookUp(g)
    BY <2>1, HoldsOneOnly DEF TookUp
  <2>2. ASSUME Release(h)
        PROVE  TookUp(g)
    <3>1. Hold(h, Idle) /\ Idle.op \in Light
      BY <2>2 DEF Release, Idle, Light
    <3> QED
      BY <2>1, <3>1
  <2>3. request[h] \in Requests
    BY DEF Base, RequestTyped
  <2>4. ASSUME NEW m \in Inbound, FindBatch(h, m)
        PROVE  TookUp(g)
    <3> DEFINE r == [Idle EXCEPT !.op = IF batches = 0 THEN "batch" ELSE "inbound",
                                 !.what = m, !.batch = batches]
    <3>1. Hold(h, r)
      BY <2>4 DEF FindBatch
    <3>2. r.op \in Light
      BY DEF Idle, Light
    <3> HIDE DEF r
    <3> QED
      BY <2>1, <3>1, <3>2
  <2>5. CASE CreateBatch(h)
    <3> DEFINE r == [request[h] EXCEPT !.op = "inbound", !.batch = batches + 1]
    <3>1. Hold(h, r)
      BY <2>5 DEF CreateBatch
    <3>2. r.op \in Light
      BY <2>3 DEF Requests, Light
    <3> HIDE DEF r
    <3> QED
      BY <2>1, <3>1, <3>2
  <2>6. CASE Look(h)
    <3>1. PICK c \in Existing(From[request[h].what]) :
            Hold(h, [request[h] EXCEPT !.op = "store", !.whom = c])
      BY <2>6 DEF Look
    <3> DEFINE r == [request[h] EXCEPT !.op = "store", !.whom = c]
    <3>2. Hold(h, r)
      BY <3>1
    <3>3. r.op = "store"
      BY <2>3 DEF Requests
    <3> HIDE DEF r
    <3> QED
      BY <2>6, <3>2, <3>3, HoldsOneOnly DEF TookUp
  <2>7. CASE ReadRows(h)
    <3> DEFINE asked == {c \in Contacts : rows[c].eligibility = "included" /\ rows[c].text # 0}
               r == [Idle EXCEPT !.op = "refresh", !.batch = snapshot, !.todo = asked]
    <3>1. Hold(h, r)
      BY <2>7 DEF ReadRows
    <3>2. r.op \in Light
      BY DEF Idle, Light
    <3> HIDE DEF r
    <3> QED
      BY <2>1, <3>1, <3>2
  <2>8. ASSUME NEW q \in Replies, NEW c \in Contacts, CheckReply(h, q, c)
        PROVE  TookUp(g)
    <3>1. PICK p \in Phones : Hold(h, [Idle EXCEPT !.op = "reply", !.what = q, !.whom = p])
      BY <2>8 DEF CheckReply
    <3> DEFINE r == [Idle EXCEPT !.op = "reply", !.what = q, !.whom = p]
    <3>2. Hold(h, r)
      BY <3>1
    <3>3. r.op \in Light
      BY DEF Idle, Light
    <3> HIDE DEF r
    <3> QED
      BY <2>1, <3>2, <3>3
  <2>9. CASE NoteReply(h)
    <3>1. CASE Release(h)
      BY <2>2, <3>1
    <3>2. CASE Hold(h, [request[h] EXCEPT !.op = "dispatch"])
      BY <2>9, <3>2, DispatchRequest DEF TookUp
    <3> QED
      BY <2>9, <3>1, <3>2, NoteReplyStep
  <2>10. CASE Dispatch(h)
    BY <2>10, DispatchStep DEF TookUp
  <2>11. CASE SendNext(h)
    BY <2>11, SendStep, SendsToStep DEF TookUp
  <2>12. CASE Launch(h)
    BY <2>12, LaunchStep, LaunchedRequest DEF TookUp
  <2>13. CASE SeenBefore(h) \/ Store(h) \/ NoteResults(h) \/ NoteRefresh(h) \/ Settle(h) \/ Abandon(h)
    BY <2>2, <2>13 DEF SeenBefore, Store, NoteResults, NoteRefresh, Settle, Abandon
  <2> QED
    BY <1>1, <2>4, <2>5, <2>6, <2>7, <2>8, <2>9, <2>10, <2>11, <2>12, <2>13 DEF Handle
<1>2. CASE UNCHANGED request
  BY <1>2 DEF TookUp
<1> QED
  BY <1>1, <1>2 DEF Next, Block, FormAnswer, Approve, Schedule, Cancel, Preview, DeliveryReport, vars

LEMMA QuietOrCampaign ==
    ASSUME Base, [Next]_vars
    PROVE  Quiet \/ CampaignStep
<1>1. SUFFICES ASSUME ~ CampaignStep
               PROVE  Quiet
  OBVIOUS
<1>2. NobodySends
  <2>1. ASSUME NEW g \in Handlers
        PROVE  request'[g] = request[g] \/ request'[g].op # "send"
    <3>1. TookUp(g)
      BY WhatIsTakenUp
    <3>2. ~ Launch(g) /\ ~ SendNext(g)
      BY <1>1 DEF CampaignStep
    <3> QED
      BY <3>1, <3>2 DEF TookUp, Light
  <2> QED
    BY <2>1 DEF NobodySends
<1>3. UNCHANGED <<rows, campaign, approvals, texts>>
  BY <1>1 DEF CampaignStep, Next, Handle, FindBatch, CreateBatch, Look, SeenBefore, Store, ReadRows,
     CheckReply, NoteReply, Settle, Abandon, Block, FormAnswer, DeliveryReport, campaignVars, vars
<1> QED
  BY <1>2, <1>3 DEF Quiet

\* Only the transaction that stores a message gives a contact a phone.
LEMMA PhonesStayAlways ==
    ASSUME Base, [Next]_vars
    PROVE  PhonesStay
<1>1. CASE UNCHANGED contact
  BY <1>1 DEF PhonesStay
<1>2. ASSUME NEW h \in Handlers, Handle(h)
      PROVE  PhonesStay
  <2>1. CASE Store(h)
    BY <2>1, StoreKeepsBase
  <2>2. CASE ~ Store(h)
    BY <1>1, <1>2, <2>2 DEF Handle, FindBatch, CreateBatch, Look, SeenBefore, Launch, SendNext,
       NoteResults, ReadRows, NoteRefresh, CheckReply, NoteReply, Dispatch, Settle, Abandon, inboxVars
  <2> QED
    BY <2>1, <2>2
<1>3. ASSUME NEW c \in Contacts,
             Block(c) \/ \E consent \in {"opted_in", "opted_out"} : FormAnswer(c, consent)
      PROVE  PhonesStay
  BY <1>3, BlockKeepsBase, FormAnswerKeepsBase
<1>4. ASSUME NEW r \in Replies, DeliveryReport(r)
      PROVE  PhonesStay
  BY <1>1, <1>4 DEF DeliveryReport, inboxVars
<1> QED
  BY <1>1, <1>2, <1>3, <1>4 DEF Next, Approve, Schedule, Cancel, Preview, inboxVars, vars

LEMMA TextsGrowAlways ==
    ASSUME Base, [Next]_vars
    PROVE  TextsGrow
<1>1. texts \in Seq(Texts)
  BY TypeParts DEF Base, OutboxTyped
<1>2. CASE UNCHANGED texts
  BY <1>1, <1>2 DEF TextsGrow
<1>3. ASSUME NEW h \in Handlers, SendNext(h)
      PROVE  TextsGrow
  BY <1>3, SendStep, SendsToStep DEF TextsGrow
<1>4. ASSUME NEW h \in Handlers, Dispatch(h)
      PROVE  TextsGrow
  BY <1>4, DispatchStep DEF TextsGrow
<1>5. CASE Quiet
  BY <1>2, <1>5 DEF Quiet
<1>6. CASE CampaignStep
  BY <1>2, <1>3, <1>4, <1>6 DEF CampaignStep, Approve, Schedule, Cancel, Preview, Launch,
     NoteResults, NoteRefresh
<1> QED
  BY <1>5, <1>6, QuietOrCampaign

-----------------------------------------------------------------------------
(* The provider's ids on the rows.                                         *)

RowsAreRight == ResultsAreRight /\ RowsTellTheirTexts

LEMMA RowTells ==
    RowsTellTheirTexts <=> \A c \in Contacts : TellsText(c, rows[c].text)
BY DEF RowsTellTheirTexts, TellsText

LEMMA RowTellsNext ==
    RowsTellTheirTexts' <=> \A c \in Contacts : TellsText(c, rows[c].text)'
BY DEF RowsTellTheirTexts, TellsText

\* What told of a text goes on doing so.
LEMMA TellsOn ==
    ASSUME Base, PhonesStay, TextsGrow, texts' \in Seq(Texts),
           NEW c \in Contacts, NEW t \in Nat, TellsText(c, t),
           NEW d \in Contacts, contact[d].phone = contact[c].phone
    PROVE  t # 0 => /\ t <= Len(texts')
                    /\ texts'[t].phone = contact'[d].phone
                    /\ texts'[t].by \in Contacts
<1>1. texts \in Seq(Texts)
  BY TypeParts DEF Base, OutboxTyped
<1>2. ASSUME t # 0
      PROVE  t \in 1 .. Len(texts) /\ texts[t].phone = contact[c].phone /\ texts[t].by \in Contacts
  BY <1>1, <1>2 DEF TellsText
<1>3. ASSUME t # 0
      PROVE  contact[d].phone # Nobody
  <2>1. texts[t] \in Texts
    BY <1>1, <1>2, <1>3
  <2> QED
    BY <1>2, <1>3, <2>1, SmsAssumption DEF Texts
<1>4. ASSUME t # 0
      PROVE  contact'[d].phone = contact[d].phone /\ texts'[t] = texts[t] /\ t <= Len(texts')
  BY <1>1, <1>2, <1>3, <1>4 DEF PhonesStay, TextsGrow
<1> QED
  BY <1>2, <1>4

LEMMA RowsStayRight ==
    ASSUME Base, Base', RowsAreRight, [Next]_vars
    PROVE  RowsAreRight'
<1>1. PhonesStay /\ TextsGrow /\ texts' \in Seq(Texts)
  BY PhonesStayAlways, TextsGrowAlways, TypePartsNext DEF Base, OutboxTyped
<1>2. \A c \in Contacts : rows[c].text \in Nat /\ TellsText(c, rows[c].text)
  BY RowTells DEF RowsAreRight, Base, TypeOK
<1>3. ASSUME NEW g \in Handlers, request[g].op = "send", NEW x \in request[g].results
      PROVE  x[1] \in Contacts /\ x[2] \in Nat /\ TellsText(x[1], x[2]) /\ TellsText(x[1], x[2])'
  <2>1. x[1] \in Contacts /\ x[2] \in Nat
    BY <1>3 DEF Base, RequestTyped, Requests
  <2>2. TellsText(x[1], x[2])
    BY <1>3 DEF RowsAreRight, ResultsAreRight
  <2>3. TellsText(x[1], x[2])'
    BY <1>1, <2>1, <2>2, TellsOn DEF TellsText
  <2> QED
    BY <2>1, <2>2, <2>3
<1>4. ASSUME \A g \in Handlers : request'[g].op = "send" =>
                request[g].op = "send" /\ request'[g].results = request[g].results
      PROVE  ResultsAreRight'
  BY <1>3, <1>4 DEF ResultsAreRight
<1>5. ASSUME \A c \in Contacts : rows'[c].text = rows[c].text
      PROVE  RowsTellTheirTexts'
  <2>1. ASSUME NEW c \in Contacts
        PROVE  TellsText(c, rows[c].text)'
    BY <1>1, <1>2, <1>5, TellsOn DEF TellsText
  <2> QED
    BY <2>1, RowTellsNext
<1>6. ASSUME \A c \in Contacts : rows'[c].text = 0
      PROVE  RowsTellTheirTexts'
  BY <1>6 DEF RowsTellTheirTexts
<1>7. CASE Quiet
  BY <1>4, <1>5, <1>7 DEF Quiet, NobodySends, RowsAreRight
<1>8. CASE Approve \/ Schedule \/ Cancel
  BY <1>4, <1>5, <1>8 DEF Approve, Schedule, Cancel, RowsAreRight
<1>9. CASE Preview
  <2>1. \A c \in Contacts : rows'[c].text = 0
    BY <1>9, SnapshotStep DEF Preview
  <2>2. UNCHANGED request
    BY <1>9 DEF Preview
  <2> QED
    BY <1>4, <1>6, <2>1, <2>2 DEF RowsAreRight
<1>10. ASSUME NEW h \in Handlers, Launch(h)
       PROVE  RowsAreRight'
  <2>1. /\ \A c \in Contacts : rows'[c].text = 0
        /\ UNCHANGED request \/ \E included \in Audiences : LaunchesWith(h, included)
    BY <1>10, LaunchStep
  <2>2. ASSUME NEW included \in Audiences, LaunchesWith(h, included)
        PROVE  ResultsAreRight'
    <3>1. /\ request'[h].results = {}
          /\ \A g \in Handlers : g # h => request'[g] = request[g]
      BY <2>2, LaunchedRequest
    <3> QED
      BY <1>3, <3>1 DEF ResultsAreRight
  <2> QED
    BY <1>4, <1>6, <2>1, <2>2 DEF RowsAreRight
<1>11. ASSUME NEW h \in Handlers, SendNext(h)
       PROVE  RowsAreRight'
  <2>1. request[h].op = "send" /\ UNCHANGED rows
    BY <1>11, SendStep DEF campaignVars
  <2>2. PICK c \in request[h].todo, t \in Results : SendsTo(h, c, t)
    BY <1>11, SendStep
  <2>3. /\ c \in Contacts /\ contact[c].phone \in Phones
        /\ AnswerKept(h, c, t)
        /\ \A g \in Handlers : g # h => request'[g] = request[g]
    BY <2>1, <2>2, SendsToStep
  <2>4. contact'[c].phone = contact[c].phone
    BY <1>1, <2>3, SmsAssumption DEF PhonesStay
  <2>5. TellsText(c, t)'
    BY <2>3, <2>4 DEF TellsText, AnswerKept
  <2>6. ASSUME NEW g \in Handlers, request'[g].op = "send", NEW x \in request'[g].results
        PROVE  TellsText(x[1], x[2])'
    <3>1. CASE g # h \/ x # <<c, t>>
      <4>1. x \in request[g].results /\ request[g].op = "send"
        BY <2>1, <2>3, <2>6, <3>1 DEF AnswerKept
      <4> QED
        BY <1>3, <4>1
    <3>2. CASE x = <<c, t>>
      BY <2>5, <3>2
    <3> QED
      BY <3>1, <3>2
  <2> QED
    BY <1>5, <2>1, <2>6 DEF RowsAreRight, ResultsAreRight
<1>12. ASSUME NEW h \in Handlers, NoteResults(h)
       PROVE  RowsAreRight'
  <2>1. request[h].op = "send" /\ NobodySends
    BY <1>12, NoteStep, EndsQuietly
  <2>2. ASSUME NEW d \in Contacts
        PROVE  TellsText(d, rows[d].text)'
    <3>1. CASE rows'[d].text = rows[d].text
      BY <1>1, <1>2, <3>1, TellsOn DEF TellsText
    <3>2. ASSUME NEW x \in request[h].results,
                 contact[d].phone = contact[x[1]].phone, rows'[d].text = x[2]
          PROVE  TellsText(d, rows[d].text)'
      <4>1. x[1] \in Contacts /\ x[2] \in Nat /\ TellsText(x[1], x[2])
        BY <1>3, <2>1
      <4> QED
        BY <1>1, <3>2, <4>1, TellsOn DEF TellsText
    <3> QED
      BY <1>12, <3>1, <3>2, NoteStep
  <2> QED
    BY <1>4, <2>1, <2>2, RowTellsNext DEF RowsAreRight, NobodySends
<1>13. ASSUME NEW h \in Handlers, NoteRefresh(h)
       PROVE  RowsAreRight'
  BY <1>4, <1>5, <1>13, RefreshStep, EndsQuietly DEF RowsAreRight, NobodySends
<1>14. ASSUME NEW h \in Handlers, Dispatch(h)
       PROVE  RowsAreRight'
  BY <1>4, <1>5, <1>14, DispatchStep DEF RowsAreRight, campaignVars
<1> QED
  BY <1>7, <1>8, <1>9, <1>10, <1>11, <1>12, <1>13, <1>14, QuietOrCampaign DEF CampaignStep

\* The provider's id on a row is of a text to the row's phone, whatever
\* previews and launches came between the text and the note of its result.
THEOREM IdsAreOfTheRow == Spec => []RowsTellTheirTexts
<1>1. ASSUME Init
      PROVE  RowsAreRight
  <2>1. \A h \in Handlers : request[h].op # "send"
    BY <1>1 DEF Init, Idle
  <2>2. \A c \in Contacts : rows[c].text = 0
    BY <1>1 DEF Init, NoRow
  <2> QED
    BY <2>1, <2>2 DEF RowsAreRight, ResultsAreRight, RowsTellTheirTexts
<1>2. Base /\ Base' /\ RowsAreRight /\ [Next]_vars => RowsAreRight'
  BY RowsStayRight
<1>3. RowsAreRight => RowsTellTheirTexts
  BY DEF RowsAreRight
<1> QED
  BY <1>1, <1>2, <1>3, BaseHolds, PTL DEF Spec

-----------------------------------------------------------------------------
(* The campaign's texts to a phone, counted.                               *)

LEMMA TextsToFinite ==
    ASSUME texts \in Seq(Texts), NEW p
    PROVE  IsFiniteSet(TextsTo(p)) /\ Cardinality(TextsTo(p)) \in Nat
<1>1. IsFiniteSet(1 .. Len(texts))
  BY FS_Interval
<1>2. TextsTo(p) \in SUBSET (1 .. Len(texts))
  BY DEF TextsTo
<1> QED
  BY <1>1, <1>2, FS_Subset, FS_CardinalityType

\* A set that only loses members costs no more.
LEMMA FewerMembers ==
    ASSUME NEW S, NEW T, IsFiniteSet(S), T \subseteq S
    PROVE  IsFiniteSet(T) /\ Cardinality(T) \in Nat /\ Cardinality(S) \in Nat
           /\ Cardinality(T) <= Cardinality(S)
<1>1. T \in SUBSET S
  OBVIOUS
<1> QED
  BY <1>1, FS_Subset, FS_CardinalityType

LEMMA OneMore ==
    ASSUME NEW S, NEW x, NEW T, IsFiniteSet(S), T \subseteq S \cup {x}
    PROVE  IsFiniteSet(T) /\ Cardinality(T) \in Nat /\ Cardinality(S) \in Nat
           /\ Cardinality(T) <= Cardinality(S) + 1
<1> DEFINE U == S \cup {x}
<1>1. IsFiniteSet(U) /\ Cardinality(S) \in Nat
      /\ (Cardinality(U) = Cardinality(S) \/ Cardinality(U) = Cardinality(S) + 1)
  BY FS_AddElement, FS_CardinalityType
<1> HIDE DEF U
<1>2. IsFiniteSet(T) /\ Cardinality(T) \in Nat /\ Cardinality(T) <= Cardinality(U)
  BY <1>1, FewerMembers DEF U
<1>3. Cardinality(U) \in Nat
  BY <1>1, FS_CardinalityType
<1> QED
  BY <1>1, <1>2, <1>3

LEMMA OneLess ==
    ASSUME NEW S, NEW x \in S, NEW T, IsFiniteSet(S), T \subseteq S \ {x}
    PROVE  IsFiniteSet(T) /\ Cardinality(T) \in Nat /\ Cardinality(S) \in Nat
           /\ Cardinality(T) + 1 <= Cardinality(S)
<1> DEFINE U == S \ {x}
<1>1. IsFiniteSet(U) /\ Cardinality(S) \in Nat /\ Cardinality(U) = Cardinality(S) - 1
  BY FS_RemoveElement, FS_CardinalityType
<1> HIDE DEF U
<1>2. IsFiniteSet(T) /\ Cardinality(T) \in Nat /\ Cardinality(T) <= Cardinality(U)
  BY <1>1, FewerMembers DEF U
<1> QED
  BY <1>1, <1>2

\* Where no text is sent and no launch begins, the launches that owe a phone a
\* text can only become fewer.
LEMMA OwingShrinks ==
    ASSUME Base, PhonesStay, NEW p \in Phones,
           \A g \in Handlers : request'[g] = request[g]
              \/ request'[g].op # "send"
              \/ (request[g].op = "send" /\ request'[g].todo \subseteq request[g].todo)
    PROVE  Owing(p)' \subseteq Owing(p)
<1>1. ASSUME NEW g \in Handlers, request'[g].op = "send",
             NEW c \in request'[g].todo, contact'[c].phone = p
      PROVE  g \in Owing(p)
  <2>1. request[g].op = "send" /\ c \in request[g].todo
    BY <1>1
  <2>2. c \in Contacts /\ contact[c].phone # Nobody
    BY <2>1 DEF Base, RequestTyped, Requests, TodoIsRight
  <2>3. contact[c].phone = p
    BY <1>1, <2>2 DEF PhonesStay
  <2> QED
    BY <2>1, <2>3 DEF Owing
<1> QED
  BY <1>1 DEF Owing

\* A budget that covers what it did still does when less is owed and the spare
\* part grew no more than the budget.
LEMMA BudgetKept ==
    ASSUME NEW a \in Int, NEW s \in Int, NEW t \in Int, NEW r \in Int, NEW r2 \in Int,
           NEW b \in Int, NEW b2 \in Int, t <= s, a + s + r <= b, r2 - r <= b2 - b
    PROVE  a + t + r2 <= b2
  OBVIOUS

\* Where nothing is spent, what was covered is.
LEMMA StaysCovered ==
    ASSUME Base, PhonesStay, NEW p \in Phones, Covered(p), UNCHANGED texts,
           \A g \in Handlers : request'[g] = request[g]
              \/ request'[g].op # "send"
              \/ (request[g].op = "send" /\ request'[g].todo \subseteq request[g].todo),
           approvals' \in Nat, Spare' - Spare <= approvals' - approvals
    PROVE  Covered(p)'
<1>1. Owing(p)' \subseteq Owing(p)
  BY OwingShrinks
<1>2. TextsTo(p)' = TextsTo(p)
  BY DEF TextsTo
<1>3. Cardinality(TextsTo(p)) \in Nat
  BY TextsToFinite, TypeParts DEF Base, OutboxTyped
<1> DEFINE S == Owing(p)  T == Owing(p)'
<1>4. IsFiniteSet(S) /\ T \subseteq S
  BY <1>1 DEF Covered
<1> HIDE DEF S, T
<1>5. IsFiniteSet(T) /\ Cardinality(T) \in Nat /\ Cardinality(S) \in Nat
      /\ Cardinality(T) <= Cardinality(S)
  BY <1>4, FewerMembers
<1>6. Spare \in Int /\ Spare' \in Int /\ approvals \in Int /\ approvals' \in Int
      /\ Spare' - Spare <= approvals' - approvals
  <2>1. Spare \in Int /\ Spare' \in Int
    BY DEF Spare
  <2>2. approvals \in Int /\ approvals' \in Int
    BY DEF Base, TypeOK
  <2> QED
    BY <2>1, <2>2
<1>7. Cardinality(TextsTo(p)) + Cardinality(S) + Spare <= approvals
  BY DEF Covered, S
<1> DEFINE a == Cardinality(TextsTo(p))  s == Cardinality(S)  t == Cardinality(T)
<1> HIDE DEF a, s, t
<1>8. a \in Int /\ s \in Int /\ t \in Int /\ t <= s /\ a + s + Spare <= approvals
  BY <1>3, <1>5, <1>7 DEF a, s, t
<1>9. a + t + Spare' <= approvals'
  BY <1>6, <1>8, BudgetKept
<1> QED
  BY <1>2, <1>5, <1>9 DEF Covered, T, a, t

\* A text of a launch is one that was owed.
LEMMA SendStaysCovered ==
    ASSUME Base, PhonesStay, NEW h \in Handlers, SendNext(h), NEW p \in Phones, Covered(p)
    PROVE  Covered(p)'
<1>1. request[h].op = "send" /\ UNCHANGED <<inboxVars, campaignVars>>
  BY SendStep
<1>2. PICK c \in request[h].todo, t \in Results : SendsTo(h, c, t)
  BY SendStep
<1>3. /\ c \in Contacts /\ contact[c].phone \in Phones
      /\ texts' = texts \/ texts' = Append(texts, [phone |-> contact[c].phone, by |-> c])
      /\ request'[h].op = "send" /\ request'[h].todo = request[h].todo \ {c}
      /\ \A g \in Handlers : g # h => request'[g] = request[g]
  BY <1>1, <1>2, SendsToStep
<1>4. \A g \in Handlers : request'[g] = request[g]
         \/ request'[g].op # "send"
         \/ (request[g].op = "send" /\ request'[g].todo \subseteq request[g].todo)
  BY <1>1, <1>3
<1>5. Spare' = Spare /\ approvals' = approvals /\ approvals \in Nat
  BY <1>1 DEF campaignVars, Spare, Base, TypeOK
<1>6. texts \in Seq(Texts)
  BY TypeParts DEF Base, OutboxTyped
<1> DEFINE x == [phone |-> contact[c].phone, by |-> c]
<1>7. x.phone = contact[c].phone /\ x.by = c /\ x \in Texts
  BY <1>3 DEF Texts
<1>8. texts' = texts \/ texts' = Append(texts, x)
  BY <1>3
<1> HIDE DEF x
<1>9. CASE texts' = texts
  BY <1>4, <1>5, <1>9, StaysCovered DEF Spare
<1>10. CASE texts' = Append(texts, x) /\ contact[c].phone # p
  <2>1. Len(texts') = Len(texts) + 1 /\ Len(texts) \in Nat /\ texts'[Len(texts) + 1] = x
        /\ \A i \in 1 .. Len(texts) : texts'[i] = texts[i]
    BY <1>6, <1>7, <1>10
  <2>2. TextsTo(p)' = TextsTo(p)
    BY <1>7, <1>10, <2>1 DEF TextsTo
  <2>3. Cardinality(TextsTo(p)) \in Nat
    BY <1>6, TextsToFinite
  <2>4. Owing(p)' \subseteq Owing(p)
    BY <1>4, OwingShrinks
  <2> DEFINE S == Owing(p)  T == Owing(p)'
  <2>5. IsFiniteSet(S) /\ T \subseteq S
    BY <2>4 DEF Covered
  <2> HIDE DEF S, T
  <2>6. IsFiniteSet(T) /\ Cardinality(T) \in Nat /\ Cardinality(S) \in Nat
        /\ Cardinality(T) <= Cardinality(S)
    BY <2>5, FewerMembers
  <2>7. Spare \in {0, 1}
    BY DEF Spare
  <2>8. Cardinality(TextsTo(p)) + Cardinality(S) + Spare <= approvals
    BY DEF Covered, S
  <2>9. Cardinality(TextsTo(p)) + Cardinality(T) + Spare <= approvals
    BY <1>5, <2>3, <2>6, <2>7, <2>8
  <2> QED
    BY <1>5, <2>2, <2>6, <2>9 DEF Covered, T
<1>11. CASE texts' = Append(texts, x) /\ contact[c].phone = p
  <2>1. Len(texts') = Len(texts) + 1 /\ Len(texts) \in Nat
        /\ \A i \in 1 .. Len(texts) : texts'[i] = texts[i]
    BY <1>6, <1>7, <1>11
  <2>2. TextsTo(p)' \subseteq TextsTo(p) \cup {Len(texts) + 1}
    BY <2>1 DEF TextsTo
  <2>3. h \in Owing(p)
    BY <1>1, <1>11 DEF Owing
  <2>4. h \notin Owing(p)'
    <3>1. ASSUME NEW d \in request'[h].todo, contact'[d].phone = p
          PROVE  FALSE
      <4>1. d \in request[h].todo /\ d # c
        BY <1>3, <3>1
      <4>2. contact' = contact
        BY <1>1 DEF inboxVars
      <4> QED
        BY <1>1, <1>11, <3>1, <4>1, <4>2 DEF Base, TodoIsRight
    <3> QED
      BY <3>1 DEF Owing
  <2>5. Owing(p)' \subseteq Owing(p) \ {h}
    BY <1>4, <2>4, OwingShrinks
  <2> DEFINE S == Owing(p)  T == Owing(p)'  A == TextsTo(p)  B == TextsTo(p)'
  <2>6. IsFiniteSet(S) /\ T \subseteq S \ {h} /\ h \in S
    BY <2>3, <2>5 DEF Covered
  <2>7. IsFiniteSet(A) /\ B \subseteq A \cup {Len(texts) + 1}
    BY <1>6, <2>2, TextsToFinite
  <2>8. Cardinality(A) + Cardinality(S) + Spare <= approvals
    BY DEF Covered
  <2> HIDE DEF S, T, A, B
  <2>9. IsFiniteSet(T) /\ Cardinality(T) \in Nat /\ Cardinality(S) \in Nat
        /\ Cardinality(T) + 1 <= Cardinality(S)
    BY <2>6, OneLess
  <2>10. Cardinality(A) \in Nat /\ Cardinality(B) \in Nat /\ Cardinality(B) <= Cardinality(A) + 1
    BY <2>7, OneMore
  <2>11. Spare \in {0, 1}
    BY DEF Spare
  <2>12. Cardinality(B) + Cardinality(T) + Spare <= approvals
    BY <1>5, <2>8, <2>9, <2>10, <2>11
  <2> QED
    BY <1>5, <2>9, <2>12 DEF Covered, T, B
<1> QED
  BY <1>8, <1>9, <1>10, <1>11

\* A launch takes the approval for the texts it owes.
LEMMA LaunchStaysCovered ==
    ASSUME Base, PhonesStay, NEW h \in Handlers, Launch(h), NEW p \in Phones, Covered(p)
    PROVE  Covered(p)'
<1>1. UNCHANGED <<inboxVars, approvals, reply, texts>>
      /\ \/ campaign' = "launch_blocked" /\ UNCHANGED request
         \/ \E included \in Audiences : LaunchesWith(h, included)
  BY LaunchStep
<1>2. approvals \in Nat /\ approvals' = approvals /\ UNCHANGED texts
  BY <1>1 DEF Base, TypeOK
<1>3. CASE campaign' = "launch_blocked" /\ UNCHANGED request
  <2>1. Spare' = 0 /\ Spare \in {0, 1}
    BY <1>3 DEF Spare
  <2> QED
    BY <1>2, <1>3, <2>1, StaysCovered
<1>4. ASSUME NEW included \in Audiences, LaunchesWith(h, included)
      PROVE  Covered(p)'
  <2>1. Spare = 1 /\ Spare' = 0
    BY <1>4 DEF LaunchesWith, MayLaunch, Spare
  <2>2. \A g \in Handlers : g # h => request'[g] = request[g]
    BY <1>4, LaunchedRequest
  <2>3. Owing(p)' \subseteq Owing(p) \cup {h}
    BY <1>1, <2>2 DEF Owing, inboxVars
  <2>4. TextsTo(p)' = TextsTo(p)
    BY <1>2 DEF TextsTo
  <2>5. Cardinality(TextsTo(p)) \in Nat
    BY TextsToFinite, TypeParts DEF Base, OutboxTyped
  <2> DEFINE S == Owing(p)  T == Owing(p)'
  <2>6. IsFiniteSet(S) /\ T \subseteq S \cup {h}
        /\ Cardinality(TextsTo(p)) + Cardinality(S) + Spare <= approvals
    BY <2>3 DEF Covered
  <2> HIDE DEF S, T
  <2>7. IsFiniteSet(T) /\ Cardinality(T) \in Nat /\ Cardinality(S) \in Nat
        /\ Cardinality(T) <= Cardinality(S) + 1
    BY <2>6, OneMore
  <2>8. Cardinality(TextsTo(p)) + Cardinality(T) + 0 <= approvals
    BY <1>2, <2>1, <2>5, <2>6, <2>7
  <2> QED
    BY <1>2, <2>1, <2>4, <2>7, <2>8 DEF Covered, T
<1> QED
  BY <1>1, <1>3, <1>4

LEMMA CoverStays ==
    ASSUME Base, ApprovalsCover, [Next]_vars
    PROVE  ApprovalsCover'
<1>1. SUFFICES ASSUME NEW p \in Phones
               PROVE  Covered(p)'
  BY DEF ApprovalsCover, Covered
<1>2. Covered(p) /\ PhonesStay
  BY PhonesStayAlways DEF ApprovalsCover, Covered
<1>3. approvals \in Nat
  BY DEF Base, TypeOK
<1>4. ASSUME UNCHANGED texts, NobodySends, approvals' \in Nat, Spare' - Spare <= approvals' - approvals
      PROVE  Covered(p)'
  BY <1>2, <1>4, StaysCovered DEF NobodySends
<1>5. UNCHANGED request => NobodySends
  BY DEF NobodySends
<1>6. CASE Quiet
  BY <1>3, <1>4, <1>6 DEF Quiet, Spare
<1>7. CASE Approve \/ Schedule \/ Cancel \/ Preview
  <2>1. UNCHANGED texts /\ NobodySends
    BY <1>5, <1>7 DEF Approve, Schedule, Cancel, Preview
  <2>2. approvals' \in Nat /\ Spare' - Spare <= approvals' - approvals
    BY <1>3, <1>7 DEF Approve, Schedule, Cancel, Preview, Spare
  <2> QED
    BY <1>4, <2>1, <2>2
<1>8. ASSUME NEW h \in Handlers, NoteResults(h)
      PROVE  Covered(p)'
  <2>1. UNCHANGED texts /\ NobodySends /\ approvals' = approvals
        /\ campaign' \in {"failed", "completed"}
    BY <1>8, NoteStep, EndsQuietly
  <2> QED
    BY <1>3, <1>4, <2>1 DEF Spare
<1>9. ASSUME NEW h \in Handlers, NoteRefresh(h)
      PROVE  Covered(p)'
  <2>1. UNCHANGED texts /\ NobodySends /\ approvals' = approvals /\ campaign' = campaign
    BY <1>9, RefreshStep, EndsQuietly
  <2> QED
    BY <1>3, <1>4, <2>1 DEF Spare
<1>10. ASSUME NEW h \in Handlers, Dispatch(h)
       PROVE  Covered(p)'
  <2>1. /\ NobodySends /\ approvals' = approvals /\ campaign' = campaign
        /\ request[h].what \in Replies
        /\ \E q \in Phones :
             texts' = texts \/ texts' = Append(texts, [phone |-> q, by |-> request[h].what])
    BY <1>10, DispatchStep DEF NobodySends, campaignVars
  <2>2. TextsTo(p)' = TextsTo(p)
    <3>1. PICK q \in Phones :
             texts' = texts \/ texts' = Append(texts, [phone |-> q, by |-> request[h].what])
      BY <2>1
    <3> DEFINE x == [phone |-> q, by |-> request[h].what]
    <3>2. x \in Texts /\ x.by \notin Contacts
      BY <2>1, SmsAssumption DEF Texts
    <3>3. texts' = texts \/ texts' = Append(texts, x)
      BY <3>1
    <3>4. texts \in Seq(Texts)
      BY TypeParts DEF Base, OutboxTyped
    <3> HIDE DEF x
    <3>5. CASE texts' = texts
      BY <3>5 DEF TextsTo
    <3>6. CASE texts' = Append(texts, x)
      <4>1. Len(texts') = Len(texts) + 1 /\ Len(texts) \in Nat /\ texts'[Len(texts) + 1] = x
            /\ \A i \in 1 .. Len(texts) : texts'[i] = texts[i]
        BY <3>2, <3>4, <3>6
      <4> QED
        BY <3>2, <4>1 DEF TextsTo
    <3> QED
      BY <3>3, <3>5, <3>6
  <2>3. Owing(p)' \subseteq Owing(p)
    BY <1>2, <2>1, OwingShrinks DEF NobodySends
  <2>4. Cardinality(TextsTo(p)) \in Nat
    BY TextsToFinite, TypeParts DEF Base, OutboxTyped
  <2> DEFINE S == Owing(p)  T == Owing(p)'
  <2>5. IsFiniteSet(S) /\ T \subseteq S
        /\ Cardinality(TextsTo(p)) + Cardinality(S) + Spare <= approvals
    BY <1>2, <2>3 DEF Covered
  <2> HIDE DEF S, T
  <2>6. IsFiniteSet(T) /\ Cardinality(T) \in Nat /\ Cardinality(S) \in Nat
        /\ Cardinality(T) <= Cardinality(S)
    BY <2>5, FewerMembers
  <2>7. Spare \in {0, 1} /\ Spare' = Spare
    BY <2>1 DEF Spare
  <2>8. Cardinality(TextsTo(p)) + Cardinality(T) + Spare <= approvals
    BY <1>3, <2>4, <2>5, <2>6, <2>7
  <2> QED
    BY <2>1, <2>2, <2>6, <2>7, <2>8 DEF Covered, T
<1> QED
  BY <1>2, <1>6, <1>7, <1>8, <1>9, <1>10, QuietOrCampaign, SendStaysCovered, LaunchStaysCovered
     DEF CampaignStep

LEMMA InitCovers == ASSUME Init PROVE ApprovalsCover
<1>1. ASSUME NEW p \in Phones
      PROVE  Owing(p) = {} /\ TextsTo(p) = {}
  <2>1. \A h \in Handlers : request[h].op # "send"
    BY DEF Init, Idle
  <2>2. Len(texts) = 0
    BY DEF Init
  <2> QED
    BY <2>1, <2>2 DEF Owing, TextsTo
<1>2. Spare = approvals /\ approvals \in {0, 1}
  BY DEF Init, Spare
<1>3. IsFiniteSet({}) /\ Cardinality({}) = 0
  BY FS_EmptySet
<1>4. 0 + 0 + Spare <= approvals
  BY <1>2
<1> QED
  BY <1>1, <1>3, <1>4, Zenon DEF ApprovalsCover, Covered

\* Nobody gets the campaign's text more often than the campaign was approved:
\* the texts sent, those a launch still owes and the approval not used yet are
\* covered by the approvals there were.
THEOREM EveryTextIsApproved == Spec => []TextsAreApproved
<1>1. ApprovalsCover /\ Base => TextsAreApproved
  <2>1. ASSUME ApprovalsCover, Base, NEW p \in Phones
        PROVE  Cardinality(TextsTo(p)) <= approvals
    <3>1. /\ IsFiniteSet(Owing(p))
          /\ Cardinality(TextsTo(p)) + Cardinality(Owing(p)) + Spare <= approvals
      BY <2>1 DEF ApprovalsCover, Covered
    <3>2. Cardinality(TextsTo(p)) \in Nat /\ Cardinality(Owing(p)) \in Nat
      BY <2>1, <3>1, TextsToFinite, FS_CardinalityType, TypeParts DEF Base, OutboxTyped
    <3>3. Spare \in {0, 1} /\ approvals \in Nat
      BY <2>1 DEF Spare, Base, TypeOK
    <3> QED
      BY <3>1, <3>2, <3>3
  <2> QED
    BY <2>1 DEF TextsAreApproved, TextsTo
<1>2. Init => ApprovalsCover
  BY InitCovers
<1>3. Base /\ ApprovalsCover /\ [Next]_vars => ApprovalsCover'
  BY CoverStays
<1> QED
  BY <1>1, <1>2, <1>3, BaseHolds, PTL DEF Spec

-----------------------------------------------------------------------------
(* Contacts that inbound messages make.                                    *)

\* The steps that neither look for a contact nor store a message.
InboxQuiet ==
    /\ \A c \in Contacts : contact'[c].phone = contact[c].phone
    /\ UNCHANGED thread
    /\ batches' \in Nat /\ batches' >= batches
    /\ \A g \in Handlers : request'[g] = request[g] \/ request'[g].op # "store"

LEMMA ContactFieldKept ==
    ASSUME Base, NEW c \in Contacts,
           Block(c) \/ \E consent \in {"opted_in", "opted_out"} : FormAnswer(c, consent)
    PROVE  \A d \in Contacts : contact'[d].phone = contact[d].phone
<1>1. contact \in [Contacts -> ContactRows]
  BY TypeParts DEF Base, InboxTyped
<1>2. CASE Block(c)
  <2> DEFINE row == [contact[c] EXCEPT !.blocked = TRUE]
  <2>1. contact' = [contact EXCEPT ![c] = row] /\ row.phone = contact[c].phone
    BY <1>1, <1>2 DEF Block, ContactRows
  <2> HIDE DEF row
  <2> QED
    BY <1>1, <2>1
<1>3. ASSUME NEW consent \in {"opted_in", "opted_out"}, FormAnswer(c, consent)
      PROVE  \A d \in Contacts : contact'[d].phone = contact[d].phone
  <2> DEFINE row == [contact[c] EXCEPT !.consent = consent]
  <2>1. contact' = [contact EXCEPT ![c] = row] /\ row.phone = contact[c].phone
    BY <1>1, <1>3 DEF FormAnswer, ContactRows
  <2> HIDE DEF row
  <2> QED
    BY <1>1, <2>1
<1> QED
  BY <1>2, <1>3

LEMMA InboxSteps ==
    ASSUME Base, [Next]_vars
    PROVE  InboxQuiet \/ \E h \in Handlers : Look(h) \/ Store(h)
<1>1. SUFFICES ASSUME \A h \in Handlers : ~ Look(h) /\ ~ Store(h)
               PROVE  InboxQuiet
  OBVIOUS
<1>2. ASSUME NEW g \in Handlers
      PROVE  request'[g] = request[g] \/ request'[g].op # "store"
  BY <1>1, WhatIsTakenUp DEF TookUp, Light
<1>3. batches \in Nat
  BY DEF Base, TypeOK
<1>4. /\ UNCHANGED contact \/ \E c \in Contacts :
            Block(c) \/ \E consent \in {"opted_in", "opted_out"} : FormAnswer(c, consent)
      /\ UNCHANGED thread
      /\ batches' = batches \/ batches' = batches + 1
  BY <1>1 DEF Next, Handle, FindBatch, CreateBatch, SeenBefore, Launch, SendNext, NoteResults,
     ReadRows, NoteRefresh, CheckReply, NoteReply, Dispatch, Settle, Abandon, Block, FormAnswer,
     Approve, Schedule, Cancel, Preview, DeliveryReport, inboxVars, vars
<1>5. \A c \in Contacts : contact'[c].phone = contact[c].phone
  BY <1>4, ContactFieldKept
<1> QED
  BY <1>2, <1>3, <1>4, <1>5 DEF InboxQuiet

\* The looking transaction: it waited until nobody stores for its batch.
LooksUp(h, c) ==
    /\ c \in Existing(From[request[h].what])
    /\ Hold(h, [request[h] EXCEPT !.op = "store", !.whom = c])

LEMMA LookStep ==
    ASSUME Base, NEW h \in Handlers, Look(h)
    PROVE  /\ request[h].op = "inbound" /\ request[h].what \in Inbound
           /\ From[request[h].what] \in Phones /\ request[h].batch \in 1 .. batches
           /\ \A g \in Handlers : g # h /\ request[g].op = "store" => request[g].batch # request[h].batch
           /\ UNCHANGED inboxVars
           /\ \E c : LooksUp(h, c)
<1>1. HandlerIsRight(h) /\ request[h].op = "inbound"
  BY DEF Base, HandlersAreRight, Look
<1> QED
  BY <1>1, SmsAssumption DEF Look, LooksUp, Serialized, HandlerIsRight

LEMMA LooksUpRequest ==
    ASSUME Base, NEW h \in Handlers, NEW c, LooksUp(h, c)
    PROVE  /\ request'[h].op = "store" /\ request'[h].what = request[h].what
           /\ request'[h].batch = request[h].batch /\ request'[h].whom = c
           /\ \A g \in Handlers : g # h => request'[g] = request[g]
<1> DEFINE r == [request[h] EXCEPT !.op = "store", !.whom = c]
<1>1. request[h] \in Requests
  BY DEF Base, RequestTyped
<1>2. r.op = "store" /\ r.what = request[h].what /\ r.batch = request[h].batch /\ r.whom = c
  BY <1>1 DEF Requests
<1>3. Hold(h, r)
  BY DEF LooksUp
<1> HIDE DEF r
<1>4. \A g \in Handlers : request'[g] = IF g = h THEN r ELSE request[g]
  BY <1>3, HoldsOneOnly
<1> QED
  BY <1>2, <1>4

\* A handler that stores for a batch does so alone.
LEMMA StoresStayApart ==
    ASSUME Base, StoresAreApart, [Next]_vars
    PROVE  StoresAreApart'
<1>1. CASE \A g \in Handlers : request'[g] = request[g] \/ request'[g].op # "store"
  BY <1>1 DEF StoresAreApart
<1>2. ASSUME NEW h \in Handlers, Look(h)
      PROVE  StoresAreApart'
  <2>1. PICK c : LooksUp(h, c)
    BY <1>2, LookStep
  <2>2. /\ request'[h].batch = request[h].batch
        /\ \A g \in Handlers : g # h => request'[g] = request[g]
    BY <2>1, LooksUpRequest
  <2>3. \A g \in Handlers : g # h /\ request[g].op = "store" => request[g].batch # request[h].batch
    BY <1>2, LookStep
  <2> QED
    BY <2>2, <2>3 DEF StoresAreApart
<1>3. ASSUME NEW h \in Handlers, Store(h)
      PROVE  \A g \in Handlers : request'[g] = request[g] \/ request'[g].op # "store"
  <2>1. Hold(h, Idle) /\ Idle.op # "store"
    BY <1>3 DEF Store, Release, Idle
  <2> QED
    BY <2>1, HoldsOneOnly
<1> QED
  BY <1>1, <1>2, <1>3, InboxSteps DEF InboxQuiet

\* As many handlers make a contact as have batches, at most.
MakersAreFew ==
    \A p \in Phones :
        /\ IsFiniteSet(Makers(p)) /\ Cardinality(Makers(p)) \in Nat
        /\ Cardinality(Makers(p)) <= batches

LEMMA MakersBounded == Base /\ StoresAreApart => MakersAreFew
<1> SUFFICES ASSUME Base, StoresAreApart, NEW p \in Phones
             PROVE  IsFiniteSet(Makers(p)) /\ Cardinality(Makers(p)) \in Nat
                    /\ Cardinality(Makers(p)) <= batches
  BY DEF MakersAreFew
<1> DEFINE f == [h \in Makers(p) |-> request[h].batch]
<1>1. batches \in Nat
  BY DEF Base, TypeOK
<1>2. ASSUME NEW h \in Makers(p)
      PROVE  request[h].batch \in 1 .. batches /\ h \in Handlers /\ request[h].op = "store"
  <2>1. h \in Handlers /\ request[h].op = "store"
    BY DEF Makers
  <2>2. HandlerIsRight(h)
    BY <2>1 DEF Base, HandlersAreRight
  <2> QED
    BY <2>1, <2>2 DEF HandlerIsRight
<1>3. f \in Injection(Makers(p), 1 .. batches)
  <2>1. f \in [Makers(p) -> 1 .. batches]
    BY <1>2
  <2>2. \A g, h \in Makers(p) : f[g] = f[h] => g = h
    BY <1>2 DEF StoresAreApart
  <2> HIDE DEF f
  <2> QED
    BY <2>1, <2>2 DEF Injection, IsInjective
<1>4. IsFiniteSet(1 .. batches) /\ Cardinality(1 .. batches) = batches
  BY <1>1, FS_Interval
<1> QED
  BY <1>3, <1>4, FS_Injection, FS_CardinalityType

\* Fewer makers, as many contacts, as many batches or more.
LEMMA StaysAccounted ==
    ASSUME Base, NEW p, Accounted(p), batches' \in Nat, batches' >= batches,
           Made(p)' = Made(p), Makers(p)' \subseteq Makers(p)
    PROVE  Accounted(p)'
<1> DEFINE S == Makers(p)  T == Makers(p)'  M == Made(p)
<1>1. IsFiniteSet(S) /\ IsFiniteSet(M) /\ T \subseteq S
      /\ Cardinality(M) + Cardinality(S) <= batches
  BY DEF Accounted
<1> HIDE DEF S, T, M
<1>2. IsFiniteSet(T) /\ Cardinality(T) \in Nat /\ Cardinality(S) \in Nat
      /\ Cardinality(T) <= Cardinality(S) /\ Cardinality(M) \in Nat
  BY <1>1, FewerMembers, FS_CardinalityType
<1>3. batches \in Nat
  BY DEF Base, TypeOK
<1>4. Cardinality(M) + Cardinality(T) <= batches'
  BY <1>1, <1>2, <1>3
<1> QED
  BY <1>1, <1>2, <1>4 DEF Accounted, T, M

LEMMA MadeSame ==
    ASSUME NEW p, \A c \in Contacts : contact'[c].phone = contact[c].phone
    PROVE  Made(p)' = Made(p)
BY DEF Made, With

LEMMA LookStaysAccounted ==
    ASSUME Base, Base', StoresAreApart', NEW h \in Handlers, Look(h), NEW p \in Phones, Accounted(p)
    PROVE  Accounted(p)'
<1>1. From[request[h].what] \in Phones /\ UNCHANGED inboxVars
  BY LookStep
<1>2. PICK c : LooksUp(h, c)
  BY LookStep
<1>3. /\ request'[h].op = "store" /\ request'[h].what = request[h].what /\ request'[h].whom = c
      /\ \A g \in Handlers : g # h => request'[g] = request[g]
  BY <1>2, LooksUpRequest
<1>4. Made(p)' = Made(p) /\ batches' = batches /\ batches \in Nat
  BY <1>1, MadeSame DEF inboxVars, Base, TypeOK
<1>5. CASE c # Nobody \/ From[request[h].what] # p
  <2>1. Makers(p)' \subseteq Makers(p)
    BY <1>3, <1>5 DEF Makers
  <2> QED
    BY <1>4, <2>1, StaysAccounted
<1>6. CASE c = Nobody /\ From[request[h].what] = p
  <2>1. With(p) = {}
    BY <1>1, <1>2, <1>6, ExistingHasPhone DEF LooksUp
  <2>2. Made(p) = {}
    BY <2>1 DEF Made
  <2>3. IsFiniteSet({}) /\ Cardinality({}) = 0
    BY FS_EmptySet
  <2>4. /\ IsFiniteSet(Makers(p)') /\ Cardinality(Makers(p)') \in Nat
        /\ Cardinality(Makers(p)') <= batches'
    <3>1. (Base /\ StoresAreApart => MakersAreFew)'
      BY MakersBounded, PTL
    <3>2. MakersAreFew'
      BY <3>1
    <3> QED
      BY <3>2, Zenon DEF MakersAreFew
  <2>5. 0 + Cardinality(Makers(p)') <= batches'
    BY <2>4
  <2>6. IsFiniteSet(Made(p)') /\ Cardinality(Made(p)') = 0
    BY <1>4, <2>2, <2>3
  <2> QED
    BY <2>4, <2>5, <2>6, Zenon DEF Accounted
<1> QED
  BY <1>5, <1>6

LEMMA StoreStaysAccounted ==
    ASSUME Base, NEW h \in Handlers, Store(h), NEW p \in Phones, Accounted(p)
    PROVE  Accounted(p)'
<1> DEFINE q == From[request[h].what]
<1>1. request[h].op = "store" /\ q \in Phones /\ Release(h) /\ batches' = batches
  BY StoreStep
<1>2. PICK c : StoredAs(h, c)
  BY StoreStep
<1>3. /\ c \in Contacts \cup {Nobody}
      /\ c # Nobody => contact[c].phone = q \/ contact[c].phone = Nobody
      /\ request[h].whom # Nobody => c = request[h].whom
      /\ (request[h].whom = Nobody /\ c # Nobody) => c \in Newcomers /\ contact[c] = Absent
      /\ c # Nobody => contact' = [contact EXCEPT ![c].phone = q,
                         ![c].consent = ConsentAfter(Word[request[h].what], @)]
      /\ c = Nobody => contact' = contact
  BY <1>1, <1>2, SenderStep
<1>4. contact \in [Contacts -> ContactRows] /\ batches \in Nat
  BY TypeParts DEF Base, InboxTyped
<1>5. Hold(h, Idle) /\ Idle.op # "store"
  BY <1>1 DEF Release, Idle
<1>6. \A g \in Handlers : request'[g] = IF g = h THEN Idle ELSE request[g]
  BY <1>5, HoldsOneOnly
<1>7. Makers(p)' \subseteq Makers(p) \ {h}
  BY <1>5, <1>6 DEF Makers
<1> HIDE DEF q
<1>8. c # Nobody => /\ contact'[c].phone = q
                    /\ \A d \in Contacts : d # c => contact'[d] = contact[d]
  BY <1>3, <1>4 DEF ContactRows
<1>9. CASE \A d \in Contacts : contact'[d].phone = contact[d].phone
  BY <1>1, <1>4, <1>7, <1>9, MadeSame, StaysAccounted
<1>10. CASE ~ \A d \in Contacts : contact'[d].phone = contact[d].phone
  <2>1. c # Nobody /\ contact[c].phone # q
    BY <1>3, <1>8, <1>10
  <2>2. request[h].whom = Nobody
    <3>1. HandlerIsRight(h)
      BY DEF Base, HandlersAreRight
    <3> QED
      BY <1>1, <1>3, <2>1, <3>1 DEF HandlerIsRight, q
  <2>3. c \in Newcomers
    BY <1>3, <2>1, <2>2
  <2>4. CASE p # q
    <3>1. Made(p)' = Made(p)
      <4>1. contact[c].phone # p /\ contact'[c].phone # p
        BY <1>3, <1>8, <2>1, <2>4, SmsAssumption
      <4> QED
        BY <1>8, <2>1, <4>1 DEF Made, With
    <3> QED
      BY <1>1, <1>4, <1>7, <3>1, StaysAccounted
  <2>5. CASE p = q
    <3>1. h \in Makers(p)
      BY <1>1, <2>2, <2>5 DEF Makers, q
    <3>2. Made(p)' \subseteq Made(p) \cup {c}
      BY <1>8, <2>1 DEF Made, With
    <3> DEFINE S == Makers(p)  T == Makers(p)'  M == Made(p)  N == Made(p)'
    <3>3. IsFiniteSet(S) /\ IsFiniteSet(M) /\ T \subseteq S \ {h} /\ h \in S
          /\ N \subseteq M \cup {c} /\ Cardinality(M) + Cardinality(S) <= batches
      BY <1>7, <3>1, <3>2 DEF Accounted
    <3> HIDE DEF S, T, M, N
    <3>4. IsFiniteSet(T) /\ Cardinality(T) \in Nat /\ Cardinality(S) \in Nat
          /\ Cardinality(T) + 1 <= Cardinality(S)
      BY <3>3, OneLess
    <3>5. IsFiniteSet(N) /\ Cardinality(N) \in Nat /\ Cardinality(M) \in Nat
          /\ Cardinality(N) <= Cardinality(M) + 1
      BY <3>3, OneMore
    <3>6. Cardinality(N) + Cardinality(T) <= batches'
      BY <1>1, <1>4, <3>3, <3>4, <3>5
    <3> QED
      BY <3>4, <3>5, <3>6 DEF Accounted, T, N
  <2> QED
    BY <2>4, <2>5
<1> QED
  BY <1>9, <1>10

LEMMA BatchesStayCovering ==
    ASSUME Base, Base', StoresAreApart, StoresAreApart', BatchesCover, [Next]_vars
    PROVE  BatchesCover'
<1>1. SUFFICES ASSUME NEW p \in Phones
               PROVE  Accounted(p)'
  BY DEF BatchesCover, Accounted
<1>2. Accounted(p)
  BY DEF BatchesCover, Accounted
<1>3. CASE InboxQuiet
  <2>1. Made(p)' = Made(p)
    BY <1>3, MadeSame DEF InboxQuiet
  <2>2. Makers(p)' \subseteq Makers(p)
    BY <1>3 DEF Makers, InboxQuiet
  <2> QED
    BY <1>2, <1>3, <2>1, <2>2, StaysAccounted DEF InboxQuiet
<1> QED
  BY <1>2, <1>3, InboxSteps, LookStaysAccounted, StoreStaysAccounted

LEMMA InitAccounts == ASSUME Init PROVE StoresAreApart /\ BatchesCover
<1>1. \A h \in Handlers : request[h].op # "store"
  BY DEF Init, Idle
<1>2. ASSUME NEW p \in Phones
      PROVE  Made(p) = {} /\ Makers(p) = {}
  <2>1. Makers(p) = {}
    BY <1>1 DEF Makers
  <2>2. \A c \in Newcomers : c \in Contacts /\ contact[c].phone # p
    <3>1. ASSUME NEW c \in Newcomers
          PROVE  c \in Contacts /\ c \notin Known
      BY SmsAssumption DEF Contacts
    <3>2. Absent.phone # p
      BY SmsAssumption DEF Absent
    <3> QED
      BY <3>1, <3>2 DEF Init
  <2> QED
    BY <2>1, <2>2 DEF Made, With
<1>3. IsFiniteSet({}) /\ Cardinality({}) = 0
  BY FS_EmptySet
<1>4. 0 + 0 <= batches
  <2>1. batches = 0
    BY DEF Init
  <2> QED
    BY <2>1
<1> QED
  BY <1>1, <1>2, <1>3, <1>4, Zenon DEF StoresAreApart, BatchesCover, Accounted

LEMMA InboxAccounted == Spec => [](StoresAreApart /\ BatchesCover)
<1>1. Init => StoresAreApart /\ BatchesCover
  BY InitAccounts
<1>2. Base /\ Base' /\ StoresAreApart /\ BatchesCover /\ [Next]_vars => (StoresAreApart /\ BatchesCover)'
  BY StoresStayApart, BatchesStayCovering
<1> QED
  BY <1>1, <1>2, BaseHolds, PTL DEF Spec

\* Messages of one unknown phone that arrive together make no more contacts
\* than the day has batches: whoever may still make one found nobody under a
\* batch of its own.
THEOREM NoMoreThanBatches == Spec => []NewcomersPerBatch
<1>1. ASSUME Base, BatchesCover, NEW p \in Phones
      PROVE  Cardinality(With(p) \cap Newcomers) <= batches
  <2>1. Accounted(p)
    BY <1>1 DEF BatchesCover, Accounted
  <2>2. Cardinality(Made(p)) \in Nat /\ Cardinality(Makers(p)) \in Nat /\ batches \in Nat
    BY <1>1, <2>1, FS_CardinalityType DEF Accounted, Base, TypeOK
  <2>3. Cardinality(Made(p)) <= batches
    BY <2>1, <2>2 DEF Accounted
  <2> QED
    BY <2>3 DEF Made
<1>2. Base /\ StoresAreApart /\ BatchesCover => NewcomersPerBatch
  BY <1>1 DEF NewcomersPerBatch
<1> QED
  BY <1>2, BaseHolds, InboxAccounted, PTL

-----------------------------------------------------------------------------
(* The last word about consent.                                            *)

LEMMA ConsentSteps ==
    ASSUME Base, [Next]_vars
    PROVE  \/ UNCHANGED <<contact, thread, lastWord, batches>>
           \/ UNCHANGED <<contact, thread, lastWord>> /\ batches' = batches + 1
           \/ \E c \in Contacts :
                Block(c) \/ \E consent \in {"opted_in", "opted_out"} : FormAnswer(c, consent)
           \/ \E h \in Handlers : Store(h)
BY DEF Next, Handle, FindBatch, CreateBatch, Look, SeenBefore, Launch, SendNext, NoteResults,
   ReadRows, NoteRefresh, CheckReply, NoteReply, Dispatch, Settle, Abandon,
   Approve, Schedule, Cancel, Preview, DeliveryReport, inboxVars, vars

\* With one batch, the handler that stores is alone.
LEMMA StoresAlone ==
    ASSUME Base, StoresAreApart, batches <= 1, NEW g \in Handlers, NEW h \in Handlers,
           request[g].op = "store", request[h].op = "store"
    PROVE  g = h
<1>1. HandlerIsRight(g) /\ HandlerIsRight(h) /\ batches \in Nat
  BY DEF Base, HandlersAreRight, TypeOK
<1>2. request[g].batch \in 1 .. batches /\ request[h].batch \in 1 .. batches
  BY <1>1 DEF HandlerIsRight
<1>3. request[g].batch = request[h].batch
  BY <1>1, <1>2
<1> QED
  BY <1>3 DEF StoresAreApart

LEMMA ThreadStaysKnown ==
    ASSUME Base, StoresAreApart, StoreKnowsThread, [Next]_vars
    PROVE  StoreKnowsThread'
<1>1. CASE InboxQuiet
  <2>1. batches \in Nat /\ (batches' <= 1 => batches <= 1)
    BY <1>1 DEF InboxQuiet, Base, TypeOK
  <2> QED
    BY <1>1, <2>1 DEF InboxQuiet, StoreKnowsThread
<1>2. ASSUME NEW h \in Handlers, Look(h)
      PROVE  StoreKnowsThread'
  <2>1. PICK c : LooksUp(h, c)
    BY <1>2, LookStep
  <2>2. UNCHANGED inboxVars /\ From[request[h].what] \in Phones
    BY <1>2, LookStep
  <2>3. thread[From[request[h].what]] # Nobody => c = thread[From[request[h].what]]
    BY <2>1, <2>2, ExistingHasPhone DEF LooksUp
  <2>4. /\ request'[h].what = request[h].what /\ request'[h].whom = c
        /\ \A g \in Handlers : g # h => request'[g] = request[g]
    BY <2>1, LooksUpRequest
  <2> QED
    BY <2>2, <2>3, <2>4 DEF StoreKnowsThread, inboxVars
<1>3. ASSUME NEW h \in Handlers, Store(h)
      PROVE  StoreKnowsThread'
  <2>1. request[h].op = "store" /\ batches' = batches /\ Hold(h, Idle)
    BY <1>3, StoreStep DEF Release
  <2>2. Idle.op # "store"
    BY DEF Idle
  <2>3. \A g \in Handlers : request'[g] = IF g = h THEN Idle ELSE request[g]
    BY <2>1, HoldsOneOnly
  <2>4. ASSUME batches' <= 1, NEW g \in Handlers, request'[g].op = "store"
        PROVE  FALSE
    <3>1. g # h /\ request[g].op = "store"
      BY <2>2, <2>3, <2>4
    <3> QED
      BY <2>1, <2>4, <3>1, StoresAlone
  <2> QED
    BY <2>4 DEF StoreKnowsThread
<1> QED
  BY <1>1, <1>2, <1>3, InboxSteps

Heard(p) ==
    lastWord[p] = "stop" =>
        thread[p] # Nobody /\ contact[thread[p]].consent = "opted_out"

\* The contact of a conversation has its phone.
LEMMA ThreadContact ==
    ASSUME Base, NEW p \in Phones, thread[p] # Nobody
    PROVE  thread[p] \in Contacts /\ contact[thread[p]].phone = p
BY TypeParts DEF Base, InboxTyped, PhonesAreRight

LEMMA FormStaysHeard ==
    ASSUME Base, NEW c \in Contacts, NEW consent \in {"opted_in", "opted_out"},
           FormAnswer(c, consent), NEW p \in Phones, Heard(p)
    PROVE  Heard(p)'
<1> DEFINE row == [contact[c] EXCEPT !.consent = consent]
<1>1. contact \in [Contacts -> ContactRows] /\ lastWord \in [Phones -> {"none", "stop", "start"}]
  BY TypeParts DEF Base, InboxTyped
<1>2. contact' = [contact EXCEPT ![c] = row] /\ row.consent = consent
  BY <1>1 DEF FormAnswer, ContactRows
<1> HIDE DEF row
<1>3. contact'[c].consent = consent /\ \A d \in Contacts : d # c => contact'[d] = contact[d]
  BY <1>1, <1>2
<1>4. UNCHANGED thread /\ lastWord' = [lastWord EXCEPT ![contact[c].phone] =
                      IF consent = "opted_in" THEN "start" ELSE @]
  BY DEF FormAnswer
<1>5. SUFFICES ASSUME lastWord'[p] = "stop"
               PROVE  thread[p] # Nobody /\ contact'[thread[p]].consent = "opted_out"
  BY <1>4 DEF Heard
<1>6. lastWord[p] = "stop" /\ ~ (consent = "opted_in" /\ p = contact[c].phone)
  BY <1>1, <1>4, <1>5
<1>7. thread[p] # Nobody /\ contact[thread[p]].consent = "opted_out"
      /\ thread[p] \in Contacts /\ contact[thread[p]].phone = p
  BY <1>6, ThreadContact DEF Heard
<1> QED
  BY <1>3, <1>6, <1>7

LEMMA BlockStaysHeard ==
    ASSUME Base, NEW c \in Contacts, Block(c), NEW p \in Phones, Heard(p)
    PROVE  Heard(p)'
<1> DEFINE row == [contact[c] EXCEPT !.blocked = TRUE]
<1>1. contact \in [Contacts -> ContactRows]
  BY TypeParts DEF Base, InboxTyped
<1>2. contact' = [contact EXCEPT ![c] = row] /\ row.consent = contact[c].consent
  BY <1>1 DEF Block, ContactRows
<1> HIDE DEF row
<1>3. \A d \in Contacts : contact'[d].consent = contact[d].consent
  BY <1>1, <1>2
<1>4. UNCHANGED <<thread, lastWord>>
  BY DEF Block
<1> QED
  BY <1>3, <1>4, ThreadContact DEF Heard

LEMMA StoreStaysHeard ==
    ASSUME Base, StoreKnowsThread, batches <= 1, NEW h \in Handlers, Store(h),
           NEW p \in Phones, Heard(p)
    PROVE  Heard(p)'
<1> DEFINE q == From[request[h].what]
           w == Word[request[h].what]
<1>1. request[h].op = "store" /\ q \in Phones /\ w \in Words
      /\ lastWord' = [lastWord EXCEPT ![q] = IF w \in {"stop", "start"} THEN w ELSE @]
  BY StoreStep
<1>2. PICK c : StoredAs(h, c)
  BY StoreStep
<1>3. /\ c \in Contacts \cup {Nobody}
      /\ c # Nobody => contact[c].phone = q \/ contact[c].phone = Nobody
      /\ request[h].whom # Nobody => c = request[h].whom
      /\ c # Nobody => contact' = [contact EXCEPT ![c].phone = q, ![c].consent = ConsentAfter(w, @)]
      /\ c = Nobody => contact' = contact /\ w = "long"
      /\ thread' = [thread EXCEPT ![q] = IF c # Nobody THEN c ELSE @]
  BY <1>1, <1>2, SenderStep DEF StoredAs
<1>4. contact \in [Contacts -> ContactRows] /\ lastWord \in [Phones -> {"none", "stop", "start"}]
      /\ thread \in [Phones -> Contacts \cup {Nobody}]
  BY TypeParts DEF Base, InboxTyped
<1>5. thread[q] # Nobody => request[h].whom = thread[q]
  BY <1>1 DEF StoreKnowsThread
<1> HIDE DEF q, w
<1>6. c # Nobody => /\ contact'[c].consent = ConsentAfter(w, contact[c].consent)
                    /\ \A d \in Contacts : d # c => contact'[d] = contact[d]
  BY <1>3, <1>4 DEF ContactRows
<1>7. SUFFICES ASSUME lastWord'[p] = "stop"
               PROVE  thread'[p] # Nobody /\ contact'[thread'[p]].consent = "opted_out"
  BY DEF Heard
<1>8. CASE p # q
  <2>1. lastWord[p] = "stop" /\ thread'[p] = thread[p]
    BY <1>1, <1>3, <1>4, <1>7, <1>8
  <2>2. thread[p] # Nobody /\ contact[thread[p]].consent = "opted_out"
        /\ thread[p] \in Contacts /\ contact[thread[p]].phone = p
    BY <2>1, ThreadContact DEF Heard
  <2>3. c # thread[p]
    BY <1>3, <1>8, <2>2, SmsAssumption
  <2> QED
    BY <1>3, <1>6, <2>1, <2>2, <2>3
<1>9. CASE p = q /\ w = "stop"
  <2>1. c # Nobody /\ thread'[p] = c
    BY <1>3, <1>4, <1>9
  <2>2. ConsentAfter(w, contact[c].consent) = "opted_out"
    BY <1>9 DEF ConsentAfter
  <2> QED
    BY <1>6, <2>1, <2>2
<1>10. CASE p = q /\ w # "stop"
  <2>1. w \notin {"stop", "start"} /\ lastWord[p] = "stop"
    BY <1>1, <1>4, <1>7, <1>10
  <2>2. thread[p] # Nobody /\ contact[thread[p]].consent = "opted_out"
    BY <2>1 DEF Heard
  <2>3. c = thread[p] /\ thread'[p] = c
    BY <1>3, <1>4, <1>5, <1>10, <2>2
  <2>4. ConsentAfter(w, contact[c].consent) = contact[c].consent
    BY <2>1 DEF ConsentAfter
  <2> QED
    BY <1>6, <2>2, <2>3, <2>4
<1> QED
  BY <1>8, <1>9, <1>10

LEMMA StopStaysHeard ==
    ASSUME Base, StoreKnowsThread, StopIsHeard, [Next]_vars
    PROVE  StopIsHeard'
<1>1. SUFFICES ASSUME batches' <= 1, NEW p \in Phones
               PROVE  Heard(p)'
  BY DEF StopIsHeard, Heard
<1>2. batches <= 1
  BY <1>1, InboxSteps, LookStep, StoreStep DEF InboxQuiet, Base, TypeOK, inboxVars
<1>3. Heard(p)
  BY <1>2 DEF StopIsHeard, Heard
<1>4. CASE UNCHANGED <<contact, thread, lastWord>>
  BY <1>3, <1>4 DEF Heard
<1> QED
  BY <1>2, <1>3, <1>4, ConsentSteps, FormStaysHeard, BlockStaysHeard, StoreStaysHeard

\* With one batch a day: whoever's last word was STOP, the contact of their
\* conversation has opted out, also when several messages came at once.
THEOREM StopsAreHeard == Spec => []StopIsHeard
<1>1. Init => StoreKnowsThread /\ StopIsHeard
  <2>1. ASSUME Init
        PROVE  (\A h \in Handlers : request[h].op # "store") /\ \A p \in Phones : lastWord[p] # "stop"
    BY <2>1 DEF Init, Idle
  <2> QED
    BY <2>1 DEF StoreKnowsThread, StopIsHeard
<1>2. Base /\ StoresAreApart /\ BatchesCover /\ StoreKnowsThread /\ StopIsHeard /\ [Next]_vars
        => (StoreKnowsThread /\ StopIsHeard)'
  BY ThreadStaysKnown, StopStaysHeard
<1> QED
  BY <1>1, <1>2, BaseHolds, InboxAccounted, PTL DEF Spec

-----------------------------------------------------------------------------
(* One text for each reply.                                                *)

\* A text that is by somebody else leaves a reply's texts alone.
LEMMA SentBySame ==
    ASSUME Base, NEW r, NEW x \in Texts, x.by # r, texts' = texts \/ texts' = Append(texts, x)
    PROVE  SentBy(r)' = SentBy(r)
<1>1. texts \in Seq(Texts)
  BY TypeParts DEF Base, OutboxTyped
<1>2. CASE texts' = texts
  BY <1>2 DEF SentBy
<1>3. CASE texts' = Append(texts, x)
  <2>1. Len(texts') = Len(texts) + 1 /\ Len(texts) \in Nat /\ texts'[Len(texts) + 1] = x
        /\ \A i \in 1 .. Len(texts) : texts'[i] = texts[i]
    BY <1>1, <1>3
  <2> QED
    BY <2>1 DEF SentBy
<1> QED
  BY <1>2, <1>3

\* Nobody begins to send this reply.
LEMMA NoNewSender ==
    ASSUME Base, NEW r \in Replies, SenderIsRight(r),
           \A g \in Handlers : request'[g] = request[g] \/ ~ Sends(g, r)',
           reply'[r] = NoReply => reply[r] = NoReply, SentBy(r)' = SentBy(r)
    PROVE  SenderIsRight(r)'
<1>1. ASSUME NEW g \in Handlers, Sends(g, r)'
      PROVE  request'[g] = request[g] /\ Sends(g, r)
  BY <1>1 DEF Sends
<1>2. \A g, h \in Handlers : Sends(g, r)' /\ Sends(h, r)' => g = h
  BY <1>1 DEF SenderIsRight
<1>3. \A h \in Handlers : Sends(h, r)' => reply'[r] # NoReply
  BY <1>1 DEF SenderIsRight
<1>4. ASSUME NEW h \in Handlers, request'[h].op = "dispatch", request'[h].what = r
      PROVE  SentBy(r) = {}
  <2>1. Sends(h, r)'
    BY <1>4 DEF Sends
  <2> QED
    BY <1>1, <1>4, <2>1 DEF SenderIsRight
<1>5. (reply'[r] = NoReply => SentBy(r) = {}) /\ \A t, u \in SentBy(r) : t = u
  BY DEF SenderIsRight
<1> QED
  BY <1>2, <1>3, <1>4, <1>5 DEF SenderIsRight

\* Only the handler that inserts the row of a request id, and the one that has,
\* are senders of that reply.
LEMMA OthersDoNotSend ==
    ASSUME Base, [Next]_vars, NEW r \in Replies, NEW g \in Handlers,
           ~ ((NoteReply(g) \/ Dispatch(g)) /\ request[g].what = r)
    PROVE  request'[g] = request[g] \/ ~ Sends(g, r)'
<1>1. TookUp(g)
  BY WhatIsTakenUp
<1>2. ASSUME NoteReply(g), request'[g].op = "dispatch"
      PROVE  request'[g].what = request[g].what
  <2>1. ~ Release(g)
    <3>1. Idle.op # "dispatch"
      BY DEF Idle
    <3> QED
      BY <1>2, <3>1, EndsQuietly
  <2> QED
    BY <1>2, <2>1, NoteReplyStep, DispatchRequest
<1>3. Dispatch(g) => request'[g].what = request[g].what
  BY DispatchStep
<1> QED
  BY <1>1, <1>2, <1>3 DEF TookUp, Light, Sends

LEMMA RepliesStep ==
    ASSUME Base, [Next]_vars, NEW r \in Replies,
           \A h \in Handlers : ~ (NoteReply(h) /\ request[h].what = r)
    PROVE  reply'[r] = NoReply => reply[r] = NoReply
<1>1. ASSUME NEW h \in Handlers, NoteReply(h)
      PROVE  reply'[r] = NoReply => reply[r] = NoReply
  <2>1. request[h].what # r /\ request[h].what \in Replies
    BY <1>1, NoteReplyStep
  <2>2. OutboxTyped
    BY TypeParts DEF Base
  <2> QED
    BY <1>1, <2>1, <2>2, NoteReplyStep, InsertedRow
<1>2. ASSUME NEW h \in Handlers, Settle(h)
      PROVE  reply'[r] = NoReply => reply[r] = NoReply
  BY <1>2, SettleStep
<1>3. ASSUME NEW q \in Replies, DeliveryReport(q)
      PROVE  reply'[r] = NoReply => reply[r] = NoReply
  BY <1>3, ReportStep
<1>4. \/ UNCHANGED reply
      \/ \E h \in Handlers : NoteReply(h) \/ Settle(h)
      \/ \E q \in Replies : DeliveryReport(q)
  BY DEF Next, Handle, FindBatch, CreateBatch, Look, SeenBefore, Store, Launch, SendNext, NoteResults,
     ReadRows, NoteRefresh, CheckReply, Dispatch, Abandon, Block, FormAnswer,
     Approve, Schedule, Cancel, Preview, vars
<1> QED
  BY <1>1, <1>2, <1>3, <1>4

LEMMA SentByStep ==
    ASSUME Base, [Next]_vars, NEW r \in Replies,
           \A h \in Handlers : ~ (Dispatch(h) /\ request[h].what = r)
    PROVE  SentBy(r)' = SentBy(r)
<1>1. CASE UNCHANGED texts
  BY <1>1 DEF SentBy
<1>2. ASSUME NEW h \in Handlers, SendNext(h)
      PROVE  SentBy(r)' = SentBy(r)
  <2>1. PICK c \in request[h].todo, t \in Results : SendsTo(h, c, t)
    BY <1>2, SendStep
  <2>2. /\ c \in Contacts /\ contact[c].phone \in Phones
        /\ texts' = texts \/ texts' = Append(texts, [phone |-> contact[c].phone, by |-> c])
    BY <1>2, <2>1, SendStep, SendsToStep
  <2> DEFINE x == [phone |-> contact[c].phone, by |-> c]
  <2>3. x \in Texts /\ x.by # r
    BY <2>2, SmsAssumption DEF Texts
  <2>4. texts' = texts \/ texts' = Append(texts, x)
    BY <2>2
  <2> HIDE DEF x
  <2> QED
    BY <2>3, <2>4, SentBySame
<1>3. ASSUME NEW h \in Handlers, Dispatch(h)
      PROVE  SentBy(r)' = SentBy(r)
  <2>1. request[h].what \in Replies /\ request[h].what # r
    BY <1>3, DispatchStep
  <2>2. PICK p \in Phones :
          texts' = texts \/ texts' = Append(texts, [phone |-> p, by |-> request[h].what])
    BY <1>3, DispatchStep
  <2> DEFINE x == [phone |-> p, by |-> request[h].what]
  <2>3. x \in Texts /\ x.by # r
    BY <2>1 DEF Texts
  <2>4. texts' = texts \/ texts' = Append(texts, x)
    BY <2>2
  <2> HIDE DEF x
  <2> QED
    BY <2>3, <2>4, SentBySame
<1>4. \/ UNCHANGED texts
      \/ \E h \in Handlers : SendNext(h) \/ Dispatch(h)
  BY DEF Next, Handle, FindBatch, CreateBatch, Look, SeenBefore, Store, Launch, NoteResults,
     ReadRows, NoteRefresh, CheckReply, NoteReply, Settle, Abandon, Block, FormAnswer,
     Approve, Schedule, Cancel, Preview, DeliveryReport, vars
<1> QED
  BY <1>1, <1>2, <1>3, <1>4

\* The handler that inserts the row finds nobody who sends, and nothing sent.
LEMMA NotingStaysRight ==
    ASSUME Base, [Next]_vars, NEW h \in Handlers, NoteReply(h), NEW r \in Replies,
           request[h].what = r, SenderIsRight(r)
    PROVE  SenderIsRight(r)'
<1>1. UNCHANGED texts
  BY NoteReplyStep
<1>2. SentBy(r)' = SentBy(r)
  BY <1>1 DEF SentBy
<1>3. CASE Release(h) /\ UNCHANGED reply
  <2>1. Hold(h, Idle) /\ Idle.op \notin {"dispatch", "settle"}
    BY <1>3 DEF Release, Idle
  <2>2. \A g \in Handlers : request'[g] = IF g = h THEN Idle ELSE request[g]
    BY <2>1, HoldsOneOnly
  <2>3. \A g \in Handlers : request'[g] = request[g] \/ ~ Sends(g, r)'
    BY <2>1, <2>2 DEF Sends
  <2> QED
    BY <1>2, <1>3, <2>3, NoNewSender
<1>4. CASE reply[r] = NoReply /\ reply' = [reply EXCEPT ![r].status = "pending"]
           /\ Hold(h, [request[h] EXCEPT !.op = "dispatch"])
  <2>1. SentBy(r) = {} /\ \A g \in Handlers : ~ Sends(g, r)
    BY <1>4 DEF SenderIsRight
  <2>2. reply'[r] # NoReply
    BY <1>4, InsertedRow, TypeParts DEF Base
  <2>3. \A g \in Handlers : g # h => request'[g] = request[g]
    BY <1>4, DispatchRequest
  <2>4. \A g \in Handlers : Sends(g, r)' => g = h
    BY <2>1, <2>3 DEF Sends
  <2> QED
    BY <1>2, <2>1, <2>2, <2>4 DEF SenderIsRight
<1> QED
  BY <1>3, <1>4, NoteReplyStep

\* The handler that inserted it hands the carrier the first text.
LEMMA DispatchStaysRight ==
    ASSUME Base, [Next]_vars, NEW h \in Handlers, Dispatch(h), NEW r \in Replies,
           request[h].what = r, SenderIsRight(r)
    PROVE  SenderIsRight(r)'
<1>1. /\ request[h].op = "dispatch" /\ UNCHANGED reply
      /\ request'[h].op = "settle" /\ request'[h].what = r
      /\ \A g \in Handlers : g # h => request'[g] = request[g]
  BY DispatchStep
<1>2. Sends(h, r) /\ SentBy(r) = {} /\ reply[r] # NoReply
  BY <1>1 DEF SenderIsRight, Sends
<1>3. \A g \in Handlers : Sends(g, r) => g = h
  BY <1>2 DEF SenderIsRight
<1>4. \A g \in Handlers : Sends(g, r)' => g = h
  BY <1>1, <1>3 DEF Sends
<1>5. \A g \in Handlers : ~ (request'[g].op = "dispatch" /\ request'[g].what = r)
  BY <1>1, <1>4 DEF Sends
<1>6. \A t, u \in SentBy(r)' : t = u
  <2>1. PICK p \in Phones : texts' = texts \/ texts' = Append(texts, [phone |-> p, by |-> r])
    BY DispatchStep
  <2> DEFINE x == [phone |-> p, by |-> r]
  <2>2. x \in Texts
    BY DEF Texts
  <2>3. texts' = texts \/ texts' = Append(texts, x)
    BY <2>1
  <2>4. texts \in Seq(Texts)
    BY TypeParts DEF Base, OutboxTyped
  <2> HIDE DEF x
  <2>5. CASE texts' = texts
    BY <1>2, <2>5 DEF SentBy
  <2>6. CASE texts' = Append(texts, x)
    <3>1. Len(texts') = Len(texts) + 1 /\ Len(texts) \in Nat
          /\ \A i \in 1 .. Len(texts) : texts'[i] = texts[i]
      BY <2>2, <2>4, <2>6
    <3>2. \A i \in 1 .. Len(texts) : texts[i].by # r
      BY <1>2 DEF SentBy
    <3>3. \A t \in SentBy(r)' : t = Len(texts) + 1
      BY <3>1, <3>2 DEF SentBy
    <3> QED
      BY <3>3
  <2> QED
    BY <2>3, <2>5, <2>6
<1> QED
  BY <1>1, <1>2, <1>4, <1>5, <1>6 DEF SenderIsRight

LEMMA SenderStaysRight ==
    ASSUME Base, [Next]_vars, NEW r \in Replies, SenderIsRight(r)
    PROVE  SenderIsRight(r)'
<1>1. CASE \A h \in Handlers : ~ ((NoteReply(h) \/ Dispatch(h)) /\ request[h].what = r)
  <2>1. \A g \in Handlers : request'[g] = request[g] \/ ~ Sends(g, r)'
    BY <1>1, OthersDoNotSend
  <2>2. (reply'[r] = NoReply => reply[r] = NoReply) /\ SentBy(r)' = SentBy(r)
    BY <1>1, RepliesStep, SentByStep
  <2> QED
    BY <2>1, <2>2, NoNewSender
<1> QED
  BY <1>1, NotingStaysRight, DispatchStaysRight

\* However often a request for a reply is repeated, and whatever died on the
\* way, the carrier is handed at most one text for it.
THEOREM EachReplyOnce == Spec => []OneTextPerReply
<1>1. ASSUME Init
      PROVE  SendersAreRight
  <2>1. \A h \in Handlers : request[h].op \notin {"dispatch", "settle"}
    BY <1>1 DEF Init, Idle
  <2>2. Len(texts) = 0
    BY <1>1 DEF Init
  <2>3. \A r \in Replies : SentBy(r) = {}
    BY <2>2 DEF SentBy
  <2> QED
    BY <2>1, <2>3 DEF SendersAreRight, SenderIsRight, Sends
<1>2. ASSUME Base, SendersAreRight, [Next]_vars
      PROVE  SendersAreRight'
  BY <1>2, SenderStaysRight DEF SendersAreRight
<1>3. ASSUME SendersAreRight
      PROVE  OneTextPerReply
  <2>1. ASSUME NEW t \in 1 .. Len(texts), NEW u \in 1 .. Len(texts),
               texts[t].by = texts[u].by, texts[t].by \in Replies
        PROVE  t = u
    <3>1. t \in SentBy(texts[t].by) /\ u \in SentBy(texts[t].by)
      BY <2>1 DEF SentBy
    <3>2. SenderIsRight(texts[t].by)
      BY <1>3, <2>1 DEF SendersAreRight
    <3> QED
      BY <3>1, <3>2 DEF SenderIsRight
  <2> QED
    BY <2>1 DEF OneTextPerReply
<1> QED
  BY <1>1, <1>2, <1>3, BaseHolds, PTL DEF Spec

=============================================================================
