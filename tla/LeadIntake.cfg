\* Any three of two forms, two ads, three events of one visit and two WhatsApp
\* messages; ads and messages in two batches each.
SPECIFICATION Spec
CONSTANTS
    h1 = h1  h2 = h2  f1 = f1  f2 = f2  a1 = a1  a2 = a2  v1 = v1  v2 = v2  v3 = v3  m1 = m1  m2 = m2
    e1 = e1  e2 = e2  p1 = p1  visit = visit  None = None
    Forms = {f1, f2}
    Ads = {a1, a2}
    Events = {v1, v2, v3}
    Chats = {m1, m2}
    Emails = {e1, e2}
    Phones = {p1}
    Brings <- Submitted
    FollowUp = {v1, v2}
    Correlation <- OneVisit
    Known <- OneKnown
    Handlers = {h1, h2}
    Decisions = {"approved", "rejected"}
    MaxBatches = 2
    MaxArrivals = 3
    Twice = {f2, a2, m2}
    MaxLeads = 1
SYMMETRY Interchangeable
INVARIANTS TypeOK OneActiveOpportunity OneTaskPerKey OpensOnce TwinsPerBatch
PROPERTIES AttachedToActive ReviewIsFinal
