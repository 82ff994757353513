\* Two handlers, two contacts on one phone, one unknown phone that writes twice.
SPECIFICATION Spec
CONSTANTS
    h1 = h1  h2 = h2  p1 = p1  p2 = p2  a = a  b = b  n1 = n1  n2 = n2
    m1 = m1  m2 = m2  m3 = m3  r1 = r1  Nobody = Nobody
    Handlers = {h1, h2}
    Phones = {p1, p2}
    Known = {a, b}
    Newcomers = {n1, n2}
    Phone <- SharedPhone
    Inbound = {m1, m2, m3}
    From <- Senders
    Word <- Messages
    Replies = {r1}
    MaxApprovals = 2
    MaxWrites = 4
SYMMETRY Interchangeable
CHECK_DEADLOCK FALSE
INVARIANTS TypeOK TextsAreApproved RowsTellTheirTexts NewcomersPerBatch StopIsHeard OneTextPerReply
