\* One registration on both card surfaces or paid by hand, two handlers that may crash.
SPECIFICATION FairSpec
CONSTANTS
    r1 = r1  r2 = r2  r3 = r3  c1 = c1  c2 = c2  p1 = p1  p2 = p2
    k1 = k1  k2 = k2  m1 = m1  w1 = w1  w2 = w2
    NoRequest = NoRequest  NoTxn = NoTxn
    Requests = {r1}
    Charges = {c1, c2}
    Tuition = {c1}
    FallsDue = {}
    ProviderIds = {p1}
    CollectKeys = {}
    RequestKeys = {m1}
    Workers = {w1, w2}
    Surfaces = {"hosted", "terminal"}
    Price <- TwoEach
    Plan <- FullPlan
    Credit <- OneCredit
    Source <- RegistrationSource
    WithBook = {r1}
    ProviderId <- OneId
    Misreported = {r1}
    Collect <- NoKeys
    PayRequest <- KeyForFirst
    NonPayment = {"failed", "canceled"}
CHECK_DEADLOCK FALSE
INVARIANTS BookFollowsMoney TypeOK OneProviderAttempt CaptureIsWhole
PROPERTIES NeverRegresses BooksAreFinal CapturedIsResolved
