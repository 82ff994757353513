\* A page that failed once is captured on the second try.
SPECIFICATION FairSpec
CONSTANTS
    r1 = r1  r2 = r2  r3 = r3  c1 = c1  c2 = c2  p1 = p1  p2 = p2
    k1 = k1  k2 = k2  m1 = m1  w1 = w1  w2 = w2
    NoRequest = NoRequest  NoTxn = NoTxn
    Requests = {r1}
    Charges = {c1, c2}
    Tuition = {c1}
    FallsDue = {}
    ProviderIds = {p1}
    CollectKeys = {}
    RequestKeys = {}
    Workers = {w1}
    Surfaces = {"hosted"}
    Price <- TwoEach
    Plan <- FullPlan
    Credit <- NoCredit
    Source <- RegistrationSource
    WithBook = {}
    ProviderId <- OneId
    Misreported = {}
    Collect <- NoKeys
    PayRequest <- NoKeys
    NonPayment = {"failed"}
CHECK_DEADLOCK FALSE
PROPERTIES CapturedIsRecorded
