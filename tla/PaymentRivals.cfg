\* Three requests and manual payments compete for two tuition charges.
SPECIFICATION Spec
CONSTANTS
    r1 = r1  r2 = r2  r3 = r3  c1 = c1  c2 = c2  p1 = p1  p2 = p2
    k1 = k1  k2 = k2  m1 = m1  w1 = w1  w2 = w2
    NoRequest = NoRequest  NoTxn = NoTxn
    Requests = {r1, r2, r3}
    Charges = {c1, c2}
    Tuition = {c1, c2}
    FallsDue = {c1}
    ProviderIds = {p1, p2}
    CollectKeys = {k1, k2}
    RequestKeys = {m1}
    Workers = {w1, w2}
    Surfaces = {"hosted"}
    Price <- TwoEach
    Plan <- FullRivals
    Credit <- NoCredit
    Source <- RivalSources
    WithBook = {}
    ProviderId <- TwoIds
    Misreported = {}
    Collect <- HalvesOnCharge
    PayRequest <- KeyForThird
    NonPayment = {}
SYMMETRY TwoHandlers
CHECK_DEADLOCK FALSE
INVARIANTS CaptureIsWhole ChargesAddUp CompletedIsPaid
PROPERTIES KeepsPromise HostedAsksTheBalance
