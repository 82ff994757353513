\* Two runs at a time, two contacts that may be merged, quiet hours at time 1.
SPECIFICATION Spec
CONSTANTS
    h1 = h1  h2 = h2  c1 = c1  c2 = c2  e1 = e1  e2 = e2  None = None
    Handlers = {h1, h2}
    Contacts = {c1, c2}
    Enrollments = {e1, e2}
    Steps = 2
    Drafts = {2}
    Delay = 1
    MaxTouches = 2
    Limit = 1
    Quiet = {1}
    MaxLists = 3
    MaxTime = 2
SYMMETRY Interchangeable
INVARIANTS TypeOK EachStepOnce OneActiveEach
PROPERTIES StoppedStaysStopped
