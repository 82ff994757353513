\* A recurring task waits for an approval when it is completed.
SPECIFICATION Spec
CONSTANTS
    h1 = h1  h2 = h2  c1 = c1   r1 = r1
    Handlers = {h1, h2}
    Coordinators = {c1}
    Reviewers = {r1}
    Opening <- LeadAndRecurring
    Changes = {"start", "reopen", "complete"}
    MaxTasks = 3
    MaxApprovals = 2
    MaxArchives = 2
    MaxWrites = 4
SYMMETRY TwoHandlers
INVARIANTS PendingCanBeDecided
