\* Two tabs, one of a manager; its class editor reloads it behind its back.
SPECIFICATION Spec
CONSTANTS
    t1 = t1  t2 = t2  s1 = s1  s2 = s2  present = present  absent = absent
    n1 = n1  why = why  Nil = Nil
    Tabs = {t1, t2}
    Managers = {t1}
    Refreshers = {t1}
    Flaky = {}
    Students = {s1}
    Marks = {present}
    Present = present
    Notes = {}
    Reasons = {why}
    MaxRevision = 3
INVARIANTS FreshPageIsRight
PROPERTIES KeepsRegister
