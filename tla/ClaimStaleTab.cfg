\* A note saved twice lets a stale tab overwrite marks.
SPECIFICATION Spec
CONSTANTS
    t1 = t1  t2 = t2  s1 = s1  s2 = s2  present = present  absent = absent
    n1 = n1  why = why  Nil = Nil
    Tabs = {t1, t2}
    Managers = {}
    Refreshers = {}
    Flaky = {}
    Students = {s1, s2}
    Marks = {present}
    Present = present
    Notes = {n1}
    Reasons = {}
    MaxRevision = 4
PROPERTIES NoStaleOverwrite
