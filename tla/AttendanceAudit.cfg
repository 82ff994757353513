\* A manager marks, submits, reopens and corrects while students come and go.
SPECIFICATION Spec
CONSTANTS
    t1 = t1  t2 = t2  s1 = s1  s2 = s2  present = present  absent = absent
    n1 = n1  why = why  Nil = Nil
    Tabs = {t1}
    Managers = {t1}
    Refreshers = {}
    Flaky = {t1}
    Students = {s1, s2}
    Marks = {present, absent}
    Present = present
    Notes = {n1}
    Reasons = {why}
    MaxRevision = 5
SYMMETRY TwoStudents
INVARIANTS TypeOK AuditIsComplete
PROPERTIES SubmittedIsComplete
