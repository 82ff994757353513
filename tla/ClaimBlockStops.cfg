\* One run at a time and one contact.
SPECIFICATION Spec
CONSTANTS
    h1 = h1  h2 = h2  c1 = c1  c2 = c2  e1 = e1  e2 = e2  None = None
    Handlers = {h1}
    Contacts = {c1}
    Enrollments = {e1}
    Steps = 2
    Drafts = {2}
    Delay = 1
    MaxTouches = 2
    Limit = 2
    Quiet = {1}
    MaxLists = 3
    MaxTime = 3
PROPERTIES BlockStops
