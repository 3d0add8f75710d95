CONSTANTS
    Orgs = {o1}
    Members = {m1}
    Requests = {r1}
    Links = {l1, l2}
    RowTTL = 1
    LinkTTL = 2
    MaxTime = 3
    MaxRows = 2
    None = None
SPECIFICATION Spec
CHECK_DEADLOCK FALSE
PROPERTY LinkLivesAnHour
