CONSTANTS
    Users = {u1}
    Events = {e1}
    Requests = {r1}
    SeatIds = {s1, s2}
    CertIds = {c1, c2}
    MaxAttempts = 2
    MaxStalls = 1
    None = None
SPECIFICATION SmoothSpec
CHECK_DEADLOCK FALSE
 
PROPERTIES EveryAttendeeServed EveryMailProcessed
