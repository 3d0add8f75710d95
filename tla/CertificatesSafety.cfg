CONSTANTS
    Users = {u1, u2}
    Events = {e1}
    Requests = {r1, r2}
    SeatIds = {s1, s2}
    CertIds = {c1, c2}
    MaxAttempts = 2
    MaxStalls = 1
    None = None
SPECIFICATION Spec
SYMMETRY Symmetry
CHECK_DEADLOCK FALSE
INVARIANTS CertificateFitsSeat  OneCertificatePerAttendee MailsBounded
 
