CONSTANTS
    Emails = {e1, e2}
    Passwords = {p1, p2}
    OneLetter = {}
    Links = {l1, l2}
    Requests = {r1, r2}
    VerifyTTL = 1
    ResetTTL = 1
    MaxTime = 2
    MaxNotices = 1
    None = None
SPECIFICATION Spec
CHECK_DEADLOCK FALSE
SYMMETRY Symmetry
INVARIANTS OneRegistration SessionsEarned WelcomesOverlap LedByMail
PROPERTY ResetLivesADay
