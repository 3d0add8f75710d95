CONSTANTS
    Emails = {e1}
    Passwords = {p1, p2}
    OneLetter = {e1}
    Links = {l1}
    Requests = {r1}
    VerifyTTL = 2
    ResetTTL = 2
    MaxTime = 1
    MaxNotices = 1
    None = None
SPECIFICATION SmoothSpec
CHECK_DEADLOCK FALSE
PROPERTY MailIsHandedOver
