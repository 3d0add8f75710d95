CONSTANTS
    Ids = {i1, i2}
    Emails = {e1, e2}
    Orgs = {o1, o2}
    Passwords = {p1, p2}
    Requests = {r1, r2}
    MaxTokens = 1
    None = None
SPECIFICATION Spec
CHECK_DEADLOCK FALSE
SYMMETRY Symmetry
INVARIANTS PasswordWasAsked LoginsEarned
 
