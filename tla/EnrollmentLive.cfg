CONSTANTS
    Users = {u1}
    Events = {e1}
    Requests = {r1, r2}
    PaymentIds = {p1}
    SeatIds = {s1, s2}
    None = None
SPECIFICATION SmoothSpec
CHECK_DEADLOCK FALSE
PROPERTIES ChargedVerifyIsServed PaymentBecomesPayable
