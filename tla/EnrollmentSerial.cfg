CONSTANTS
    Users = {u1}
    Events = {e1}
    Requests = {r1}
    PaymentIds = {p1, p2}
    SeatIds = {s1, s2, s3}
    None = None
SPECIFICATION Spec
SYMMETRY Symmetry
CHECK_DEADLOCK FALSE
INVARIANTS SeatBacked OneSeatPerUser
