CONSTANTS
    Users = {u1, u2}
    Events = {e1}
    Requests = {r1, r2}
    PaymentIds = {p1, p2}
    SeatIds = {s1, s2}
    None = None
SPECIFICATION Spec
SYMMETRY Symmetry
CHECK_DEADLOCK FALSE
INVARIANTS NoFreeRide PaidOnlyIfCharged LinkedPaymentMatches NoOrphans
PROPERTIES ImplementsLedger 
