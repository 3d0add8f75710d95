CONSTANTS
    Users = {u1}
    Members = {m1}
    Events = {e1}
    Seats = {s1}
    Sockets = {k1}
    Messages = {x1, x2, x3}
    Requests = {r1, r2}
    None = None
SPECIFICATION Spec
CHECK_DEADLOCK FALSE
SYMMETRY Symmetry
INVARIANTS  RepliesAnswerUsers ReaderMissesNothing JoinerIsAdded TeamIsAdded
