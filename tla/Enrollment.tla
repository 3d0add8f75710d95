------------------------------ MODULE Enrollment ------------------------------
(***************************************************************************)
(* How a user gets a seat at an event: the free join, the Khalti payment    *)
(* and its verification, against the organizer who creates, edits and       *)
(* removes events and bans attendees.                                       *)
(*                                                                          *)
(* The API is one Node process whose handlers interleave at every await, so *)
(* a handler is a record in `req' and every awaited call is one action.     *)
(* What a handler read earlier is kept in its record and may be stale.      *)
(* The tables are functions over finite pools of ids; an id is drawn once   *)
(* and never reused (uuid()), and a deleted row keeps its columns so that a *)
(* stale handler is still about the same row.                               *)
(***************************************************************************)
EXTENDS Naturals, FiniteSets

CONSTANTS
    Users,        \* accounts (never deleted: every delete route fails)
    Events,       \* ids events are created with
    Requests,     \* slots for handlers in flight
    PaymentIds,   \* pool of payment ids (bound)
    SeatIds,      \* pool of userEvent ids (bound)
    None          \* the null of an optional column or local

ASSUME NoneIsNoId ==
    None \notin Users \cup Events \cup PaymentIds \cup SeatIds

VARIABLES
    event,      \* the events table, the columns these handlers read
    payment,    \* the payments table
    seat,       \* the user_events table
    bans,       \* participant_bans, by userEventId (unique)
    gateway,    \* Khalti's side: the session initiated for each payment
    req,        \* the handlers in flight
    everFree    \* history: events that were at some time free to join

vars == <<event, payment, seat, bans, gateway, req, everFree>>

EventRow == [state : {"absent", "live", "removed"},
             isPaid : BOOLEAN,
             open : BOOLEAN]            \* neither startDate nor endDate passed

PaymentRow == [status : {"UNUSED", "PENDING", "PAID", "FAILED", "DELETED"},
               event : Events \cup {None},
               user : Users \cup {None},
               hasPidx : BOOLEAN]       \* transactionId set to the session's pidx

SeatRow == [state : {"unused", "live", "deleted"},
            event : Events \cup {None},
            user : Users \cup {None},
            payment : PaymentIds \cup {None}]

SessionStatus == {"none", "Pending", "Completed", "Refunded", "Expired",
                  "User canceled"}

JoinSteps == {"createSeat", "createPayment", "initiatePayment", "storePidx"}
VerifySteps == {"findSeat", "lookupPayment", "markPaid", "markFailed",
                "createPaidSeat", "linkSeat"}

Handler == [pc : {"idle"} \cup JoinSteps \cup VerifySteps,
            event : Events \cup {None},
            user : Users \cup {None},
            payment : PaymentIds \cup {None},
            seat : SeatIds \cup {None}]

TypeOK ==
    /\ event \in [Events -> EventRow]
    /\ payment \in [PaymentIds -> PaymentRow]
    /\ seat \in [SeatIds -> SeatRow]
    /\ bans \subseteq SeatIds
    /\ gateway \in [PaymentIds -> SessionStatus]
    /\ req \in [Requests -> Handler]
    /\ everFree \subseteq Events

-----------------------------------------------------------------------------

IdleHandler ==
    [pc |-> "idle", event |-> None, user |-> None, payment |-> None,
     seat |-> None]

Init ==
    /\ event = [e \in Events |->
                   [state |-> "absent", isPaid |-> FALSE, open |-> FALSE]]
    /\ payment = [p \in PaymentIds |->
                     [status |-> "UNUSED", event |-> None, user |-> None,
                      hasPidx |-> FALSE]]
    /\ seat = [s \in SeatIds |->
                  [state |-> "unused", event |-> None, user |-> None,
                   payment |-> None]]
    /\ bans = {}
    /\ gateway = [p \in PaymentIds |-> "none"]
    /\ req = [r \in Requests |-> IdleHandler]
    /\ everFree = {}

EventLive(e) == event[e].state = "live"
PaymentLive(p) == payment[p].status \in {"PENDING", "PAID", "FAILED"}
SeatLive(s) == seat[s].state = "live"
At(r, pc) == req[r].pc = pc

\* Money has left the user's account; a refund comes only after that.
Charged(p) == gateway[p] \in {"Completed", "Refunded"}

\* The handler returns or throws: nothing it held survives it.
Answer(r) == req' = [req EXCEPT ![r] = IdleHandler]

\* Bound: a handler starts only while the pools hold an id for every insert
\* that the handlers in flight may still make.
PaymentRoom ==
    Cardinality({r \in Requests : At(r, "createPayment")})
        < Cardinality({p \in PaymentIds : payment[p].status = "UNUSED"})
SeatRoom ==
    Cardinality({r \in Requests : req[r].pc \in {"createSeat", "findSeat",
                      "lookupPayment", "markPaid", "createPaidSeat"}})
        < Cardinality({s \in SeatIds : seat[s].state = "unused"})

-----------------------------------------------------------------------------
(* POST user/event/:id/join *)

\* Mutant: a paid event's seat is reserved before it is paid.
JoinEventUnpaid(r, u, e) ==
    /\ At(r, "idle")
    /\ EventLive(e) /\ event[e].open /\ SeatRoom
    /\ req' = [req EXCEPT ![r] =
                  [IdleHandler EXCEPT !.pc = "createSeat", !.event = e, !.user = u]]
    /\ UNCHANGED <<event, payment, seat, bans, gateway, everFree>>

\* The event is read and checked, the user row is read. Every rejection (no
\* event, started or ended, no or an unknown payment method) changes nothing
\* and is not a step.
JoinEvent(r, u, e) ==
    /\ At(r, "idle")
    /\ EventLive(e) /\ event[e].open
    /\ \/ event[e].isPaid /\ PaymentRoom
       \/ ~event[e].isPaid /\ SeatRoom
    /\ req' = [req EXCEPT ![r] =
                  [IdleHandler EXCEPT
                      !.pc = IF event[e].isPaid THEN "createPayment"
                                                ELSE "createSeat",
                      !.event = e, !.user = u]]
    /\ UNCHANGED <<event, payment, seat, bans, gateway, everFree>>

\* The insert checks the foreign key only: the event is not read again, and no
\* seat or ban of this user is looked for.
CreateSeat(r) ==
    /\ At(r, "createSeat")
    /\ \/ /\ EventLive(req[r].event)
          /\ \E s \in SeatIds :
                /\ seat[s].state = "unused"
                /\ seat' = [seat EXCEPT ![s] =
                      [state |-> "live", event |-> req[r].event,
                       user |-> req[r].user, payment |-> None]]
       \/ ~EventLive(req[r].event) /\ UNCHANGED seat
    /\ Answer(r)
    /\ UNCHANGED <<event, payment, bans, gateway, everFree>>

CreatePayment(r) ==
    /\ At(r, "createPayment")
    /\ \/ /\ EventLive(req[r].event)
          /\ \E p \in PaymentIds :
                /\ payment[p].status = "UNUSED"
                /\ payment' = [payment EXCEPT ![p] =
                      [status |-> "PENDING", event |-> req[r].event,
                       user |-> req[r].user, hasPidx |-> FALSE]]
                /\ req' = [req EXCEPT ![r].pc = "initiatePayment",
                                      ![r].payment = p]
       \/ ~EventLive(req[r].event) /\ Answer(r) /\ UNCHANGED payment
    /\ UNCHANGED <<event, seat, bans, gateway, everFree>>

\* Mutant: the pidx is returned to the client and never stored.
InitiatePaymentOnly(r) ==
    /\ At(r, "initiatePayment")
    /\ gateway' = [gateway EXCEPT ![req[r].payment] = "Pending"]
    /\ Answer(r)
    /\ UNCHANGED <<event, payment, seat, bans, everFree>>

\* Khalti opens a session; a refusal is Fail here, a lost response Fail after.
InitiatePayment(r) ==
    /\ At(r, "initiatePayment")
    /\ gateway' = [gateway EXCEPT ![req[r].payment] = "Pending"]
    /\ req' = [req EXCEPT ![r].pc = "storePidx"]
    /\ UNCHANGED <<event, payment, seat, bans, everFree>>

StorePidx(r) ==
    /\ At(r, "storePidx")
    /\ payment' = IF PaymentLive(req[r].payment)
                  THEN [payment EXCEPT ![req[r].payment].hasPidx = TRUE]
                  ELSE payment
    /\ Answer(r)
    /\ UNCHANGED <<event, seat, bans, gateway, everFree>>

-----------------------------------------------------------------------------
(* POST user/event/verify-payment/:pidx *)

\* Mutant: the seat goes to whoever calls, not to the payment's user.
VerifyForCaller(r, p) ==
    /\ At(r, "idle")
    /\ SeatRoom
    /\ PaymentLive(p) /\ payment[p].hasPidx
    /\ \E u \in Users :
          req' = [req EXCEPT ![r] =
                     [IdleHandler EXCEPT !.pc = "findSeat", !.payment = p,
                         !.event = payment[p].event, !.user = u]]
    /\ UNCHANGED <<event, payment, seat, bans, gateway, everFree>>

VerifyEventPayment(r, p) ==
    /\ At(r, "idle")
    /\ SeatRoom
    /\ PaymentLive(p) /\ payment[p].hasPidx
    /\ req' = [req EXCEPT ![r] =
                  [IdleHandler EXCEPT !.pc = "findSeat", !.payment = p,
                      !.event = payment[p].event, !.user = payment[p].user]]
    /\ UNCHANGED <<event, payment, seat, bans, gateway, everFree>>

HasSeat(u, e) ==
    \E s \in SeatIds : SeatLive(s) /\ seat[s].user = u /\ seat[s].event = e

\* 'PAYMENT_ALREADY_VERIFIED': any seat of the user at the event answers it.
AnswerAlreadyVerified(r) ==
    /\ At(r, "findSeat")
    /\ HasSeat(req[r].user, req[r].event)
    /\ Answer(r)
    /\ UNCHANGED <<event, payment, seat, bans, gateway, everFree>>

\* Mutant: no userEvent is looked for.
FindSeatUnchecked(r) ==
    /\ At(r, "findSeat")
    /\ req' = [req EXCEPT ![r].pc = "lookupPayment"]
    /\ UNCHANGED <<event, payment, seat, bans, gateway, everFree>>

FindNoSeat(r) ==
    /\ At(r, "findSeat")
    /\ ~HasSeat(req[r].user, req[r].event)
    /\ req' = [req EXCEPT ![r].pc = "lookupPayment"]
    /\ UNCHANGED <<event, payment, seat, bans, gateway, everFree>>

\* Mutant: whatever is not refused counts as paid.
LookupPaymentLenient(r) ==
    /\ At(r, "lookupPayment")
    /\ req' = [req EXCEPT ![r].pc =
                  IF gateway[req[r].payment] \in {"Expired", "User canceled"}
                  THEN "markFailed" ELSE "markPaid"]
    /\ UNCHANGED <<event, payment, seat, bans, gateway, everFree>>

\* Mutant: the seat is inserted first, and nothing marks the payment after it.
LookupPaymentSeatFirst(r) ==
    /\ At(r, "lookupPayment")
    /\ req' = [req EXCEPT ![r].pc = IF gateway[req[r].payment] = "Completed"
                                    THEN "createPaidSeat" ELSE "markFailed"]
    /\ UNCHANGED <<event, payment, seat, bans, gateway, everFree>>

LookupPayment(r) ==
    /\ At(r, "lookupPayment")
    /\ req' = [req EXCEPT ![r].pc = IF gateway[req[r].payment] = "Completed"
                                    THEN "markPaid" ELSE "markFailed"]
    /\ UNCHANGED <<event, payment, seat, bans, gateway, everFree>>

\* Mutant: the payment is marked and the seat forgotten.
MarkPaidOnly(r) ==
    /\ At(r, "markPaid")
    /\ payment' = IF PaymentLive(req[r].payment)
                  THEN [payment EXCEPT ![req[r].payment].status = "PAID"]
                  ELSE payment
    /\ Answer(r)
    /\ UNCHANGED <<event, seat, bans, gateway, everFree>>

MarkPaid(r) ==
    /\ At(r, "markPaid")
    /\ \/ /\ PaymentLive(req[r].payment)
          /\ payment' = [payment EXCEPT ![req[r].payment].status = "PAID"]
          /\ req' = [req EXCEPT ![r].pc = "createPaidSeat"]
       \/ ~PaymentLive(req[r].payment) /\ Answer(r) /\ UNCHANGED payment
    /\ UNCHANGED <<event, seat, bans, gateway, everFree>>

MarkFailed(r) ==
    /\ At(r, "markFailed")
    /\ payment' = IF PaymentLive(req[r].payment)
                  THEN [payment EXCEPT ![req[r].payment].status = "FAILED"]
                  ELSE payment
    /\ Answer(r)
    /\ UNCHANGED <<event, seat, bans, gateway, everFree>>

CreatePaidSeat(r) ==
    /\ At(r, "createPaidSeat")
    /\ \/ /\ EventLive(req[r].event)
          /\ \E s \in SeatIds :
                /\ seat[s].state = "unused"
                /\ seat' = [seat EXCEPT ![s] =
                      [state |-> "live", event |-> req[r].event,
                       user |-> req[r].user, payment |-> None]]
                /\ req' = [req EXCEPT ![r].pc = "linkSeat", ![r].seat = s]
       \/ ~EventLive(req[r].event) /\ Answer(r) /\ UNCHANGED seat
    /\ UNCHANGED <<event, payment, bans, gateway, everFree>>

LinkSeat(r) ==
    /\ At(r, "linkSeat")
    /\ seat' = IF SeatLive(req[r].seat)
               THEN [seat EXCEPT ![req[r].seat].payment = req[r].payment]
               ELSE seat
    /\ Answer(r)
    /\ UNCHANGED <<event, payment, bans, gateway, everFree>>

\* The awaited call of a handler throws (database, Khalti, a lost response), or
\* the process dies under it; pm2 restarts it with nothing in flight, which is
\* one Fail per handler.
Fail(r) ==
    /\ ~At(r, "idle")
    /\ Answer(r)
    /\ UNCHANGED <<event, payment, seat, bans, gateway, everFree>>

-----------------------------------------------------------------------------
(* The organizer: events and bans; the clock; Khalti *)

\* PUT the columns that matter here: isPaid, and dates in the past or not.
WriteEvent(e, isPaid, open) ==
    /\ event' = [event EXCEPT ![e] =
                    [state |-> "live", isPaid |-> isPaid, open |-> open]]
    /\ everFree' = IF isPaid THEN everFree ELSE everFree \cup {e}
    /\ UNCHANGED <<payment, seat, bans, gateway, req>>

CreateEvent(e, isPaid, open) ==
    event[e].state = "absent" /\ WriteEvent(e, isPaid, open)

UpdateEvent(e, isPaid, open) ==
    EventLive(e) /\ WriteEvent(e, isPaid, open)

\* startDate passes.
StartEvent(e) ==
    /\ EventLive(e) /\ event[e].open
    /\ event' = [event EXCEPT ![e].open = FALSE]
    /\ UNCHANGED <<payment, seat, bans, gateway, req, everFree>>

\* Mutant: the foreign keys of an event do not cascade.
RemoveEventOnly(e) ==
    /\ EventLive(e)
    /\ event' = [event EXCEPT ![e].state = "removed"]
    /\ UNCHANGED <<payment, seat, bans, gateway, req, everFree>>

\* Mutant: ON DELETE SET NULL for the payments of an event.
RemoveEventSetNull(e) ==
    /\ EventLive(e)
    /\ event' = [event EXCEPT ![e].state = "removed"]
    /\ payment' = [p \in PaymentIds |->
                      IF payment[p].event = e
                      THEN [payment[p] EXCEPT !.event = None]
                      ELSE payment[p]]
    /\ UNCHANGED <<seat, bans, gateway, req, everFree>>

\* One DELETE; the foreign keys cascade to payments, user_events and, through
\* them, to participant_bans. Handlers in flight are not told.
RemoveEvent(e) ==
    /\ EventLive(e)
    /\ event' = [event EXCEPT ![e].state = "removed"]
    /\ payment' = [p \in PaymentIds |->
                      IF PaymentLive(p) /\ payment[p].event = e
                      THEN [payment[p] EXCEPT !.status = "DELETED"]
                      ELSE payment[p]]
    /\ seat' = [s \in SeatIds |->
                   IF SeatLive(s) /\ seat[s].event = e
                   THEN [seat[s] EXCEPT !.state = "deleted"]
                   ELSE seat[s]]
    /\ bans' = {s \in bans : seat[s].event # e}
    /\ UNCHANGED <<gateway, req, everFree>>

\* A second ban of the same seat violates the unique key and fails.
Ban(s) ==
    /\ SeatLive(s) /\ s \notin bans
    /\ bans' = bans \cup {s}
    /\ UNCHANGED <<event, payment, seat, gateway, req, everFree>>

Unban(s) ==
    /\ s \in bans
    /\ bans' = bans \ {s}
    /\ UNCHANGED <<event, payment, seat, gateway, req, everFree>>

\* The user pays on Khalti's page, cancels there or lets the session expire;
\* the page's address is answered only once the pidx is stored.
SettleSession(p, status) ==
    /\ gateway[p] = "Pending"
    /\ status = "Completed" => payment[p].hasPidx
    /\ gateway' = [gateway EXCEPT ![p] = status]
    /\ UNCHANGED <<event, payment, seat, bans, req, everFree>>

RefundSession(p) ==
    /\ gateway[p] = "Completed"
    /\ gateway' = [gateway EXCEPT ![p] = "Refunded"]
    /\ UNCHANGED <<event, payment, seat, bans, req, everFree>>

-----------------------------------------------------------------------------

HandlerStep(r) ==
    \/ CreateSeat(r) \/ CreatePayment(r) \/ InitiatePayment(r) \/ StorePidx(r)
    \/ AnswerAlreadyVerified(r) \/ FindNoSeat(r) \/ LookupPayment(r)
    \/ MarkPaid(r) \/ MarkFailed(r) \/ CreatePaidSeat(r) \/ LinkSeat(r)

Arrival ==
    \E r \in Requests :
        \/ \E u \in Users, e \in Events : JoinEvent(r, u, e)
        \/ \E p \in PaymentIds : VerifyEventPayment(r, p)

Environment ==
    \/ \E e \in Events, isPaid, open \in BOOLEAN :
          CreateEvent(e, isPaid, open) \/ UpdateEvent(e, isPaid, open)
    \/ \E e \in Events : StartEvent(e) \/ RemoveEvent(e)
    \/ \E s \in SeatIds : Ban(s) \/ Unban(s)
    \/ \E p \in PaymentIds :
          \/ \E status \in {"Completed", "Expired", "User canceled"} :
                SettleSession(p, status)
          \/ RefundSession(p)

Next ==
    \/ Arrival
    \/ \E r \in Requests : HandlerStep(r) \/ Fail(r)
    \/ Environment

Spec == Init /\ [][Next]_vars

\* Nothing fails and the process stays up: Node resumes every handler whose
\* awaited call returned.
SmoothNext ==
    \/ Arrival
    \/ \E r \in Requests : HandlerStep(r)
    \/ Environment

SmoothSpec ==
    Init /\ [][SmoothNext]_vars /\ \A r \in Requests : WF_vars(HandlerStep(r))

-----------------------------------------------------------------------------
(* What must hold, however the handlers interleave and fail *)

\* The user may hold a seat at the event: it was free to join at some time, or
\* Khalti has taken this user's money for this event.
Entitled(u, e) ==
    \/ e \in everFree
    \/ \E p \in PaymentIds :
          Charged(p) /\ payment[p].user = u /\ payment[p].event = e

\* Nobody sits at an event for nothing: joinEvent and verifyEventPayment act on
\* what they read before their last await, and still every user_events row
\* belongs to someone entitled to it.
NoFreeRide ==
    \A s \in SeatIds : SeatLive(s) => Entitled(seat[s].user, seat[s].event)

\* A payment the database calls PAID (the organizer's revenue) was taken by
\* Khalti, though verifyEventPayment writes it after the lookup's await.
PaidOnlyIfCharged ==
    \A p \in PaymentIds : payment[p].status = "PAID" => Charged(p)

\* A seat's paymentId names a live payment of the same user for the same event
\* that was taken, though verifyEventPayment links it in a call of its own.
LinkedPaymentMatches ==
    \A s \in SeatIds :
        SeatLive(s) /\ seat[s].payment # None =>
            LET p == seat[s].payment IN
            /\ PaymentLive(p) /\ Charged(p)
            /\ payment[p].user = seat[s].user
            /\ payment[p].event = seat[s].event

\* The cascade of an event's removal leaves nothing behind, whatever the
\* handlers that read the event before insert after it.
NoOrphans ==
    /\ \A p \in PaymentIds : PaymentLive(p) => EventLive(payment[p].event)
    /\ \A s \in SeatIds : SeatLive(s) => EventLive(seat[s].event)
    /\ \A s \in bans : SeatLive(s)

\* With verifications one at a time (a single slot): a seat at an event that
\* was never free is backed by a PAID row of its user, so revenue counts it,
\* even when the process dies between marking, inserting and linking.
SeatBacked ==
    \A s \in SeatIds :
        SeatLive(s) /\ seat[s].event \notin everFree =>
            \E p \in PaymentIds :
                /\ payment[p].status = "PAID"
                /\ payment[p].user = seat[s].user
                /\ payment[p].event = seat[s].event

\* With verifications one at a time: the userEvent lookup before the insert
\* keeps a user to one seat at an event that was never free, over several
\* payments, retries and failures; no unique key does.
OneSeatPerUser ==
    \A s, t \in SeatIds :
        /\ SeatLive(s) /\ SeatLive(t)
        /\ seat[s].user = seat[t].user /\ seat[s].event = seat[t].event
        /\ seat[s].event \notin everFree
        => s = t

\* Once a verification has seen Completed, the payer gets a seat or the event
\* is gone, through three more awaited calls that race with other
\* verifications of the same payment.
ChargedVerifyIsServed ==
    \A p \in PaymentIds :
        (\E r \in Requests : At(r, "markPaid") /\ req[r].payment = p)
            ~> (HasSeat(payment[p].user, payment[p].event) \/ ~PaymentLive(p))

\* A payment row that a join created gets its pidx, so that it can be paid and
\* verified, or goes with its event.
PaymentBecomesPayable ==
    \A p \in PaymentIds :
        PaymentLive(p) ~> (payment[p].hasPidx \/ ~PaymentLive(p))

-----------------------------------------------------------------------------
(* The inductive invariant behind the safety properties *)

PaymentSteps == (JoinSteps \ {"createSeat", "createPayment"}) \cup VerifySteps
SettledSteps == {"markPaid", "createPaidSeat", "linkSeat"}

\* A row in use names a user and an event; a deleted payment's event is
\* removed; Khalti knows no payment that was never created.
RowsKnown ==
    /\ \A p \in PaymentIds :
          /\ payment[p].status = "UNUSED" => gateway[p] = "none"
          /\ payment[p].status # "UNUSED" =>
                payment[p].event \in Events /\ payment[p].user \in Users
          /\ payment[p].status = "DELETED" =>
                event[payment[p].event].state = "removed"
    /\ \A s \in SeatIds :
          seat[s].state # "unused" =>
              seat[s].event \in Events /\ seat[s].user \in Users

FreeIsRecorded ==
    \A e \in Events : EventLive(e) /\ ~event[e].isPaid => e \in everFree

\* What a handler read stays true of the rows it will write, however long it
\* waits: the ids it holds are those of its user and event, and a payment it
\* saw Completed stays charged.
HandlerKnows(r) ==
    /\ ~At(r, "idle") => req[r].event \in Events /\ req[r].user \in Users
    /\ At(r, "createSeat") => req[r].event \in everFree
    /\ req[r].pc \in PaymentSteps =>
          /\ req[r].payment \in PaymentIds
          /\ payment[req[r].payment].status # "UNUSED"
          /\ payment[req[r].payment].event = req[r].event
          /\ payment[req[r].payment].user = req[r].user
    /\ req[r].pc \in SettledSteps => Charged(req[r].payment)
    /\ At(r, "linkSeat") =>
          /\ req[r].seat \in SeatIds
          /\ seat[req[r].seat].state # "unused"
          /\ seat[req[r].seat].event = req[r].event
          /\ seat[req[r].seat].user = req[r].user

\* Only the handler that created a payment opens its session, and once.
SessionOpenedOnce ==
    \A r, q \in Requests :
        At(r, "initiatePayment") =>
            /\ gateway[req[r].payment] = "none"
            /\ At(q, "initiatePayment") /\ req[q].payment = req[r].payment
                  => q = r

\* The conjunction that every step preserves.
EnrollmentInv ==
    /\ TypeOK
    /\ RowsKnown
    /\ FreeIsRecorded
    /\ \A r \in Requests : HandlerKnows(r)
    /\ SessionOpenedOnce
    /\ NoOrphans
    /\ PaidOnlyIfCharged
    /\ NoFreeRide
    /\ LinkedPaymentMatches

\* No step takes back what a stale handler relies on: a payment or a seat keeps
\* its user and event for ever (deleted rows included), money taken stays taken
\* and an event that was free stays recorded.
RowsKeepTheirOwner ==
    /\ \A p \in PaymentIds :
          /\ payment[p].status # "UNUSED" =>
                /\ payment'[p].status # "UNUSED"
                /\ payment'[p].event = payment[p].event
                /\ payment'[p].user = payment[p].user
          /\ gateway[p] \in {"Completed", "Refunded"} =>
                gateway'[p] \in {"Completed", "Refunded"}
    /\ \A s \in SeatIds :
          seat[s].state # "unused" =>
              /\ seat'[s].state # "unused"
              /\ seat'[s].event = seat[s].event
              /\ seat'[s].user = seat[s].user
    /\ everFree \subseteq everFree'

NothingIsTakenBack == [][RowsKeepTheirOwner]_vars

-----------------------------------------------------------------------------
(* The handlers implement the ledger *)

Ledger == INSTANCE SeatLedger WITH
    held <- [s \in SeatIds |-> IF SeatLive(s)
                               THEN <<seat[s].user, seat[s].event>> ELSE None],
    charged <- {<<payment[p].user, payment[p].event>> :
                   p \in {q \in PaymentIds : Charged(q)}},
    free <- everFree

\* Every step of the handlers is a step of the ledger or changes nothing in it.
ImplementsLedger == Ledger!Spec
=============================================================================
