--------------------------- MODULE EnrollmentProofs ---------------------------
(***************************************************************************)
(* Enrollment's type invariant, its inductive invariant and the step        *)
(* simulation of SeatLedger, for every value of the constants.              *)
(***************************************************************************)
EXTENDS Enrollment, TLAPS

-----------------------------------------------------------------------------
(* Types *)

\* Resetting a handler, or moving it to another step, leaves it a handler.
LEMMA IdleIsHandler == IdleHandler \in Handler
  BY DEF IdleHandler, Handler

\* The columns verifyEventPayment, joinEvent and the cascade overwrite keep a
\* payments row a payments row.
LEMMA PaymentRowKept ==
    ASSUME NEW row \in PaymentRow
    PROVE  /\ [row EXCEPT !.hasPidx = TRUE] \in PaymentRow
           /\ \A status \in {"PAID", "FAILED", "DELETED"} :
                 [row EXCEPT !.status = status] \in PaymentRow
  BY DEF PaymentRow

\* Every step of the handlers, of the organizer and of Khalti keeps the
\* tables, the sessions and the handlers in their types.
LEMMA TypeStep ==
    ASSUME TypeOK, [Next]_vars
    PROVE  TypeOK'
<1> USE DEF TypeOK
<1>1. ASSUME NEW r \in Requests, NEW u \in Users, NEW e \in Events,
             JoinEvent(r, u, e)
      PROVE  TypeOK'
  <2>1. req'[r] \in Handler
    BY <1>1 DEF JoinEvent, IdleHandler, Handler, JoinSteps
  <2> QED  BY <1>1, <2>1 DEF JoinEvent
<1>2. ASSUME NEW r \in Requests, NEW p \in PaymentIds,
             VerifyEventPayment(r, p)
      PROVE  TypeOK'
  <2>1. req'[r] \in Handler
    BY <1>2 DEF VerifyEventPayment, IdleHandler, Handler, VerifySteps,
                PaymentRow
  <2> QED  BY <1>2, <2>1 DEF VerifyEventPayment
<1>3. ASSUME NEW r \in Requests, HandlerStep(r) \/ Fail(r)
      PROVE  TypeOK'
  <2> USE IdleIsHandler DEF Answer
  <2>1. CASE CreateSeat(r)
    BY <2>1 DEF CreateSeat, SeatRow, Handler
  <2>2. CASE CreatePayment(r)
    <3>1. req' \in [Requests -> Handler]
      BY <2>2 DEF CreatePayment, Handler, JoinSteps
    <3>2. payment' \in [PaymentIds -> PaymentRow]
      <4>1. /\ req[r].event \in Events \cup {None}
            /\ req[r].user \in Users \cup {None}
        BY DEF Handler
      <4>2. [status |-> "PENDING", event |-> req[r].event,
             user |-> req[r].user, hasPidx |-> FALSE] \in PaymentRow
        BY <4>1 DEF PaymentRow
      <4> QED  BY <2>2, <4>2 DEF CreatePayment
    <3> QED  BY <2>2, <3>1, <3>2 DEF CreatePayment
  <2>3. CASE InitiatePayment(r)
    BY <2>3 DEF InitiatePayment, SessionStatus, Handler, JoinSteps
  <2>4. CASE StorePidx(r)
    BY <2>4, PaymentRowKept DEF StorePidx
  <2>5. CASE AnswerAlreadyVerified(r)
    BY <2>5 DEF AnswerAlreadyVerified
  <2>6. CASE FindNoSeat(r)
    BY <2>6 DEF FindNoSeat, Handler, VerifySteps
  <2>7. CASE LookupPayment(r)
    BY <2>7 DEF LookupPayment, Handler, VerifySteps
  <2>8. CASE MarkPaid(r)
    <3>1. req' \in [Requests -> Handler]
      BY <2>8 DEF MarkPaid, Handler, VerifySteps
    <3>2. payment' \in [PaymentIds -> PaymentRow]
      <4>1. \/ payment' = [payment EXCEPT ![req[r].payment].status = "PAID"]
            \/ payment' = payment
        BY <2>8 DEF MarkPaid
      <4>2. \A p \in PaymentIds :
               [payment[p] EXCEPT !.status = "PAID"] \in PaymentRow
        BY PaymentRowKept
      <4> QED  BY <4>1, <4>2
    <3> QED  BY <2>8, <3>1, <3>2 DEF MarkPaid
  <2>9. CASE MarkFailed(r)
    BY <2>9, PaymentRowKept DEF MarkFailed
  <2>10. CASE CreatePaidSeat(r)
    <3>1. req' \in [Requests -> Handler]
      BY <2>10 DEF CreatePaidSeat, Handler, VerifySteps
    <3>2. seat' \in [SeatIds -> SeatRow]
      BY <2>10 DEF CreatePaidSeat, SeatRow, Handler
    <3> QED  BY <2>10, <3>1, <3>2 DEF CreatePaidSeat
  <2>11. CASE LinkSeat(r)
    <3>1. req[r].payment \in PaymentIds \cup {None}
      BY DEF Handler
    <3>2. \A s \in SeatIds :
             [seat[s] EXCEPT !.payment = req[r].payment] \in SeatRow
      BY <3>1 DEF SeatRow
    <3>3. \/ seat' = [seat EXCEPT ![req[r].seat].payment = req[r].payment]
          \/ seat' = seat
      BY <2>11 DEF LinkSeat
    <3>4. seat' \in [SeatIds -> SeatRow]
      BY <3>2, <3>3
    <3> QED  BY <2>11, <3>4 DEF LinkSeat
  <2>12. CASE Fail(r)
    BY <2>12 DEF Fail
  <2> QED
    BY <1>3, <2>1, <2>2, <2>3, <2>4, <2>5, <2>6, <2>7, <2>8, <2>9, <2>10,
       <2>11, <2>12 DEF HandlerStep
<1>4. ASSUME NEW e \in Events, NEW isPaid \in BOOLEAN, NEW open \in BOOLEAN,
             CreateEvent(e, isPaid, open) \/ UpdateEvent(e, isPaid, open)
      PROVE  TypeOK'
  BY <1>4 DEF CreateEvent, UpdateEvent, WriteEvent, EventRow
<1>5. ASSUME NEW e \in Events, StartEvent(e) PROVE TypeOK'
  BY <1>5 DEF StartEvent, EventRow
<1>6. ASSUME NEW e \in Events, RemoveEvent(e) PROVE TypeOK'
  <2>1. event' \in [Events -> EventRow]
    BY <1>6 DEF RemoveEvent, EventRow
  <2>2. payment' \in [PaymentIds -> PaymentRow]
    BY <1>6, PaymentRowKept DEF RemoveEvent
  <2>3. seat' \in [SeatIds -> SeatRow]
    <3>1. \A s \in SeatIds : [seat[s] EXCEPT !.state = "deleted"] \in SeatRow
      BY DEF SeatRow
    <3> QED  BY <1>6, <3>1 DEF RemoveEvent
  <2>4. bans' \subseteq SeatIds /\ UNCHANGED <<gateway, req, everFree>>
    BY <1>6 DEF RemoveEvent
  <2> QED  BY <2>1, <2>2, <2>3, <2>4
<1>7. ASSUME NEW s \in SeatIds, Ban(s) \/ Unban(s) PROVE TypeOK'
  BY <1>7 DEF Ban, Unban
<1>8. ASSUME NEW p \in PaymentIds,
             \/ \E status \in {"Completed", "Expired", "User canceled"} :
                   SettleSession(p, status)
             \/ RefundSession(p)
      PROVE  TypeOK'
  BY <1>8 DEF SettleSession, RefundSession, SessionStatus
<1>9. CASE UNCHANGED vars
  BY <1>9 DEF vars
<1> QED
  BY <1>1, <1>2, <1>3, <1>4, <1>5, <1>6, <1>7, <1>8, <1>9
  DEF Next, Arrival, Environment

\* The tables, the sessions and the handlers in flight always have the shapes
\* the schema and the handlers' locals give them.
THEOREM TypeCorrect == Spec => []TypeOK
<1>1. Init => TypeOK
  BY IdleIsHandler
  DEF Init, TypeOK, EventRow, PaymentRow, SeatRow, SessionStatus
<1>2. TypeOK /\ [Next]_vars => TypeOK'
  BY TypeStep
<1> QED  BY <1>1, <1>2, PTL DEF Spec

-----------------------------------------------------------------------------
(* Who writes what *)

\* Nothing but handlers' locals moves.
TablesUntouched == UNCHANGED <<event, payment, seat, bans, gateway, everFree>>

SeatWrite(r) == CreateSeat(r) \/ CreatePaidSeat(r) \/ LinkSeat(r)
PaymentWrite(r) ==
    CreatePayment(r) \/ StorePidx(r) \/ MarkPaid(r) \/ MarkFailed(r)
EventWrite(e) ==
    \/ \E isPaid, open \in BOOLEAN :
          CreateEvent(e, isPaid, open) \/ UpdateEvent(e, isPaid, open)
    \/ StartEvent(e)
GatewayWrite(p) ==
    \/ \E status \in {"Completed", "Expired", "User canceled"} :
          SettleSession(p, status)
    \/ RefundSession(p)

\* The steps by the table they write.
LEMMA StepCases ==
    ASSUME [Next]_vars
    PROVE  \/ TablesUntouched
           \/ \E r \in Requests : SeatWrite(r)
           \/ \E r \in Requests : PaymentWrite(r)
           \/ \E r \in Requests : InitiatePayment(r)
           \/ \E e \in Events : EventWrite(e)
           \/ \E e \in Events : RemoveEvent(e)
           \/ \E s \in SeatIds : Ban(s) \/ Unban(s)
           \/ \E p \in PaymentIds : GatewayWrite(p)
<1>1. CASE Arrival
  BY <1>1 DEF Arrival, JoinEvent, VerifyEventPayment, TablesUntouched
<1>2. ASSUME NEW r \in Requests, HandlerStep(r) \/ Fail(r)
      PROVE  \/ TablesUntouched
             \/ SeatWrite(r) \/ PaymentWrite(r) \/ InitiatePayment(r)
  BY <1>2 DEF HandlerStep, Fail, AnswerAlreadyVerified, FindNoSeat,
              LookupPayment, TablesUntouched, SeatWrite, PaymentWrite
<1>3. CASE Environment
  BY <1>3 DEF Environment, EventWrite, GatewayWrite
<1>4. CASE UNCHANGED vars
  BY <1>4 DEF vars, TablesUntouched
<1> QED  BY <1>1, <1>2, <1>3, <1>4 DEF Next

\* No step takes back what a stale handler relies on (RowsKeepTheirOwner).
LEMMA OwnersKept ==
    ASSUME TypeOK, RowsKnown, SessionOpenedOnce, [Next]_vars
    PROVE  RowsKeepTheirOwner
<1> USE DEF TypeOK, RowsKeepTheirOwner
<1>1. CASE TablesUntouched
  BY <1>1 DEF TablesUntouched
<1>2. ASSUME NEW r \in Requests, SeatWrite(r) PROVE RowsKeepTheirOwner
  <2>1. CASE CreateSeat(r) \/ CreatePaidSeat(r)
    BY <2>1 DEF CreateSeat, CreatePaidSeat
  <2>2. CASE LinkSeat(r)
    BY <2>2 DEF LinkSeat, SeatRow
  <2> QED  BY <1>2, <2>1, <2>2 DEF SeatWrite
<1>3. ASSUME NEW r \in Requests, PaymentWrite(r) PROVE RowsKeepTheirOwner
  <2>1. CASE CreatePayment(r)
    BY <2>1 DEF CreatePayment
  <2>2. CASE StorePidx(r)
    BY <2>2 DEF StorePidx, PaymentRow
  <2>3. CASE MarkPaid(r)
    BY <2>3 DEF MarkPaid, PaymentRow
  <2>4. CASE MarkFailed(r)
    BY <2>4 DEF MarkFailed, PaymentRow
  <2> QED  BY <1>3, <2>1, <2>2, <2>3, <2>4 DEF PaymentWrite
<1>4. ASSUME NEW r \in Requests, InitiatePayment(r) PROVE RowsKeepTheirOwner
  BY <1>4 DEF InitiatePayment, SessionOpenedOnce, SessionStatus
<1>5. ASSUME NEW e \in Events, EventWrite(e) PROVE RowsKeepTheirOwner
  BY <1>5 DEF EventWrite, CreateEvent, UpdateEvent, WriteEvent, StartEvent
<1>6. ASSUME NEW e \in Events, RemoveEvent(e) PROVE RowsKeepTheirOwner
  BY <1>6 DEF RemoveEvent, PaymentRow, SeatRow
<1>7. ASSUME NEW s \in SeatIds, Ban(s) \/ Unban(s) PROVE RowsKeepTheirOwner
  BY <1>7 DEF Ban, Unban
<1>8. ASSUME NEW p \in PaymentIds, GatewayWrite(p) PROVE RowsKeepTheirOwner
  BY <1>8 DEF GatewayWrite, SettleSession, RefundSession, SessionStatus
<1> QED
  BY StepCases, <1>1, <1>2, <1>3, <1>4, <1>5, <1>6, <1>7, <1>8

-----------------------------------------------------------------------------
(* The conjuncts of EnrollmentInv, one lemma each *)

LEMMA FreeIsRecordedStep ==
    ASSUME TypeOK, FreeIsRecorded, [Next]_vars
    PROVE  FreeIsRecorded'
<1> USE DEF TypeOK, FreeIsRecorded, EventLive
<1>1. CASE TablesUntouched
  BY <1>1 DEF TablesUntouched
<1>2. ASSUME NEW r \in Requests,
             SeatWrite(r) \/ PaymentWrite(r) \/ InitiatePayment(r)
      PROVE  FreeIsRecorded'
  BY <1>2 DEF SeatWrite, CreateSeat, CreatePaidSeat, LinkSeat, PaymentWrite,
              CreatePayment, StorePidx, MarkPaid, MarkFailed, InitiatePayment
<1>3. ASSUME NEW e \in Events, EventWrite(e) PROVE FreeIsRecorded'
  BY <1>3 DEF EventWrite, CreateEvent, UpdateEvent, WriteEvent, StartEvent,
              EventRow
<1>4. ASSUME NEW e \in Events, RemoveEvent(e) PROVE FreeIsRecorded'
  BY <1>4 DEF RemoveEvent, EventRow
<1>5. ASSUME NEW s \in SeatIds, Ban(s) \/ Unban(s) PROVE FreeIsRecorded'
  BY <1>5 DEF Ban, Unban
<1>6. ASSUME NEW p \in PaymentIds, GatewayWrite(p) PROVE FreeIsRecorded'
  BY <1>6 DEF GatewayWrite, SettleSession, RefundSession
<1> QED  BY StepCases, <1>1, <1>2, <1>3, <1>4, <1>5, <1>6

LEMMA RowsKnownStep ==
    ASSUME EnrollmentInv, [Next]_vars
    PROVE  RowsKnown'
<1> USE DEF TypeOK, RowsKnown
<1>0. /\ TypeOK /\ RowsKnown
      /\ \A r \in Requests : HandlerKnows(r)
  BY DEF EnrollmentInv
<1>1. CASE TablesUntouched
  BY <1>0, <1>1 DEF TablesUntouched
<1>2. ASSUME NEW r \in Requests, SeatWrite(r) PROVE RowsKnown'
  <2>1. CASE CreateSeat(r) \/ CreatePaidSeat(r)
    BY <1>0, <2>1 DEF CreateSeat, CreatePaidSeat, HandlerKnows, At
  <2>2. CASE LinkSeat(r)
    BY <1>0, <2>2 DEF LinkSeat, SeatRow
  <2> QED  BY <1>2, <2>1, <2>2 DEF SeatWrite
<1>3. ASSUME NEW r \in Requests, PaymentWrite(r) PROVE RowsKnown'
  <2>1. CASE CreatePayment(r)
    BY <1>0, <2>1 DEF CreatePayment, HandlerKnows, At
  <2>2. CASE StorePidx(r)
    BY <1>0, <2>2 DEF StorePidx, PaymentRow
  <2>3. CASE MarkPaid(r) \/ MarkFailed(r)
    <3>1. PICK status \in {"PAID", "FAILED"} :
             \/ payment' = payment
             \/ /\ PaymentLive(req[r].payment)
                /\ payment' = [payment EXCEPT ![req[r].payment].status = status]
      BY <2>3 DEF MarkPaid, MarkFailed
    <3>2. UNCHANGED <<gateway, event, seat>>
      BY <2>3 DEF MarkPaid, MarkFailed
    <3>3. ASSUME NEW p \in PaymentIds
          PROVE  /\ payment'[p].event = payment[p].event
                 /\ payment'[p].user = payment[p].user
                 /\ payment'[p].status = "UNUSED" <=> payment[p].status = "UNUSED"
                 /\ payment'[p].status = "DELETED" => payment[p].status = "DELETED"
      BY <1>0, <3>1 DEF PaymentRow, PaymentLive
    <3> QED  BY <1>0, <3>2, <3>3
  <2> QED  BY <1>3, <2>1, <2>2, <2>3 DEF PaymentWrite
<1>4. ASSUME NEW r \in Requests, InitiatePayment(r) PROVE RowsKnown'
  BY <1>0, <1>4 DEF InitiatePayment, HandlerKnows, At, PaymentSteps, JoinSteps
<1>5. ASSUME NEW e \in Events, EventWrite(e) PROVE RowsKnown'
  <2>1. UNCHANGED <<payment, seat, gateway>>
    BY <1>5 DEF EventWrite, CreateEvent, UpdateEvent, WriteEvent, StartEvent
  <2>2. \A x \in Events : event[x].state = "removed" => event'[x].state = "removed"
    BY <1>0, <1>5 DEF EventWrite, CreateEvent, UpdateEvent, WriteEvent,
                      StartEvent, EventRow, EventLive
  <2> QED  BY <1>0, <2>1, <2>2
<1>6. ASSUME NEW e \in Events, RemoveEvent(e) PROVE RowsKnown'
  <2>1. \A x \in Events : /\ event[x].state = "removed" => event'[x].state = "removed"
                          /\ x = e => event'[x].state = "removed"
    BY <1>0, <1>6 DEF RemoveEvent, EventRow
  <2>2. ASSUME NEW p \in PaymentIds
        PROVE  /\ payment'[p].status = "UNUSED" => payment[p].status = "UNUSED"
               /\ payment'[p].event = payment[p].event
               /\ payment'[p].user = payment[p].user
               /\ payment'[p].status = "DELETED" =>
                     payment[p].status = "DELETED" \/ payment[p].event = e
               /\ payment'[p].status # "UNUSED" => payment[p].status # "UNUSED"
    BY <1>0, <1>6 DEF RemoveEvent, PaymentRow, PaymentLive
  <2>3. ASSUME NEW t \in SeatIds
        PROVE  /\ seat'[t].state # "unused" => seat[t].state # "unused"
               /\ seat'[t].event = seat[t].event
               /\ seat'[t].user = seat[t].user
    BY <1>0, <1>6 DEF RemoveEvent, SeatRow, SeatLive
  <2>4. UNCHANGED gateway
    BY <1>6 DEF RemoveEvent
  <2> QED  BY <1>0, <2>1, <2>2, <2>3, <2>4
<1>7. ASSUME NEW s \in SeatIds, Ban(s) \/ Unban(s) PROVE RowsKnown'
  BY <1>0, <1>7 DEF Ban, Unban
<1>8. ASSUME NEW p \in PaymentIds, GatewayWrite(p) PROVE RowsKnown'
  BY <1>0, <1>8 DEF GatewayWrite, SettleSession, RefundSession
<1> QED  BY StepCases, <1>1, <1>2, <1>3, <1>4, <1>5, <1>6, <1>7, <1>8

LEMMA SessionOpenedOnceStep ==
    ASSUME EnrollmentInv, [Next]_vars
    PROVE  SessionOpenedOnce'
<1> USE DEF TypeOK, SessionOpenedOnce, At
<1>0. /\ TypeOK /\ RowsKnown /\ SessionOpenedOnce
      /\ \A r \in Requests : HandlerKnows(r)
  BY DEF EnrollmentInv
<1>1. CASE UNCHANGED <<gateway, req>>
  BY <1>0, <1>1
<1>2. ASSUME NEW r \in Requests, NEW row \in Handler,
             row.pc # "initiatePayment", req' = [req EXCEPT ![r] = row],
             UNCHANGED gateway
      PROVE  SessionOpenedOnce'
  BY <1>0, <1>2
<1>3. ASSUME NEW r \in Requests, CreatePayment(r) PROVE SessionOpenedOnce'
  <2>1. CASE Answer(r)
    BY <1>2, <1>3, <2>1, IdleIsHandler DEF Answer, CreatePayment, IdleHandler
  <2>2. CASE ~Answer(r)
    <3>1. PICK p \in PaymentIds :
             /\ payment[p].status = "UNUSED"
             /\ req' = [req EXCEPT ![r].pc = "initiatePayment",
                                   ![r].payment = p]
      BY <1>3, <2>2 DEF CreatePayment
    <3>2. \A q \in Requests : At(q, "initiatePayment") => req[q].payment # p
      BY <1>0, <3>1 DEF HandlerKnows, PaymentSteps, JoinSteps
    <3>3. gateway[p] = "none"
      BY <1>0, <3>1 DEF RowsKnown
    <3>4. UNCHANGED gateway
      BY <1>3 DEF CreatePayment
    <3>5. /\ req'[r].payment = p
          /\ \A q \in Requests \ {r} : req'[q] = req[q]
      BY <1>0, <3>1 DEF Handler
    <3> QED  BY <1>0, <3>2, <3>3, <3>4, <3>5
  <2> QED  BY <2>1, <2>2
<1>4. ASSUME NEW r \in Requests, InitiatePayment(r) PROVE SessionOpenedOnce'
  BY <1>0, <1>4 DEF InitiatePayment, Handler
<1>5. ASSUME NEW p \in PaymentIds, GatewayWrite(p) PROVE SessionOpenedOnce'
  <2>1. gateway[p] # "none" /\ UNCHANGED req
    BY <1>5 DEF GatewayWrite, SettleSession, RefundSession
  <2>2. \A x \in PaymentIds : x # p => gateway'[x] = gateway[x]
    BY <1>0, <1>5 DEF GatewayWrite, SettleSession, RefundSession
  <2>3. \A q \in Requests : At(q, "initiatePayment") => req[q].payment \in PaymentIds
    BY <1>0 DEF HandlerKnows, PaymentSteps, JoinSteps
  <2> QED  BY <1>0, <2>1, <2>2, <2>3
<1>6. ASSUME NEW r \in Requests, HandlerStep(r) \/ Fail(r)
      PROVE  SessionOpenedOnce'
  <2> USE <1>2, IdleIsHandler DEF Answer, IdleHandler
  <2>1. CASE \/ CreateSeat(r) \/ StorePidx(r) \/ AnswerAlreadyVerified(r)
             \/ MarkFailed(r) \/ LinkSeat(r) \/ Fail(r)
    BY <2>1 DEF CreateSeat, StorePidx, AnswerAlreadyVerified, MarkFailed,
                LinkSeat, Fail
  <2>2. CASE FindNoSeat(r) \/ LookupPayment(r) \/ MarkPaid(r)
    BY <1>0, <2>2 DEF FindNoSeat, LookupPayment, MarkPaid, Handler
  <2>3. CASE CreatePaidSeat(r)
    BY <1>0, <2>3 DEF CreatePaidSeat, Handler
  <2> QED  BY <1>3, <1>4, <1>6, <2>1, <2>2, <2>3 DEF HandlerStep
<1>7. CASE Arrival
  <2>1. PICK r \in Requests, row \in Handler :
           /\ row.pc # "initiatePayment"
           /\ req' = [req EXCEPT ![r] = row]
           /\ UNCHANGED gateway
    <3>1. ASSUME NEW r \in Requests, NEW u \in Users, NEW e \in Events,
                 JoinEvent(r, u, e)
          PROVE  /\ req'[r] \in Handler /\ req'[r].pc # "initiatePayment"
                 /\ req' = [req EXCEPT ![r] = req'[r]]
                 /\ UNCHANGED gateway
      BY <1>0, <3>1 DEF JoinEvent, IdleHandler, Handler, JoinSteps
    <3>2. ASSUME NEW r \in Requests, NEW p \in PaymentIds,
                 VerifyEventPayment(r, p)
          PROVE  /\ req'[r] \in Handler /\ req'[r].pc # "initiatePayment"
                 /\ req' = [req EXCEPT ![r] = req'[r]]
                 /\ UNCHANGED gateway
      BY <1>0, <3>2 DEF VerifyEventPayment, IdleHandler, Handler, VerifySteps,
                        PaymentRow
    <3> QED  BY <1>7, <3>1, <3>2 DEF Arrival
  <2> QED  BY <1>2, <2>1
<1>8. CASE Environment
  BY <1>1, <1>5, <1>8
  DEF Environment, CreateEvent, UpdateEvent, WriteEvent, StartEvent,
      RemoveEvent, Ban, Unban, GatewayWrite
<1> QED  BY <1>1, <1>6, <1>7, <1>8 DEF Next, vars

\* A handler that does not move still knows what it knew: the rows kept their
\* owners.
LEMMA WaitingHandlerKnows ==
    ASSUME RowsKeepTheirOwner, NEW r \in Requests, HandlerKnows(r),
           req'[r] = req[r]
    PROVE  HandlerKnows(r)'
  BY DEF RowsKeepTheirOwner, HandlerKnows, At, Charged, PaymentSteps,
         JoinSteps, VerifySteps, SettledSteps

\* A handler that answered has nothing to know.
LEMMA IdleHandlerKnows ==
    ASSUME NEW r \in Requests, req'[r] = IdleHandler
    PROVE  HandlerKnows(r)'
  BY DEF HandlerKnows, At, IdleHandler, PaymentSteps, JoinSteps, VerifySteps,
         SettledSteps

LEMMA HandlerKnowsStep ==
    ASSUME EnrollmentInv, [Next]_vars
    PROVE  \A h \in Requests : HandlerKnows(h)'
<1>0. /\ TypeOK /\ RowsKnown /\ FreeIsRecorded
      /\ \A r \in Requests : HandlerKnows(r)
      /\ RowsKeepTheirOwner
  BY OwnersKept DEF EnrollmentInv
<1> USE DEF TypeOK
<1>1. ASSUME NEW r \in Requests, HandlerKnows(r)',
             \A q \in Requests : q # r => req'[q] = req[q]
      PROVE  \A h \in Requests : HandlerKnows(h)'
  BY <1>0, <1>1, WaitingHandlerKnows
<1>2. ASSUME NEW r \in Requests, Answer(r)
      PROVE  \A h \in Requests : HandlerKnows(h)'
  BY <1>0, <1>1, <1>2, IdleHandlerKnows DEF Answer
<1>3. ASSUME NEW r \in Requests, NEW u \in Users, NEW e \in Events,
             JoinEvent(r, u, e)
      PROVE  \A h \in Requests : HandlerKnows(h)'
  <2>1. /\ req'[r].event = e /\ req'[r].user = u
        /\ req'[r].pc \in {"createSeat", "createPayment"}
        /\ req'[r].pc = "createSeat" => e \in everFree'
    BY <1>0, <1>3 DEF JoinEvent, IdleHandler, FreeIsRecorded
  <2>2. HandlerKnows(r)'
    BY <2>1 DEF HandlerKnows, At, PaymentSteps, JoinSteps, VerifySteps,
                SettledSteps
  <2> QED  BY <1>0, <1>1, <1>3, <2>2 DEF JoinEvent
<1>4. ASSUME NEW r \in Requests, NEW p \in PaymentIds,
             VerifyEventPayment(r, p)
      PROVE  \A h \in Requests : HandlerKnows(h)'
  <2>1. /\ req'[r] = [IdleHandler EXCEPT !.pc = "findSeat", !.payment = p,
                          !.event = payment[p].event, !.user = payment[p].user]
        /\ payment[p].status # "UNUSED"
        /\ UNCHANGED payment
    BY <1>0, <1>4 DEF VerifyEventPayment, PaymentLive
  <2>2. HandlerKnows(r)'
    BY <1>0, <2>1 DEF IdleHandler, RowsKnown, HandlerKnows, At, SettledSteps
  <2> QED  BY <1>0, <1>1, <1>4, <2>2 DEF VerifyEventPayment
<1>5. ASSUME NEW r \in Requests, HandlerStep(r) \/ Fail(r)
      PROVE  \A h \in Requests : HandlerKnows(h)'
  <2> USE <1>0 DEF Handler
  <2>1. CASE \/ CreateSeat(r) \/ StorePidx(r) \/ AnswerAlreadyVerified(r)
             \/ MarkFailed(r) \/ LinkSeat(r) \/ Fail(r)
    BY <1>2, <2>1 DEF CreateSeat, StorePidx, AnswerAlreadyVerified, MarkFailed,
                      LinkSeat, Fail
  <2>2. CASE CreatePayment(r) /\ ~Answer(r)
    <3>1. PICK p \in PaymentIds :
             /\ payment' = [payment EXCEPT ![p] =
                   [status |-> "PENDING", event |-> req[r].event,
                    user |-> req[r].user, hasPidx |-> FALSE]]
             /\ req' = [req EXCEPT ![r].pc = "initiatePayment",
                                   ![r].payment = p]
      BY <2>2 DEF CreatePayment
    <3>a. req[r].event \in Events /\ req[r].user \in Users
      BY <2>2 DEF CreatePayment, HandlerKnows, At
    <3>b. /\ req'[r].pc = "initiatePayment" /\ req'[r].payment = p
          /\ req'[r].event = req[r].event /\ req'[r].user = req[r].user
      BY <3>1
    <3>c. payment'[p] = [status |-> "PENDING", event |-> req[r].event,
                         user |-> req[r].user, hasPidx |-> FALSE]
      BY <3>1
    <3>2. HandlerKnows(r)'
      BY <3>a, <3>b, <3>c DEF HandlerKnows, At, SettledSteps
    <3> QED  BY <1>1, <3>1, <3>2
  <2>3. CASE InitiatePayment(r)
    <3>1. HandlerKnows(r)'
      BY <2>3 DEF InitiatePayment, HandlerKnows, At, PaymentSteps, JoinSteps,
                  VerifySteps, SettledSteps
    <3> QED  BY <1>1, <2>3, <3>1 DEF InitiatePayment
  <2>4. CASE FindNoSeat(r)
    <3>1. HandlerKnows(r)'
      BY <2>4 DEF FindNoSeat, HandlerKnows, At, PaymentSteps, VerifySteps,
                  SettledSteps
    <3> QED  BY <1>1, <2>4, <3>1 DEF FindNoSeat
  <2>5. CASE LookupPayment(r)
    <3>1. HandlerKnows(r)'
      BY <2>5 DEF LookupPayment, HandlerKnows, At, PaymentSteps, VerifySteps,
                  SettledSteps, Charged
    <3> QED  BY <1>1, <2>5, <3>1 DEF LookupPayment
  <2>6. CASE MarkPaid(r) /\ ~Answer(r)
    <3>1. /\ req' = [req EXCEPT ![r].pc = "createPaidSeat"]
          /\ At(r, "markPaid") /\ UNCHANGED gateway
      BY <2>6 DEF MarkPaid
    <3>2. HandlerKnows(r)'
      BY <3>1 DEF RowsKeepTheirOwner, HandlerKnows, At, PaymentSteps,
                  VerifySteps, SettledSteps, Charged
    <3> QED  BY <1>1, <3>1, <3>2
  <2>7. CASE CreatePaidSeat(r) /\ ~Answer(r)
    <3>1. PICK s \in SeatIds :
             /\ seat' = [seat EXCEPT ![s] =
                   [state |-> "live", event |-> req[r].event,
                    user |-> req[r].user, payment |-> None]]
             /\ req' = [req EXCEPT ![r].pc = "linkSeat", ![r].seat = s]
      BY <2>7 DEF CreatePaidSeat
    <3>2. At(r, "createPaidSeat") /\ UNCHANGED <<payment, gateway>>
      BY <2>7 DEF CreatePaidSeat
    <3>3. HandlerKnows(r)'
      BY <3>1, <3>2 DEF HandlerKnows, At, PaymentSteps, VerifySteps,
                        SettledSteps, Charged
    <3> QED  BY <1>1, <3>1, <3>3
  <2> QED
    BY <1>2, <1>5, <2>1, <2>2, <2>3, <2>4, <2>5, <2>6, <2>7 DEF HandlerStep
<1>6. CASE UNCHANGED req
  BY <1>0, <1>6, WaitingHandlerKnows
<1>7. CASE Environment
  BY <1>6, <1>7
  DEF Environment, CreateEvent, UpdateEvent, WriteEvent, StartEvent,
      RemoveEvent, Ban, Unban, SettleSession, RefundSession
<1> QED
  BY <1>3, <1>4, <1>5, <1>6, <1>7 DEF Next, Arrival, vars

LEMMA NoOrphansStep ==
    ASSUME EnrollmentInv, [Next]_vars
    PROVE  NoOrphans'
<1> USE DEF TypeOK, NoOrphans, EventLive, PaymentLive, SeatLive
<1>0. TypeOK /\ RowsKnown /\ NoOrphans
      /\ \A r \in Requests : HandlerKnows(r)
  BY DEF EnrollmentInv
<1>1. CASE TablesUntouched
  BY <1>0, <1>1 DEF TablesUntouched
<1>2. ASSUME NEW r \in Requests, SeatWrite(r) PROVE NoOrphans'
  <2>1. CASE CreateSeat(r) \/ CreatePaidSeat(r)
    BY <1>0, <2>1 DEF CreateSeat, CreatePaidSeat
  <2>2. CASE LinkSeat(r)
    BY <1>0, <2>2 DEF LinkSeat, SeatRow
  <2> QED  BY <1>2, <2>1, <2>2 DEF SeatWrite
<1>3. ASSUME NEW r \in Requests, PaymentWrite(r) PROVE NoOrphans'
  <2>1. CASE CreatePayment(r)
    BY <1>0, <2>1 DEF CreatePayment
  <2>2. CASE StorePidx(r)
    BY <1>0, <2>2 DEF StorePidx, PaymentRow
  <2>3. CASE MarkPaid(r)
    BY <1>0, <2>3 DEF MarkPaid, PaymentRow
  <2>4. CASE MarkFailed(r)
    BY <1>0, <2>4 DEF MarkFailed, PaymentRow
  <2> QED  BY <1>3, <2>1, <2>2, <2>3, <2>4 DEF PaymentWrite
<1>4. ASSUME NEW r \in Requests, InitiatePayment(r) PROVE NoOrphans'
  BY <1>0, <1>4 DEF InitiatePayment
<1>5. ASSUME NEW e \in Events, EventWrite(e) PROVE NoOrphans'
  <2>1. \A x \in Events : event[x].state = "live" => event'[x].state = "live"
    BY <1>0, <1>5 DEF EventWrite, CreateEvent, UpdateEvent, WriteEvent,
                      StartEvent, EventRow
  <2>2. UNCHANGED <<payment, seat, bans>>
    BY <1>5 DEF EventWrite, CreateEvent, UpdateEvent, WriteEvent, StartEvent
  <2> QED  BY <1>0, <2>1, <2>2 DEF RowsKnown
<1>6. ASSUME NEW e \in Events, RemoveEvent(e) PROVE NoOrphans'
  <2>1. \A x \in Events : x # e => event'[x] = event[x]
    BY <1>0, <1>6 DEF RemoveEvent
  <2>2. ASSUME NEW p \in PaymentIds, PaymentLive(p)'
        PROVE  EventLive(payment[p].event)'
    <3>1. PaymentLive(p) /\ payment'[p] = payment[p] /\ payment[p].event # e
      BY <1>0, <1>6, <2>2 DEF RemoveEvent, PaymentRow
    <3> QED  BY <1>0, <2>1, <3>1 DEF RowsKnown
  <2>3. ASSUME NEW s \in SeatIds, SeatLive(s)'
        PROVE  EventLive(seat[s].event)'
    <3>1. SeatLive(s) /\ seat'[s] = seat[s] /\ seat[s].event # e
      BY <1>0, <1>6, <2>3 DEF RemoveEvent, SeatRow
    <3> QED  BY <1>0, <2>1, <3>1 DEF RowsKnown
  <2>4. ASSUME NEW s \in bans' PROVE SeatLive(s)'
    BY <1>0, <1>6, <2>4 DEF RemoveEvent, SeatRow
  <2> QED  BY <2>2, <2>3, <2>4
<1>7. ASSUME NEW s \in SeatIds, Ban(s) \/ Unban(s) PROVE NoOrphans'
  BY <1>0, <1>7 DEF Ban, Unban
<1>8. ASSUME NEW p \in PaymentIds, GatewayWrite(p) PROVE NoOrphans'
  BY <1>0, <1>8 DEF GatewayWrite, SettleSession, RefundSession
<1> QED  BY StepCases, <1>1, <1>2, <1>3, <1>4, <1>5, <1>6, <1>7, <1>8

\* A payment becomes PAID only in MarkPaid, whose handler saw it Completed.
LEMMA PaidOnlyIfChargedStep ==
    ASSUME EnrollmentInv, [Next]_vars
    PROVE  PaidOnlyIfCharged'
<1> USE DEF TypeOK, PaidOnlyIfCharged, Charged
<1>0. /\ TypeOK /\ PaidOnlyIfCharged /\ RowsKeepTheirOwner
      /\ \A r \in Requests : HandlerKnows(r)
  BY OwnersKept DEF EnrollmentInv
<1>1. SUFFICES ASSUME NEW p \in PaymentIds,
                      payment'[p].status = "PAID",
                      payment[p].status # "PAID"
               PROVE  gateway'[p] \in {"Completed", "Refunded"}
  BY <1>0 DEF RowsKeepTheirOwner
<1>2. CASE UNCHANGED payment
  BY <1>1, <1>2
<1>3. ASSUME NEW r \in Requests, PaymentWrite(r)
      PROVE  gateway'[p] \in {"Completed", "Refunded"}
  <2>1. MarkPaid(r) /\ req[r].payment = p
    BY <1>0, <1>1, <1>3 DEF PaymentWrite, CreatePayment, StorePidx, MarkPaid,
                            MarkFailed, PaymentRow
  <2> QED
    BY <1>0, <2>1 DEF MarkPaid, HandlerKnows, At, SettledSteps
<1>4. ASSUME NEW e \in Events, RemoveEvent(e) PROVE FALSE
  BY <1>0, <1>1, <1>4 DEF RemoveEvent, PaymentRow
<1> QED
  BY StepCases, <1>2, <1>3, <1>4
  DEF TablesUntouched, SeatWrite, CreateSeat, CreatePaidSeat, LinkSeat,
      InitiatePayment, EventWrite, CreateEvent, UpdateEvent, WriteEvent,
      StartEvent, Ban, Unban, GatewayWrite, SettleSession, RefundSession

\* Entitlement outlives everything: the money taken and the free period stay.
LEMMA EntitledForGood ==
    ASSUME RowsKnown, RowsKeepTheirOwner, NEW u, NEW e, Entitled(u, e)
    PROVE  Entitled(u, e)'
<1>1. CASE e \in everFree
  BY <1>1 DEF RowsKeepTheirOwner, Entitled
<1>2. ASSUME NEW p \in PaymentIds, Charged(p),
             payment[p].user = u, payment[p].event = e
      PROVE  Entitled(u, e)'
  <2>1. payment[p].status # "UNUSED"
    BY <1>2 DEF RowsKnown, Charged
  <2>2. Charged(p)' /\ payment'[p].user = u /\ payment'[p].event = e
    BY <1>2, <2>1 DEF RowsKeepTheirOwner, Charged
  <2> QED  BY <2>2 DEF Entitled
<1> QED  BY <1>1, <1>2 DEF Entitled

\* A handler about to insert a seat acts for an entitled user, although the
\* event may have been edited or removed since it read it.
LEMMA InsertIsEntitled ==
    ASSUME NEW r \in Requests, HandlerKnows(r),
           At(r, "createSeat") \/ At(r, "createPaidSeat")
    PROVE  Entitled(req[r].user, req[r].event)
<1>1. CASE At(r, "createSeat")
  BY <1>1 DEF HandlerKnows, Entitled
<1>2. CASE At(r, "createPaidSeat")
  BY <1>2 DEF HandlerKnows, At, PaymentSteps, VerifySteps, SettledSteps,
              Entitled
<1> QED  BY <1>1, <1>2

LEMMA NoFreeRideStep ==
    ASSUME EnrollmentInv, [Next]_vars
    PROVE  NoFreeRide'
<1> USE DEF TypeOK, SeatLive
<1>0. /\ TypeOK /\ RowsKnown /\ NoFreeRide /\ RowsKeepTheirOwner
      /\ \A r \in Requests : HandlerKnows(r)
  BY OwnersKept DEF EnrollmentInv
<1>1. SUFFICES ASSUME NEW s \in SeatIds, NEW u, NEW e,
                      seat'[s].state = "live",
                      u = seat'[s].user, e = seat'[s].event
               PROVE  Entitled(u, e)'
  <2>1. SUFFICES ASSUME NEW s \in SeatIds, SeatLive(s)'
                 PROVE  Entitled(seat[s].user, seat[s].event)'
    BY DEF NoFreeRide
  <2>2. PICK u, e : u = seat'[s].user /\ e = seat'[s].event
    OBVIOUS
  <2> QED  BY <2>1, <2>2 DEF Entitled
<1>2. CASE seat[s].state = "live"
  <2>1. seat[s].user = u /\ seat[s].event = e
    BY <1>0, <1>1, <1>2 DEF RowsKeepTheirOwner
  <2>2. Entitled(u, e)
    BY <1>0, <1>2, <2>1 DEF NoFreeRide
  <2> QED  BY <1>0, <2>2, EntitledForGood
<1>3. CASE seat[s].state # "live"
  <2>1. PICK r \in Requests : CreateSeat(r) \/ CreatePaidSeat(r)
    <3>1. ASSUME NEW r \in Requests, LinkSeat(r) PROVE FALSE
      BY <1>0, <1>1, <1>3, <3>1 DEF LinkSeat, SeatRow
    <3>2. ASSUME NEW x \in Events, RemoveEvent(x) PROVE FALSE
      BY <1>0, <1>1, <1>3, <3>2 DEF RemoveEvent, SeatRow
    <3>3. \E r \in Requests : SeatWrite(r)
      BY StepCases, <1>1, <1>3, <3>2
      DEF TablesUntouched, PaymentWrite, CreatePayment, StorePidx, MarkPaid,
          MarkFailed, InitiatePayment, EventWrite, CreateEvent, UpdateEvent,
          WriteEvent, StartEvent, Ban, Unban, GatewayWrite, SettleSession,
          RefundSession
    <3> QED  BY <3>1, <3>3 DEF SeatWrite
  <2>2. req[r].user = u /\ req[r].event = e
    BY <1>0, <1>1, <1>3, <2>1 DEF CreateSeat, CreatePaidSeat
  <2>3. Entitled(u, e)
    BY <1>0, <2>1, <2>2, InsertIsEntitled DEF CreateSeat, CreatePaidSeat
  <2> QED  BY <1>0, <2>3, EntitledForGood
<1> QED  BY <1>2, <1>3

\* Only LinkSeat sets a link, to a payment its handler knows.
LEMMA LinkedPaymentMatchesStep ==
    ASSUME EnrollmentInv, NoOrphans', TypeOK', RowsKnown', [Next]_vars
    PROVE  LinkedPaymentMatches'
<1> USE DEF TypeOK, SeatLive
<1>0. /\ TypeOK /\ RowsKnown /\ LinkedPaymentMatches /\ RowsKeepTheirOwner
      /\ \A r \in Requests : HandlerKnows(r)
  BY OwnersKept DEF EnrollmentInv
<1>1. SUFFICES ASSUME NEW s \in SeatIds, seat'[s].state = "live",
                      NEW p, p = seat'[s].payment, p # None
               PROVE  /\ PaymentLive(p)' /\ Charged(p)'
                      /\ payment'[p].user = seat'[s].user
                      /\ payment'[p].event = seat'[s].event
  <2>1. SUFFICES ASSUME NEW s \in SeatIds, SeatLive(s)',
                        NEW p, p = seat'[s].payment, p # None
                 PROVE  /\ PaymentLive(p)' /\ Charged(p)'
                        /\ payment'[p].user = seat'[s].user
                        /\ payment'[p].event = seat'[s].event
    BY DEF LinkedPaymentMatches, PaymentLive, Charged
  <2> QED  BY <1>1, <2>1
<1>2. p \in PaymentIds
  BY <1>1 DEF SeatRow
<1>3. ASSUME payment'[p].status # "UNUSED", Charged(p)',
             payment'[p].user = seat'[s].user,
             payment'[p].event = seat'[s].event
      PROVE  PaymentLive(p)'
  <2>1. event'[seat'[s].event].state = "live"
    BY <1>1 DEF NoOrphans, EventLive
  <2>2. payment'[p].status # "DELETED"
    BY <1>2, <1>3, <2>1 DEF RowsKnown
  <2> QED  BY <1>2, <1>3, <2>2 DEF PaymentRow, PaymentLive
<1>4. CASE seat[s].state = "live" /\ seat[s].payment = p
  <2>1. /\ payment[p].status # "UNUSED" /\ Charged(p)
        /\ payment[p].user = seat[s].user /\ payment[p].event = seat[s].event
    BY <1>0, <1>1, <1>4 DEF LinkedPaymentMatches, PaymentLive
  <2>2. /\ payment'[p].status # "UNUSED" /\ Charged(p)'
        /\ payment'[p].user = seat'[s].user
        /\ payment'[p].event = seat'[s].event
    BY <1>0, <1>2, <1>4, <2>1 DEF RowsKeepTheirOwner, Charged
  <2> QED  BY <1>3, <2>2
<1>5. CASE ~(seat[s].state = "live" /\ seat[s].payment = p)
  <2>1. PICK r \in Requests : LinkSeat(r)
    <3>1. ASSUME NEW r \in Requests, CreateSeat(r) \/ CreatePaidSeat(r)
          PROVE  FALSE
      BY <1>0, <1>1, <1>5, <3>1 DEF CreateSeat, CreatePaidSeat
    <3>2. ASSUME NEW e \in Events, RemoveEvent(e) PROVE FALSE
      BY <1>0, <1>1, <1>5, <3>2 DEF RemoveEvent, SeatRow
    <3>3. \E r \in Requests : SeatWrite(r)
      BY StepCases, <1>1, <1>5, <3>2
      DEF TablesUntouched, PaymentWrite, CreatePayment, StorePidx, MarkPaid,
          MarkFailed, InitiatePayment, EventWrite, CreateEvent, UpdateEvent,
          WriteEvent, StartEvent, Ban, Unban, GatewayWrite, SettleSession,
          RefundSession
    <3> QED  BY <3>1, <3>3 DEF SeatWrite
  <2>2. req[r].seat = s /\ p = req[r].payment
    BY <1>0, <1>1, <1>5, <2>1 DEF LinkSeat, SeatRow
  <2>3. /\ payment[p].status # "UNUSED" /\ Charged(p)
        /\ payment[p].user = seat[s].user /\ payment[p].event = seat[s].event
        /\ seat[s].state # "unused"
    BY <1>0, <2>1, <2>2 DEF LinkSeat, HandlerKnows, At, PaymentSteps,
                            VerifySteps, SettledSteps
  <2>4. /\ payment'[p].status # "UNUSED" /\ Charged(p)'
        /\ payment'[p].user = seat'[s].user
        /\ payment'[p].event = seat'[s].event
    BY <1>0, <1>2, <2>3 DEF RowsKeepTheirOwner, Charged
  <2> QED  BY <1>3, <2>4
<1> QED  BY <1>4, <1>5

-----------------------------------------------------------------------------
(* The theorems *)

LEMMA InitInv == Init => EnrollmentInv
<1> SUFFICES ASSUME Init PROVE EnrollmentInv
  OBVIOUS
<1>1. TypeOK
  BY IdleIsHandler
  DEF Init, TypeOK, EventRow, PaymentRow, SeatRow, SessionStatus
<1>2. RowsKnown /\ FreeIsRecorded /\ SessionOpenedOnce
  BY DEF Init, RowsKnown, FreeIsRecorded, SessionOpenedOnce, EventLive, At,
         IdleHandler
<1>3. \A r \in Requests : HandlerKnows(r)
  BY DEF Init, HandlerKnows, At, IdleHandler, PaymentSteps, JoinSteps,
         VerifySteps, SettledSteps
<1>4. NoOrphans /\ PaidOnlyIfCharged /\ NoFreeRide /\ LinkedPaymentMatches
  BY DEF Init, NoOrphans, PaidOnlyIfCharged, NoFreeRide, LinkedPaymentMatches,
         PaymentLive, SeatLive
<1> QED  BY <1>1, <1>2, <1>3, <1>4 DEF EnrollmentInv

LEMMA StepInv == EnrollmentInv /\ [Next]_vars => EnrollmentInv'
<1> SUFFICES ASSUME EnrollmentInv, [Next]_vars PROVE EnrollmentInv'
  OBVIOUS
<1>1. TypeOK'
  BY TypeStep DEF EnrollmentInv
<1>2. FreeIsRecorded'
  BY FreeIsRecordedStep DEF EnrollmentInv
<1>3. RowsKnown'
  BY RowsKnownStep
<1>4. \A r \in Requests : HandlerKnows(r)'
  BY HandlerKnowsStep
<1>5. SessionOpenedOnce'
  BY SessionOpenedOnceStep
<1>6. NoOrphans'
  BY NoOrphansStep
<1>7. PaidOnlyIfCharged' /\ NoFreeRide'
  BY PaidOnlyIfChargedStep, NoFreeRideStep
<1>8. LinkedPaymentMatches'
  BY <1>1, <1>3, <1>6, LinkedPaymentMatchesStep
<1> QED
  BY <1>1, <1>2, <1>3, <1>4, <1>5, <1>6, <1>7, <1>8 DEF EnrollmentInv

\* The inductive invariant holds of every execution, with any number of users,
\* events and handlers in flight and any interleaving and failure of them.
THEOREM InductiveInvariant == Spec => []EnrollmentInv
  BY InitInv, StepInv, PTL DEF Spec

\* joinEvent and verifyEventPayment never leave a seat nobody is entitled to.
THEOREM NoSeatForFree == Spec => []NoFreeRide
<1>1. EnrollmentInv => NoFreeRide
  BY DEF EnrollmentInv
<1> QED  BY <1>1, InductiveInvariant, PTL

\* The organizer's revenue counts only money Khalti took.
THEOREM PaymentsAreReal == Spec => []PaidOnlyIfCharged
<1>1. EnrollmentInv => PaidOnlyIfCharged
  BY DEF EnrollmentInv
<1> QED  BY <1>1, InductiveInvariant, PTL

\* A seat's link names a payment that was taken of the same user for the same
\* event.
THEOREM LinksAreTrue == Spec => []LinkedPaymentMatches
<1>1. EnrollmentInv => LinkedPaymentMatches
  BY DEF EnrollmentInv
<1> QED  BY <1>1, InductiveInvariant, PTL

\* Removing an event leaves no payment, seat or ban behind, now or later.
THEOREM CascadeIsComplete == Spec => []NoOrphans
<1>1. EnrollmentInv => NoOrphans
  BY DEF EnrollmentInv
<1> QED  BY <1>1, InductiveInvariant, PTL

\* No step of any handler takes back what another one read before its await.
THEOREM OwnersNeverChange == Spec => NothingIsTakenBack
<1>1. EnrollmentInv /\ [Next]_vars => [RowsKeepTheirOwner]_vars
  BY OwnersKept DEF EnrollmentInv
<1> QED  BY <1>1, InductiveInvariant, PTL DEF Spec, NothingIsTakenBack

-----------------------------------------------------------------------------
(* Verifications one at a time *)

\* A single slot for handlers.
OneSlot == \A r, q \in Requests : r = q

\* The steps of a verification that found no seat of its user, up to its own.
SeatlessSteps == {"lookupPayment", "markPaid", "markFailed", "createPaidSeat"}

\* Between the lookup and the insert the user gets no other seat, and when the
\* insert comes the payment is marked, or gone with its event.
LoneVerification(r) ==
    /\ req[r].pc \in SeatlessSteps =>
          req[r].event \in everFree \/ ~HasSeat(req[r].user, req[r].event)
    /\ At(r, "createPaidSeat") =>
          payment[req[r].payment].status \in {"PAID", "DELETED"}

SerialInv ==
    /\ SeatBacked
    /\ OneSeatPerUser
    /\ \A r \in Requests : LoneVerification(r)

\* Steps that insert no seat: those that live did before, with their columns.
SeatsOnlyGo ==
    \A s \in SeatIds :
        SeatLive(s)' =>
            /\ SeatLive(s)
            /\ seat'[s].user = seat[s].user /\ seat'[s].event = seat[s].event

\* Payments stay PAID, unless the event goes, and deleted ones deleted.
PaidStays ==
    \A p \in PaymentIds :
        /\ payment[p].status = "PAID" =>
              \/ payment'[p].status = "PAID"
              \/ /\ payment'[p].status = "DELETED"
                 /\ \A s \in SeatIds :
                       SeatLive(s)' => seat'[s].event # payment[p].event
        /\ payment[p].status = "DELETED" => payment'[p].status = "DELETED"

LEMMA SeatsStaySerial ==
    ASSUME EnrollmentInv, RowsKeepTheirOwner, SerialInv, SeatsOnlyGo
    PROVE  /\ OneSeatPerUser'
           /\ PaidStays => SeatBacked'
           /\ \A r \in Requests :
                 /\ PaidStays
                 /\ req'[r] = req[r] \/ req'[r].pc \notin SeatlessSteps
                 => LoneVerification(r)'
<1>1. /\ everFree \subseteq everFree' /\ SeatBacked /\ OneSeatPerUser
  BY DEF RowsKeepTheirOwner, SerialInv
<1>2. OneSeatPerUser'
  BY <1>1 DEF OneSeatPerUser, SeatsOnlyGo
<1>3. ASSUME PaidStays PROVE SeatBacked'
  <2>1. SUFFICES ASSUME NEW s \in SeatIds, SeatLive(s)',
                        seat'[s].event \notin everFree'
                 PROVE  \E p \in PaymentIds :
                           /\ payment'[p].status = "PAID"
                           /\ payment'[p].user = seat'[s].user
                           /\ payment'[p].event = seat'[s].event
    BY DEF SeatBacked
  <2>2. /\ SeatLive(s) /\ seat[s].event \notin everFree
        /\ seat'[s].user = seat[s].user /\ seat'[s].event = seat[s].event
    BY <1>1, <2>1 DEF SeatsOnlyGo
  <2>3. PICK p \in PaymentIds :
            /\ payment[p].status = "PAID"
            /\ payment[p].user = seat[s].user /\ payment[p].event = seat[s].event
    BY <1>1, <2>2 DEF SeatBacked
  <2>4. payment'[p].status = "PAID"
    BY <1>3, <2>1, <2>2, <2>3 DEF PaidStays
  <2> QED  BY <2>2, <2>3, <2>4 DEF RowsKeepTheirOwner
<1>4. ASSUME NEW r \in Requests, PaidStays, req'[r].pc \in SeatlessSteps,
             req'[r] = req[r]
      PROVE  LoneVerification(r)'
  <2>1. LoneVerification(r) /\ HandlerKnows(r)
    BY DEF SerialInv, EnrollmentInv
  <2>2. ASSUME At(r, "createPaidSeat")
        PROVE  payment'[req[r].payment].status \in {"PAID", "DELETED"}
    <3>1. PICK p \in PaymentIds :
              p = req[r].payment /\ payment[p].status \in {"PAID", "DELETED"}
      BY <2>1, <2>2 DEF HandlerKnows, LoneVerification, At, PaymentSteps, VerifySteps
    <3> QED  BY <1>4, <3>1 DEF PaidStays
  <2>3. ASSUME NEW u, NEW e, HasSeat(u, e)' PROVE HasSeat(u, e)
    BY <2>3 DEF HasSeat, SeatsOnlyGo
  <2> QED  BY <1>1, <1>4, <2>1, <2>2, <2>3 DEF LoneVerification, At
<1>5. ASSUME NEW r \in Requests, req'[r].pc \notin SeatlessSteps
      PROVE  LoneVerification(r)'
  BY <1>5 DEF LoneVerification, At, SeatlessSteps
<1> QED  BY <1>2, <1>3, <1>4, <1>5

\* Steps that do not touch payments, or mark one, or take an event's along.
LEMMA OtherStepsStaySerial ==
    ASSUME EnrollmentInv, RowsKeepTheirOwner, SerialInv, PaidStays, SeatsOnlyGo,
           \A r \in Requests : req'[r] = req[r] \/ req'[r].pc \notin SeatlessSteps
    PROVE  SerialInv'
  BY SeatsStaySerial DEF SerialInv

\* The seat that an insert adds is of a user that has none there, or of an event
\* that was free.
LEMMA InsertStaysSerial ==
    ASSUME EnrollmentInv, RowsKeepTheirOwner, SerialInv, OneSlot,
           NEW r \in Requests, CreateSeat(r) \/ CreatePaidSeat(r)
    PROVE  SerialInv'
<1>1. /\ TypeOK /\ RowsKnown /\ SeatBacked /\ OneSeatPerUser
      /\ HandlerKnows(r) /\ LoneVerification(r)
  BY DEF EnrollmentInv, SerialInv
<1>2. PICK u, e, p : u = req[r].user /\ e = req[r].event /\ p = req[r].payment
  OBVIOUS
<1>3. /\ payment' = payment /\ everFree' = everFree
      /\ req'[r].pc \notin SeatlessSteps
  <2>1. payment' = payment /\ everFree' = everFree
    BY DEF CreateSeat, CreatePaidSeat
  <2>2. CASE Answer(r)
    BY <1>1, <2>1, <2>2 DEF Answer, IdleHandler, SeatlessSteps, TypeOK
  <2>3. CASE \E s \in SeatIds :
                req' = [req EXCEPT ![r].pc = "linkSeat", ![r].seat = s]
    <3>1. req'[r].pc = "linkSeat"
      BY <1>1, <2>3 DEF TypeOK, Handler
    <3> QED  BY <2>1, <3>1 DEF SeatlessSteps
  <2> QED  BY <2>2, <2>3 DEF CreateSeat, CreatePaidSeat
<1>4. \A q \in Requests : LoneVerification(q)'
  <2>1. LoneVerification(r)'
    BY <1>3 DEF LoneVerification, At, SeatlessSteps
  <2> QED  BY <2>1 DEF OneSlot
<1>5. CASE seat' = seat
  BY <1>1, <1>3, <1>4, <1>5 DEF SerialInv, SeatBacked, OneSeatPerUser, SeatLive
<1>6. ASSUME NEW s \in SeatIds, EventLive(e),
             seat' = [seat EXCEPT ![s] = [state |-> "live", event |-> e,
                                          user |-> u, payment |-> None]]
      PROVE  SerialInv'
  <2>1. e \in everFree \/ (~HasSeat(u, e) /\ At(r, "createPaidSeat"))
    BY <1>1, <1>2 DEF CreateSeat, CreatePaidSeat, HandlerKnows, LoneVerification,
                      At, SeatlessSteps
  <2>2. /\ seat'[s].state = "live" /\ seat'[s].event = e /\ seat'[s].user = u
        /\ \A t \in SeatIds \ {s} : seat'[t] = seat[t]
    BY <1>1, <1>6 DEF TypeOK
  <2>3. ASSUME e \notin everFree
        PROVE  payment[p].status = "PAID" /\ payment[p].user = u
               /\ payment[p].event = e /\ p \in PaymentIds
    BY <1>1, <1>2, <1>6, <2>1, <2>3
       DEF HandlerKnows, LoneVerification, At, PaymentSteps, VerifySteps,
           RowsKnown, EventLive
  <2>4. SeatBacked'
    BY <1>1, <1>3, <2>2, <2>3 DEF SeatBacked, SeatLive
  <2>5. OneSeatPerUser'
    BY <1>1, <1>3, <2>1, <2>2 DEF OneSeatPerUser, SeatLive, HasSeat
  <2> QED  BY <1>4, <2>4, <2>5 DEF SerialInv
<1> QED  BY <1>2, <1>5, <1>6 DEF CreateSeat, CreatePaidSeat

\* A payment is marked FAILED only while its user has no seat there.
LEMMA MarkFailedStaysSerial ==
    ASSUME EnrollmentInv, RowsKeepTheirOwner, SerialInv, OneSlot,
           NEW r \in Requests, MarkFailed(r)
    PROVE  SerialInv'
<1>1. /\ TypeOK /\ SeatBacked /\ HandlerKnows(r) /\ LoneVerification(r)
  BY DEF EnrollmentInv, SerialInv
<1>2. PICK p \in PaymentIds : p = req[r].payment
  BY <1>1 DEF HandlerKnows, MarkFailed, At, PaymentSteps, VerifySteps
<1>3. /\ seat' = seat /\ everFree' = everFree
      /\ req'[r].pc = "idle"
      /\ \A q \in PaymentIds \ {p} : payment'[q] = payment[q]
  BY <1>1, <1>2 DEF MarkFailed, Answer, IdleHandler, TypeOK
<1>4. ASSUME payment[p].event \notin everFree
      PROVE  ~HasSeat(payment[p].user, payment[p].event)
  BY <1>1, <1>2, <1>4 DEF MarkFailed, HandlerKnows, LoneVerification, At,
                          SeatlessSteps, PaymentSteps, VerifySteps
<1>5. SeatBacked'
  <2>1. ASSUME NEW s \in SeatIds, SeatLive(s), seat[s].event \notin everFree
        PROVE  \E q \in PaymentIds :
                  /\ payment'[q].status = "PAID"
                  /\ payment'[q].user = seat[s].user
                  /\ payment'[q].event = seat[s].event
    <3>1. PICK q \in PaymentIds :
              /\ payment[q].status = "PAID"
              /\ payment[q].user = seat[s].user /\ payment[q].event = seat[s].event
      BY <1>1, <2>1 DEF SeatBacked
    <3>2. q # p
      BY <1>4, <2>1, <3>1 DEF HasSeat
    <3> QED  BY <1>3, <3>1, <3>2
  <2> QED  BY <1>3, <2>1 DEF SeatBacked, SeatLive
<1>6. OneSeatPerUser'
  BY <1>3 DEF SerialInv, OneSeatPerUser, SeatLive
<1>7. \A q \in Requests : LoneVerification(q)'
  BY <1>3 DEF OneSlot, LoneVerification, At, SeatlessSteps
<1> QED  BY <1>5, <1>6, <1>7 DEF SerialInv

\* The steps that make a verification one that found no seat, or move it on.
LEMMA SeatlessStaysSerial ==
    ASSUME EnrollmentInv, RowsKeepTheirOwner, SerialInv, OneSlot,
           NEW r \in Requests, FindNoSeat(r) \/ LookupPayment(r) \/ MarkPaid(r)
    PROVE  SerialInv'
<1>1. TypeOK /\ HandlerKnows(r) /\ LoneVerification(r)
  BY DEF EnrollmentInv, SerialInv
<1>2. PICK p \in PaymentIds : p = req[r].payment
  BY <1>1 DEF HandlerKnows, FindNoSeat, LookupPayment, MarkPaid, At,
              PaymentSteps, VerifySteps
<1>3. seat' = seat /\ everFree' = everFree
  BY DEF FindNoSeat, LookupPayment, MarkPaid
<1>4. SeatsOnlyGo
  BY <1>3 DEF SeatsOnlyGo, SeatLive
<1>5. PaidStays
  <2>1. CASE payment' = payment
    BY <2>1 DEF PaidStays
  <2>2. CASE PaymentLive(p) /\ payment' = [payment EXCEPT ![p].status = "PAID"]
    BY <1>1, <2>2 DEF PaidStays, PaymentLive, TypeOK, PaymentRow
  <2> QED  BY <1>2, <2>1, <2>2 DEF FindNoSeat, LookupPayment, MarkPaid
<1>6. SeatBacked' /\ OneSeatPerUser'
  BY <1>4, <1>5, SeatsStaySerial
<1>7. ASSUME req'[r].event = req[r].event, req'[r].user = req[r].user,
             req'[r].payment = p,
             req[r].event \in everFree \/ ~HasSeat(req[r].user, req[r].event),
             req'[r].pc = "createPaidSeat" => payment'[p].status = "PAID"
      PROVE  LoneVerification(r)'
  <2>1. ASSUME NEW u, NEW e, HasSeat(u, e)' PROVE HasSeat(u, e)
    BY <1>3, <2>1 DEF HasSeat, SeatLive
  <2> QED  BY <1>3, <1>7, <2>1 DEF LoneVerification, At
<1>8. ASSUME NEW pc, req' = [req EXCEPT ![r].pc = pc]
      PROVE  /\ req'[r].event = req[r].event /\ req'[r].user = req[r].user
             /\ req'[r].payment = p /\ req'[r].pc = pc
  BY <1>1, <1>2, <1>8 DEF TypeOK, Handler
<1>9. ASSUME FindNoSeat(r) PROVE LoneVerification(r)'
  <2>1. req' = [req EXCEPT ![r].pc = "lookupPayment"]
    BY <1>9 DEF FindNoSeat
  <2>2. ~HasSeat(req[r].user, req[r].event)
    BY <1>9 DEF FindNoSeat
  <2>3. /\ req'[r].event = req[r].event /\ req'[r].user = req[r].user
        /\ req'[r].payment = p /\ req'[r].pc = "lookupPayment"
    BY <1>8, <2>1
  <2> QED  BY <1>7, <2>2, <2>3
<1>10. ASSUME LookupPayment(r) PROVE LoneVerification(r)'
  <2>1. req[r].event \in everFree \/ ~HasSeat(req[r].user, req[r].event)
    BY <1>1, <1>10 DEF LookupPayment, LoneVerification, At, SeatlessSteps
  <2>2. PICK pc \in {"markPaid", "markFailed"} : req' = [req EXCEPT ![r].pc = pc]
    BY <1>10 DEF LookupPayment
  <2>3. /\ req'[r].event = req[r].event /\ req'[r].user = req[r].user
        /\ req'[r].payment = p /\ req'[r].pc = pc
    BY <1>8, <2>2
  <2> QED  BY <1>7, <2>1, <2>3
<1>11. ASSUME MarkPaid(r) PROVE LoneVerification(r)'
  <2>1. req[r].event \in everFree \/ ~HasSeat(req[r].user, req[r].event)
    BY <1>1, <1>11 DEF MarkPaid, LoneVerification, At, SeatlessSteps
  <2>2. ASSUME payment' = [payment EXCEPT ![p].status = "PAID"],
               req' = [req EXCEPT ![r].pc = "createPaidSeat"]
        PROVE  LoneVerification(r)'
    <3>1. payment'[p].status = "PAID"
      BY <1>1, <2>2 DEF TypeOK, PaymentRow
    <3>2. /\ req'[r].event = req[r].event /\ req'[r].user = req[r].user
          /\ req'[r].payment = p
      BY <1>8, <2>2
    <3> QED  BY <1>7, <2>1, <3>1, <3>2
  <2>3. ASSUME Answer(r) PROVE LoneVerification(r)'
    BY <1>1, <2>3 DEF Answer, IdleHandler, TypeOK, LoneVerification, At,
                      SeatlessSteps
  <2>4. CASE PaymentLive(p)
    <3>1. /\ payment' = [payment EXCEPT ![p].status = "PAID"]
          /\ req' = [req EXCEPT ![r].pc = "createPaidSeat"]
      BY <1>2, <1>11, <2>4 DEF MarkPaid
    <3> QED  BY <2>2, <3>1
  <2>5. CASE ~PaymentLive(p)
    BY <1>2, <1>11, <2>3, <2>5 DEF MarkPaid
  <2> QED  BY <2>4, <2>5
<1>12. \A q \in Requests : LoneVerification(q)'
  <2>1. LoneVerification(r)'
    BY <1>9, <1>10, <1>11
  <2>2. \A q \in Requests : q = r
    BY DEF OneSlot
  <2> QED  BY <2>1, <2>2
<1> QED  BY <1>6, <1>12 DEF SerialInv

LEMMA SerialStep ==
    ASSUME OneSlot, EnrollmentInv, SerialInv, [Next]_vars
    PROVE  SerialInv'
<1>1. /\ TypeOK /\ RowsKeepTheirOwner
  BY OwnersKept DEF EnrollmentInv
<1>2. ASSUME seat' = seat, payment' = payment,
             \A r \in Requests :
                req'[r] = req[r] \/ req'[r].pc \notin SeatlessSteps
      PROVE  SerialInv'
  BY <1>1, <1>2, OtherStepsStaySerial DEF SeatsOnlyGo, SeatLive, PaidStays
<1>3. ASSUME NEW r \in Requests, Answer(r)
      PROVE  \A q \in Requests :
                req'[q] = req[q] \/ req'[q].pc \notin SeatlessSteps
  BY <1>1, <1>3 DEF Answer, IdleHandler, TypeOK, SeatlessSteps
<1>4. ASSUME NEW r \in Requests, NEW u \in Users, NEW e \in Events,
             JoinEvent(r, u, e)
      PROVE  SerialInv'
  BY <1>1, <1>2, <1>4 DEF JoinEvent, IdleHandler, TypeOK, SeatlessSteps
<1>5. ASSUME NEW r \in Requests, NEW p \in PaymentIds, VerifyEventPayment(r, p)
      PROVE  SerialInv'
  BY <1>1, <1>2, <1>5 DEF VerifyEventPayment, IdleHandler, TypeOK, SeatlessSteps
<1>6. ASSUME NEW r \in Requests, CreatePayment(r) PROVE SerialInv'
  <2>1. PaidStays /\ SeatsOnlyGo
    BY <1>1, <1>6 DEF CreatePayment, PaidStays, SeatsOnlyGo, SeatLive, TypeOK
  <2>2. CASE Answer(r)
    BY <1>1, <1>3, <2>1, <2>2, OtherStepsStaySerial
  <2>3. ASSUME NEW p \in PaymentIds,
               req' = [req EXCEPT ![r].pc = "initiatePayment", ![r].payment = p]
        PROVE  SerialInv'
    <3>1. \A q \in Requests :
              req'[q] = req[q] \/ req'[q].pc \notin SeatlessSteps
      BY <1>1, <2>3 DEF TypeOK, Handler, SeatlessSteps
    <3> QED  BY <1>1, <2>1, <3>1, OtherStepsStaySerial
  <2> QED  BY <1>6, <2>2, <2>3 DEF CreatePayment
<1>7. ASSUME NEW r \in Requests, InitiatePayment(r) PROVE SerialInv'
  BY <1>1, <1>2, <1>7 DEF InitiatePayment, TypeOK, Handler, SeatlessSteps
<1>8. ASSUME NEW r \in Requests, StorePidx(r) PROVE SerialInv'
  <2>1. PaidStays /\ SeatsOnlyGo
    BY <1>1, <1>8 DEF StorePidx, PaidStays, SeatsOnlyGo, SeatLive, TypeOK, PaymentRow
  <2> QED  BY <1>1, <1>3, <1>8, <2>1, OtherStepsStaySerial DEF StorePidx
<1>9. ASSUME NEW r \in Requests, AnswerAlreadyVerified(r) \/ Fail(r)
      PROVE  SerialInv'
  BY <1>2, <1>3, <1>9 DEF AnswerAlreadyVerified, Fail
<1>10. ASSUME NEW r \in Requests, LinkSeat(r) PROVE SerialInv'
  <2>1. PaidStays /\ SeatsOnlyGo
    BY <1>1, <1>10 DEF LinkSeat, PaidStays, SeatsOnlyGo, SeatLive, TypeOK, SeatRow
  <2> QED  BY <1>1, <1>3, <1>10, <2>1, OtherStepsStaySerial DEF LinkSeat
<1>11. ASSUME NEW e \in Events, RemoveEvent(e) PROVE SerialInv'
  <2>1. PaidStays /\ SeatsOnlyGo
    BY <1>1, <1>11 DEF RemoveEvent, PaidStays, SeatsOnlyGo, SeatLive, PaymentLive,
                       TypeOK, PaymentRow, SeatRow
  <2> QED  BY <1>1, <1>11, <2>1, OtherStepsStaySerial DEF RemoveEvent
<1>12. ASSUME \/ \E e \in Events : EventWrite(e)
              \/ \E s \in SeatIds : Ban(s) \/ Unban(s)
              \/ \E p \in PaymentIds : GatewayWrite(p)
              \/ UNCHANGED vars
       PROVE  SerialInv'
  <2>1. ASSUME NEW p \in PaymentIds, GatewayWrite(p)
        PROVE  seat' = seat /\ payment' = payment /\ req' = req
    BY <2>1, Zenon DEF GatewayWrite, SettleSession, RefundSession
  <2>2. seat' = seat /\ payment' = payment /\ req' = req
    BY <1>12, <2>1
       DEF EventWrite, CreateEvent, UpdateEvent, WriteEvent, StartEvent, Ban,
           Unban, vars
  <2> QED  BY <1>2, <2>2
<1>13. ASSUME Environment PROVE SerialInv'
  BY <1>11, <1>12, <1>13, Zenon DEF Environment, EventWrite, GatewayWrite
<1>14. ASSUME NEW r \in Requests, HandlerStep(r) PROVE SerialInv'
  BY <1>1, <1>6, <1>7, <1>8, <1>9, <1>10, <1>14, InsertStaysSerial,
     MarkFailedStaysSerial, SeatlessStaysSerial DEF HandlerStep
<1>15. ASSUME Arrival PROVE SerialInv'
  BY <1>4, <1>5, <1>15 DEF Arrival
<1> QED  BY <1>9, <1>12, <1>13, <1>14, <1>15 DEF Next

LEMMA SerialBegins == Init => SerialInv
  BY DEF Init, SerialInv, SeatBacked, OneSeatPerUser, LoneVerification, SeatLive,
         At, IdleHandler, SeatlessSteps

LEMMA SerialAlways ==
    ASSUME OneSlot
    PROVE  Spec => []SerialInv
<1>1. EnrollmentInv /\ SerialInv /\ [Next]_vars => SerialInv'
  BY SerialStep
<1> QED  BY <1>1, SerialBegins, InductiveInvariant, PTL DEF Spec

\* When verifications do not overlap, every seat at an event that was never free
\* has a PAID row of its user, wherever the process died.
THEOREM SeatsAreBacked ==
    ASSUME OneSlot
    PROVE  Spec => []SeatBacked
<1>1. SerialInv => SeatBacked
  BY DEF SerialInv
<1> QED  BY <1>1, SerialAlways, PTL

\* When they do not overlap, no user has two seats at an event that was never
\* free, whatever is paid, retried or failed.
THEOREM SeatsAreSingle ==
    ASSUME OneSlot
    PROVE  Spec => []OneSeatPerUser
<1>1. SerialInv => OneSeatPerUser
  BY DEF SerialInv
<1> QED  BY <1>1, SerialAlways, PTL

-----------------------------------------------------------------------------
(* The refinement: Enrollment implements SeatLedger. Each step of a handler,
   the organizer or Khalti is one step of the ledger or leaves it as it was. *)

Held(s) == IF SeatLive(s) THEN <<seat[s].user, seat[s].event>> ELSE None
HeldFn == [s \in SeatIds |-> Held(s)]
ChargedPairs ==
    {<<payment[p].user, payment[p].event>> : p \in {q \in PaymentIds : Charged(q)}}

\* The ledger's step, over the mapped state.
LedgerStep == [Ledger!Next]_(Ledger!ledger)

LEMMA LedgerState ==
    /\ Ledger!ledger = <<HeldFn, ChargedPairs, everFree>>
  BY DEF Ledger!ledger, HeldFn, Held, ChargedPairs

\* Payments that keep their columns and sessions that stay on the same side of
\* Completed leave the set of charged pairs as it was.
LEMMA ChargedPairsKept ==
    ASSUME TypeOK, RowsKnown,
           \A p \in PaymentIds :
              /\ Charged(p)' <=> Charged(p)
              /\ payment[p].status # "UNUSED" =>
                    /\ payment'[p].user = payment[p].user
                    /\ payment'[p].event = payment[p].event
    PROVE  ChargedPairs' = ChargedPairs
<1>1. \A p \in PaymentIds : Charged(p) => payment[p].status # "UNUSED"
  BY DEF RowsKnown, Charged
<1> QED  BY <1>1 DEF ChargedPairs

\* Seats that keep their state, user and event are held as before.
LEMMA HeldKept ==
    ASSUME \A s \in SeatIds :
              /\ SeatLive(s)' <=> SeatLive(s)
              /\ SeatLive(s) => /\ seat'[s].user = seat[s].user
                                /\ seat'[s].event = seat[s].event
    PROVE  HeldFn' = HeldFn
  BY DEF HeldFn, Held

LEMMA ChargedIsEntitled ==
    ASSUME NEW u, NEW e, Entitled(u, e)
    PROVE  e \in everFree \/ <<u, e>> \in ChargedPairs
  BY DEF Entitled, ChargedPairs

\* A seat inserted by a handler is a Grant of the ledger.
LEMMA InsertIsGrant ==
    ASSUME TypeOK, NEW r \in Requests, NEW s \in SeatIds,
           HandlerKnows(r), ~At(r, "idle"),
           Entitled(req[r].user, req[r].event),
           seat[s].state = "unused",
           seat' = [seat EXCEPT ![s] =
               [state |-> "live", event |-> req[r].event,
                user |-> req[r].user, payment |-> None]],
           UNCHANGED <<payment, gateway, everFree>>
    PROVE  LedgerStep
<1> USE DEF TypeOK
<1>1. PICK u \in Users, e \in Events : u = req[r].user /\ e = req[r].event
  BY DEF HandlerKnows
<1>2. HeldFn[s] = None
  BY DEF HeldFn, Held, SeatLive
<1>3. HeldFn' = [HeldFn EXCEPT ![s] = <<u, e>>]
  BY <1>1 DEF HeldFn, Held, SeatLive
<1>4. e \in everFree \/ <<u, e>> \in ChargedPairs
  BY <1>1, ChargedIsEntitled
<1>5. ChargedPairs' = ChargedPairs
  BY DEF ChargedPairs, Charged
<1>6. Ledger!Grant(s, u, e)
  BY <1>2, <1>3, <1>4, <1>5 DEF Ledger!Grant, HeldFn, Held, ChargedPairs
<1> QED  BY <1>1, <1>6 DEF LedgerStep, Ledger!Next

\* A step that keeps seats, charges and free periods is a stutter.
LEMMA LedgerStutter ==
    ASSUME HeldFn' = HeldFn, ChargedPairs' = ChargedPairs, UNCHANGED everFree
    PROVE  LedgerStep
  BY DEF LedgerStep, Ledger!ledger, HeldFn, Held, ChargedPairs

LEMMA StepSimulation ==
    ASSUME EnrollmentInv, [Next]_vars
    PROVE  LedgerStep
<1> USE DEF TypeOK
<1>0. /\ TypeOK /\ RowsKnown /\ FreeIsRecorded /\ SessionOpenedOnce
      /\ RowsKeepTheirOwner
      /\ \A r \in Requests : HandlerKnows(r)
  BY OwnersKept DEF EnrollmentInv
<1>1. CASE UNCHANGED <<payment, seat, gateway, everFree>>
  BY <1>1, LedgerStutter DEF HeldFn, Held, SeatLive, ChargedPairs, Charged
<1>2. ASSUME NEW r \in Requests, SeatWrite(r) PROVE LedgerStep
  <2>1. CASE CreateSeat(r) /\ EventLive(req[r].event)
    <3>1. Entitled(req[r].user, req[r].event)
      BY <1>0, <2>1, InsertIsEntitled DEF CreateSeat
    <3> QED  BY <1>0, <2>1, <3>1, InsertIsGrant DEF CreateSeat, At
  <2>2. CASE CreatePaidSeat(r) /\ EventLive(req[r].event)
    <3>1. Entitled(req[r].user, req[r].event)
      BY <1>0, <2>2, InsertIsEntitled DEF CreatePaidSeat
    <3> QED  BY <1>0, <2>2, <3>1, InsertIsGrant DEF CreatePaidSeat, At
  <2>3. CASE (CreateSeat(r) \/ CreatePaidSeat(r)) /\ ~EventLive(req[r].event)
    BY <1>1, <2>3 DEF CreateSeat, CreatePaidSeat
  <2>4. CASE LinkSeat(r)
    <3>1. HeldFn' = HeldFn
      BY <1>0, <2>4, HeldKept DEF LinkSeat, SeatRow, SeatLive
    <3>2. ChargedPairs' = ChargedPairs
      BY <2>4 DEF LinkSeat, ChargedPairs, Charged
    <3> QED  BY <2>4, <3>1, <3>2, LedgerStutter DEF LinkSeat
  <2> QED  BY <1>2, <2>1, <2>2, <2>3, <2>4 DEF SeatWrite
<1>3. ASSUME NEW r \in Requests, PaymentWrite(r) \/ InitiatePayment(r)
      PROVE  LedgerStep
  <2>1. UNCHANGED <<seat, everFree>>
    BY <1>3 DEF PaymentWrite, CreatePayment, StorePidx, MarkPaid, MarkFailed,
                InitiatePayment
  <2>2. HeldFn' = HeldFn
    BY <2>1 DEF HeldFn, Held, SeatLive
  <2>3. \A p \in PaymentIds : Charged(p)' <=> Charged(p)
    <3>1. CASE PaymentWrite(r)
      BY <3>1 DEF PaymentWrite, CreatePayment, StorePidx, MarkPaid, MarkFailed,
                  Charged
    <3>2. CASE InitiatePayment(r)
      BY <1>0, <3>2 DEF InitiatePayment, SessionOpenedOnce, Charged
    <3> QED  BY <1>3, <3>1, <3>2
  <2>4. ChargedPairs' = ChargedPairs
    BY <1>0, <2>3, ChargedPairsKept DEF RowsKeepTheirOwner
  <2> QED  BY <2>1, <2>2, <2>4, LedgerStutter
<1>4. ASSUME NEW e \in Events, EventWrite(e) PROVE LedgerStep
  <2>1. UNCHANGED <<payment, seat, gateway>>
    BY <1>4 DEF EventWrite, CreateEvent, UpdateEvent, WriteEvent, StartEvent
  <2>2. UNCHANGED everFree \/ everFree' = everFree \cup {e}
    BY <1>4 DEF EventWrite, CreateEvent, UpdateEvent, WriteEvent, StartEvent
  <2>3. CASE everFree' = everFree \cup {e}
    <3>1. Ledger!OpenForFree(e)
      BY <2>1, <2>3 DEF Ledger!OpenForFree, SeatLive, Charged
    <3> QED  BY <3>1 DEF LedgerStep, Ledger!Next
  <2> QED  BY <1>1, <2>1, <2>2, <2>3
<1>5. ASSUME NEW e \in Events, RemoveEvent(e) PROVE LedgerStep
  <2>1. HeldFn' = [s \in SeatIds |->
                      IF \E u \in Users : HeldFn[s] = <<u, e>>
                      THEN None ELSE HeldFn[s]]
    <3>1. ASSUME NEW s \in SeatIds
          PROVE  Held(s)' = IF \E u \in Users : Held(s) = <<u, e>>
                            THEN None ELSE Held(s)
      <4>1. CASE SeatLive(s) /\ seat[s].event = e
        BY <1>0, <1>5, <4>1 DEF RemoveEvent, Held, SeatLive, SeatRow, RowsKnown
      <4>2. CASE SeatLive(s) /\ seat[s].event # e
        BY <1>0, <1>5, <4>2 DEF RemoveEvent, Held, SeatLive, SeatRow
      <4>3. CASE ~SeatLive(s)
        BY <1>0, <1>5, <4>3 DEF RemoveEvent, Held, SeatLive, SeatRow
      <4> QED  BY <4>1, <4>2, <4>3
    <3> QED  BY <3>1 DEF HeldFn
  <2>2. \A p \in PaymentIds : Charged(p)' <=> Charged(p)
    BY <1>5 DEF RemoveEvent, Charged
  <2>3. ChargedPairs' = ChargedPairs
    BY <1>0, <2>2, ChargedPairsKept DEF RowsKeepTheirOwner
  <2>4. Ledger!Withdraw(e)
    BY <1>5, <2>1, <2>3
    DEF RemoveEvent, Ledger!Withdraw, HeldFn, Held, ChargedPairs
  <2> QED  BY <2>4 DEF LedgerStep, Ledger!Next
<1>6. ASSUME NEW p \in PaymentIds, GatewayWrite(p) PROVE LedgerStep
  <2>1. UNCHANGED <<payment, seat, everFree>>
    BY <1>6 DEF GatewayWrite, SettleSession, RefundSession
  <2>2. HeldFn' = HeldFn
    BY <2>1 DEF HeldFn, Held, SeatLive
  <2>3. CASE SettleSession(p, "Completed")
    <3>1. PICK u \in Users, e \in Events :
             u = payment[p].user /\ e = payment[p].event
      BY <1>0, <2>3 DEF SettleSession, RowsKnown
    <3>2. \A q \in PaymentIds : Charged(q)' <=> Charged(q) \/ q = p
      BY <1>0, <2>3 DEF SettleSession, Charged
    <3>3. ChargedPairs' = ChargedPairs \cup {<<u, e>>}
      BY <2>1, <3>1, <3>2 DEF ChargedPairs
    <3>4. Ledger!Charge(u, e)
      BY <2>1, <2>2, <3>3 DEF Ledger!Charge, HeldFn, Held, ChargedPairs
    <3> QED  BY <3>4 DEF LedgerStep, Ledger!Next
  <2>4. CASE ~SettleSession(p, "Completed")
    <3>1. \A q \in PaymentIds : Charged(q)' <=> Charged(q)
      BY <1>0, <1>6, <2>4 DEF GatewayWrite, SettleSession, RefundSession, Charged
    <3>2. ChargedPairs' = ChargedPairs
      BY <1>0, <3>1, ChargedPairsKept DEF RowsKeepTheirOwner
    <3> QED  BY <2>1, <2>2, <3>2, LedgerStutter
  <2> QED  BY <2>3, <2>4
<1>7. ASSUME NEW s \in SeatIds, Ban(s) \/ Unban(s) PROVE LedgerStep
  BY <1>1, <1>7 DEF Ban, Unban
<1> QED
  BY StepCases, <1>1, <1>2, <1>3, <1>4, <1>5, <1>6, <1>7 DEF TablesUntouched

LEMMA InitSimulation == Init => Ledger!Init
  BY DEF Init, Ledger!Init, SeatLive, Charged

\* Every execution of the join and verification handlers is an execution of the
\* ledger: seats are granted only to the entitled and go only with their event.
THEOREM EnrollmentImplementsLedger == Spec => ImplementsLedger
<1>1. EnrollmentInv /\ [Next]_vars => [Ledger!Next]_(Ledger!ledger)
  BY StepSimulation DEF LedgerStep
<1> QED
  BY <1>1, InitSimulation, InductiveInvariant, PTL
  DEF Spec, ImplementsLedger, Ledger!Spec
=============================================================================
