----------------------------- MODULE Certificates -----------------------------
(***************************************************************************)
(* Issuing the certificates of a completed event and mailing them: the      *)
(* three create routes, the certificate_emails queue in Redis, its worker.  *)
(*                                                                          *)
(* A route passes IsEventCompletedGuard and then works on one task per      *)
(* attendee. Tasks interleave with each other and with other requests, and  *)
(* one that throws does not stop the others, neither under allSettled nor   *)
(* under Promise.all, which only answers early.                             *)
(***************************************************************************)
EXTENDS Naturals, FiniteSets

CONSTANTS
    Users, Events,
    SeatIds,      \* pool of userEvent ids (bound)
    CertIds,      \* pool of certificate ids (bound)
    Requests,     \* slots for requests in flight
    MaxAttempts,  \* defaultJobOptions.attempts
    MaxStalls,    \* how often BullMQ gives a stalled job back to a worker
    None

ASSUME AttemptsAreNatural == MaxAttempts \in Nat \ {0} /\ MaxStalls \in Nat
ASSUME NoneIsNoRow == None \notin Users \cup Events \cup SeatIds \cup CertIds

VARIABLES
    event,    \* the events: absent, live, completed (completedAt set), removed
    seat,     \* user_events
    cert,     \* certificates
    tasks,    \* what the requests in flight still have to do
    job,      \* the mail job of each certificate, in Redis
    mails     \* how many mails the SMTP server took for each certificate

vars == <<event, seat, cert, tasks, job, mails>>

SeatRow == [state : {"unused", "live", "deleted"},
            user : Users \cup {None}, event : Events \cup {None}]
CertRow == [state : {"unused", "live", "deleted"}, user : Users \cup {None},
            event : Events \cup {None}, seat : SeatIds \cup {None}]
Task == [slot : Requests, pc : {"findMany", "find", "insert", "enqueue"},
         event : Events, user : Users \cup {None},
         seat : SeatIds \cup {None}, cert : CertIds \cup {None}]
Job == [state : {"none", "waiting", "active", "completed", "failed"},
        sent : BOOLEAN,                  \* mailService.send has returned
        attempts : 0..MaxAttempts,
        stalls : 0..(MaxStalls + 1)]

TypeOK ==
    /\ event \in [Events -> {"absent", "live", "completed", "removed"}]
    /\ seat \in [SeatIds -> SeatRow]
    /\ cert \in [CertIds -> CertRow]
    /\ tasks \subseteq Task
    /\ job \in [CertIds -> Job]
    /\ mails \in [CertIds -> Nat]

Init ==
    /\ event = [e \in Events |-> "absent"]
    /\ seat = [s \in SeatIds |->
                  [state |-> "unused", user |-> None, event |-> None]]
    /\ cert = [c \in CertIds |->
                  [state |-> "unused", user |-> None, event |-> None,
                   seat |-> None]]
    /\ tasks = {}
    /\ job = [c \in CertIds |-> [state |-> "none", sent |-> FALSE,
                                 attempts |-> 0, stalls |-> 0]]
    /\ mails = [c \in CertIds |-> 0]

EventExists(e) == event[e] \in {"live", "completed"}
SeatLive(s) == seat[s].state = "live"
CertLive(c) == cert[c].state = "live"
Issued(u, e) ==
    \E c \in CertIds : CertLive(c) /\ cert[c].user = u /\ cert[c].event = e

-----------------------------------------------------------------------------
(* The routes: POST organizer/certificate, bulk/:eventId, bulk-selected *)

\* Mutant: the guard only looks the event up.
PassesAnyEvent(r, e) ==
    (\A t \in tasks : t.slot # r) /\ EventExists(e)

\* IsEventCompletedGuard reads completedAt once, before the handler runs.
PassesGuard(r, e) ==
    /\ \A t \in tasks : t.slot # r
    /\ event[e] = "completed"

FindTask(r, e, u) == [slot |-> r, pc |-> "find", event |-> e, user |-> u,
                      seat |-> None, cert |-> None]

CreateCertificate(r, e, u) ==
    /\ PassesGuard(r, e)
    /\ tasks' = tasks \cup {FindTask(r, e, u)}
    /\ UNCHANGED <<event, seat, cert, job, mails>>

CreateForSelectedUsers(r, e, users) ==
    /\ PassesGuard(r, e)
    /\ tasks' = tasks \cup {FindTask(r, e, u) : u \in users}
    /\ UNCHANGED <<event, seat, cert, job, mails>>

CreateBulk(r, e) ==
    /\ PassesGuard(r, e)
    /\ tasks' = tasks \cup {[FindTask(r, e, None) EXCEPT !.pc = "findMany"]}
    /\ UNCHANGED <<event, seat, cert, job, mails>>

\* findMany: one task per row of the event; no row ever leaves status ACTIVE.
FindAttendees(t) ==
    /\ t.pc = "findMany"
    /\ LET attendees == {s \in SeatIds : SeatLive(s) /\ seat[s].event = t.event}
       IN  tasks' = (tasks \ {t}) \cup
               {[t EXCEPT !.pc = "insert", !.user = seat[s].user, !.seat = s] :
                   s \in attendees}
    /\ UNCHANGED <<event, seat, cert, job, mails>>

\* findFirst, without an order: any of the user's rows. No row ends the task
\* (NotFoundException, or the TypeError on userEvent.id).
FindSeat(t) ==
    /\ t.pc = "find"
    /\ LET rows == {s \in SeatIds : /\ SeatLive(s) /\ seat[s].user = t.user
                                    /\ seat[s].event = t.event}
       IN  \/ rows = {} /\ tasks' = tasks \ {t}
           \/ \E s \in rows :
                 tasks' = (tasks \ {t})
                              \cup {[t EXCEPT !.pc = "insert", !.seat = s]}
    /\ UNCHANGED <<event, seat, cert, job, mails>>

\* Mutant: the table without its key (eventId, userId).
DuplicateSeat(t) == \E c \in CertIds : CertLive(c) /\ cert[c].seat = t.seat

\* Mutant: a deleted certificate (soft delete) still counts.
DuplicateEver(t) ==
    \E c \in CertIds : cert[c].state # "unused" /\ cert[c].seat = t.seat

\* Both unique keys of the table: (eventId, userId) and userEventId.
Duplicate(t) ==
    \/ Issued(t.user, t.event)
    \/ \E c \in CertIds : CertLive(c) /\ cert[c].seat = t.seat

\* Mutant: the certificate is inserted and its mail forgotten.
InsertWithoutMail(t) ==
    /\ t.pc = "insert"
    /\ tasks' = tasks \ {t}
    /\ IF Duplicate(t) \/ ~SeatLive(t.seat)
       THEN UNCHANGED cert
       ELSE \E c \in CertIds :
               /\ cert[c].state = "unused"
               /\ cert' = [cert EXCEPT ![c] =
                     [state |-> "live", user |-> t.user, event |-> t.event,
                      seat |-> t.seat]]
    /\ UNCHANGED <<event, seat, job, mails>>

\* A duplicate is skipped (P2002), a row deleted meanwhile breaks the foreign
\* key: either way the task ends without a certificate.
InsertCertificate(t) ==
    /\ t.pc = "insert"
    /\ \/ /\ Duplicate(t) \/ ~SeatLive(t.seat)
          /\ tasks' = tasks \ {t}
          /\ UNCHANGED cert
       \/ /\ ~Duplicate(t) /\ SeatLive(t.seat)
          /\ \E c \in CertIds :
                /\ cert[c].state = "unused"
                /\ cert' = [cert EXCEPT ![c] =
                      [state |-> "live", user |-> t.user, event |-> t.event,
                       seat |-> t.seat]]
                /\ tasks' = (tasks \ {t})
                                \cup {[t EXCEPT !.pc = "enqueue", !.cert = c]}
    /\ UNCHANGED <<event, seat, job, mails>>

\* The job carries a copy of the certificate, deleted meanwhile or not.
EnqueueMail(t) ==
    /\ t.pc = "enqueue"
    /\ job' = [job EXCEPT ![t.cert].state = "waiting"]
    /\ tasks' = tasks \ {t}
    /\ UNCHANGED <<event, seat, cert, mails>>

\* A task's awaited call throws (database, Redis), or the process dies, which
\* is one TaskFail per task.
TaskFail(t) ==
    /\ tasks' = tasks \ {t}
    /\ UNCHANGED <<event, seat, cert, job, mails>>

\* DELETE organizer/certificate/:id. Bound: only while the pool still holds an
\* id for every attendee who may then be issued one.
RemoveCertificate(c) ==
    /\ CertLive(c)
    /\ Cardinality({d \in CertIds : cert[d].state = "unused"})
           > Cardinality({p \in Users \X Events : ~Issued(p[1], p[2])})
    /\ cert' = [cert EXCEPT ![c].state = "deleted"]
    /\ UNCHANGED <<event, seat, tasks, job, mails>>

-----------------------------------------------------------------------------
(* The worker of the certificate_emails queue *)

\* Several jobs may be active at once: after a restart the worker goes on while
\* the jobs of its former life have not been found stalled.
TakeJob(c) ==
    /\ job[c].state = "waiting"
    /\ job' = [job EXCEPT ![c].state = "active", ![c].sent = FALSE]
    /\ UNCHANGED <<event, seat, cert, tasks, mails>>

\* Mutant: a failed attempt is not counted.
RenderFailsUncounted(c) ==
    /\ job[c].state = "active" /\ ~job[c].sent
    /\ job' = [job EXCEPT ![c].state = "waiting"]
    /\ UNCHANGED <<event, seat, cert, tasks, mails>>

\* The template does not render: process() rethrows and BullMQ retries.
RenderFails(c) ==
    /\ job[c].state = "active" /\ ~job[c].sent
    /\ LET made == job[c].attempts + 1
       IN  job' = [job EXCEPT
                      ![c].attempts = made,
                      ![c].state = IF made < MaxAttempts THEN "waiting"
                                                         ELSE "failed"]
    /\ UNCHANGED <<event, seat, cert, tasks, mails>>

\* Mutant: a lost answer of the server throws, and the job is run again.
SendMailOrThrow(c) ==
    /\ job[c].state = "active" /\ ~job[c].sent
    /\ mails' \in {mails, [mails EXCEPT ![c] = @ + 1]}
    /\ job' \in {[job EXCEPT ![c].sent = TRUE],
                 [job EXCEPT ![c].state = "waiting"]}
    /\ UNCHANGED <<event, seat, cert, tasks>>

\* MailService.send returns whether the server took the mail or not.
SendMail(c) ==
    /\ job[c].state = "active" /\ ~job[c].sent
    /\ job' = [job EXCEPT ![c].sent = TRUE]
    /\ mails' \in {mails, [mails EXCEPT ![c] = @ + 1]}
    /\ UNCHANGED <<event, seat, cert, tasks>>

CompleteJob(c) ==
    /\ job[c].state = "active" /\ job[c].sent
    /\ job' = [job EXCEPT ![c].state = "completed"]
    /\ UNCHANGED <<event, seat, cert, tasks, mails>>

\* The worker's process died over the job, or lost its lock: BullMQ gives it
\* back, or fails it when it stalls too often.
StallJob(c) ==
    /\ job[c].state = "active"
    /\ job' = [job EXCEPT
                  ![c].stalls = @ + 1,
                  ![c].state = IF job[c].stalls < MaxStalls THEN "waiting"
                                                            ELSE "failed"]
    /\ UNCHANGED <<event, seat, cert, tasks, mails>>

-----------------------------------------------------------------------------
(* The rest of the API, as far as certificates see it *)

PublishEvent(e) ==
    /\ event[e] = "absent"
    /\ event' = [event EXCEPT ![e] = "live"]
    /\ UNCHANGED <<seat, cert, tasks, job, mails>>

\* markAsCompleted: nothing ever clears completedAt.
CompleteEvent(e) ==
    /\ EventExists(e)
    /\ event' = [event EXCEPT ![e] = "completed"]
    /\ UNCHANGED <<seat, cert, tasks, job, mails>>

\* A seat granted by joinEvent or verifyEventPayment: a user may have several,
\* and get one after the event is completed.
JoinEvent(s, u, e) ==
    /\ EventExists(e)
    /\ seat[s].state = "unused"
    /\ seat' = [seat EXCEPT ![s] = [state |-> "live", user |-> u, event |-> e]]
    /\ UNCHANGED <<event, cert, tasks, job, mails>>

\* Mutant: certificates are not deleted with their seats.
RemoveEventKeepCerts(e) ==
    /\ EventExists(e)
    /\ event' = [event EXCEPT ![e] = "removed"]
    /\ seat' = [s \in SeatIds |->
                   IF SeatLive(s) /\ seat[s].event = e
                   THEN [seat[s] EXCEPT !.state = "deleted"] ELSE seat[s]]
    /\ UNCHANGED <<cert, tasks, job, mails>>

\* The cascade reaches seats and certificates, not the jobs in Redis.
RemoveEvent(e) ==
    /\ EventExists(e)
    /\ event' = [event EXCEPT ![e] = "removed"]
    /\ seat' = [s \in SeatIds |->
                   IF SeatLive(s) /\ seat[s].event = e
                   THEN [seat[s] EXCEPT !.state = "deleted"] ELSE seat[s]]
    /\ cert' = [c \in CertIds |->
                   IF CertLive(c) /\ cert[c].event = e
                   THEN [cert[c] EXCEPT !.state = "deleted"] ELSE cert[c]]
    /\ UNCHANGED <<tasks, job, mails>>

-----------------------------------------------------------------------------

TaskStep(t) ==
    FindAttendees(t) \/ FindSeat(t) \/ InsertCertificate(t) \/ EnqueueMail(t)

WorkerStep(c) ==
    TakeJob(c) \/ RenderFails(c) \/ SendMail(c) \/ CompleteJob(c)

Organizer ==
    \/ \E r \in Requests, e \in Events :
          \/ \E u \in Users : CreateCertificate(r, e, u)
          \/ \E users \in SUBSET Users : CreateForSelectedUsers(r, e, users)
          \/ CreateBulk(r, e)
    \/ \E c \in CertIds : RemoveCertificate(c)
    \/ \E e \in Events : PublishEvent(e) \/ CompleteEvent(e) \/ RemoveEvent(e)

Attendees == \E s \in SeatIds, u \in Users, e \in Events : JoinEvent(s, u, e)

\* Nothing fails; the worker's process may still die over a job.
SmoothNext ==
    \/ Organizer
    \/ Attendees
    \/ \E t \in tasks : TaskStep(t)
    \/ \E c \in CertIds : WorkerStep(c) \/ StallJob(c)

Next ==
    \/ SmoothNext
    \/ \E t \in tasks : TaskFail(t)

Spec == Init /\ [][Next]_vars

\* Node resumes the tasks of a request whose calls returned, until none is
\* left; RUN_WORKERS is set, so the worker serves every job.
Fairness ==
    /\ \A r \in Requests :
          WF_vars(\E t \in tasks : t.slot = r /\ TaskStep(t))
    /\ \A c \in CertIds : WF_vars(WorkerStep(c))

SmoothSpec == Init /\ [][SmoothNext]_vars /\ Fairness

-----------------------------------------------------------------------------
(* What must hold *)

\* A certificate is its seat's: same user, same event, and both still exist,
\* though the seat is found in one call and the certificate inserted in
\* another, and the event may be removed in between.
CertificateFitsSeat ==
    \A c \in CertIds :
        CertLive(c) =>
            /\ SeatLive(cert[c].seat)
            /\ seat[cert[c].seat].user = cert[c].user
            /\ seat[cert[c].seat].event = cert[c].event

\* Certificates exist only for completed events, though the guard reads
\* completedAt several calls before the insert.
OnlyWhenCompleted ==
    \A c \in CertIds : CertLive(c) => event[cert[c].event] = "completed"

\* An attendee has one certificate of an event, however many seats they hold
\* and however many bulk, selected and single requests overlap.
OneCertificatePerAttendee ==
    \A c, d \in CertIds :
        /\ CertLive(c) /\ CertLive(d)
        /\ cert[c].user = cert[d].user /\ cert[c].event = cert[d].event
        => c = d

\* The attendee gets the mail at most once per time the worker died over it:
\* a job that failed to reach the server is not run again.
MailsBounded ==
    \A c \in CertIds :
        /\ mails[c] <= 1 + job[c].stalls
        /\ mails[c] > 0 => cert[c].state # "unused"

\* 'Queue email sending for each certificate': a certificate's mail is queued,
\* or the task that created it is about to.
EveryCertificateQueued ==
    \A c \in CertIds :
        CertLive(c) =>
            \/ job[c].state # "none"
            \/ \E t \in tasks : t.pc = "enqueue" /\ t.cert = c

\* Every attendee a bulk request read, and every selected one found, gets a
\* certificate, or had one, or is gone with the event.
EveryAttendeeServed ==
    \A s \in SeatIds :
        (\E t \in tasks : t.pc = "insert" /\ t.seat = s)
            ~> (Issued(seat[s].user, seat[s].event) \/ ~SeatLive(s))

\* Every certificate's mail is processed to the end: the job completes, or is
\* given up after its attempts or stalls.
EveryMailProcessed ==
    \A c \in CertIds :
        (cert[c].state = "live")
            ~> (job[c].state \in {"completed", "failed"})

-----------------------------------------------------------------------------
(* The inductive invariant behind the safety properties *)

\* A row keeps its seat's owner for ever, and lives while its event does.
SeatsKnown ==
    \A s \in SeatIds :
        /\ seat[s].state # "unused" =>
              seat[s].user \in Users /\ seat[s].event \in Events
        /\ SeatLive(s) => EventExists(seat[s].event)

CertsKnown ==
    \A c \in CertIds :
        CertLive(c) => /\ cert[c].user \in Users /\ cert[c].event \in Events
                       /\ cert[c].seat \in SeatIds

\* What a task read of its event, seat and certificate stays true.
TaskKnows(t) ==
    /\ event[t.event] \in {"completed", "removed"}
    /\ t.pc = "find" => t.user \in Users
    /\ t.pc = "insert" =>
          /\ t.user \in Users /\ t.seat \in SeatIds
          /\ seat[t.seat].state # "unused"
          /\ seat[t.seat].user = t.user /\ seat[t.seat].event = t.event
    /\ t.pc = "enqueue" =>
          /\ t.cert \in CertIds
          /\ cert[t.cert].state # "unused" /\ job[t.cert].state = "none"

\* Only the task that inserted a certificate enqueues its mail.
OneEnqueuer ==
    \A t, u \in tasks :
        t.pc = "enqueue" /\ u.pc = "enqueue" /\ t.cert = u.cert => t = u

\* A job that may still run has attempts and stalls left, and its mail was
\* taken at most once for each time it stalled.
JobFine(c, j, m) ==
    /\ j.state # "none" => cert[c].state # "unused"
    /\ j.state = "none" => ~j.sent /\ m = 0
    /\ j.state \in {"none", "waiting", "active"} =>
          j.attempts < MaxAttempts /\ j.stalls <= MaxStalls
    /\ m <= 1 + j.stalls
    /\ j.state = "waiting" \/ (j.state = "active" /\ ~j.sent) => m <= j.stalls
JobsFine == \A c \in CertIds : JobFine(c, job[c], mails[c])

\* The conjunction that every step preserves.
CertificatesInv ==
    /\ TypeOK
    /\ SeatsKnown /\ CertsKnown /\ OneEnqueuer /\ JobsFine
    /\ \A t \in tasks : TaskKnows(t)
    /\ CertificateFitsSeat /\ OnlyWhenCompleted /\ OneCertificatePerAttendee

-----------------------------------------------------------------------------
(* The routes and the worker implement the ledger *)

Ledger == INSTANCE CertificateLedger WITH
    attends <- {<<seat[s].user, seat[s].event>> :
                   s \in {x \in SeatIds : SeatLive(x)}},
    over <- {e \in Events : event[e] = "completed"},
    given <- {<<c, cert[c].user, cert[c].event>> :
                 c \in {d \in CertIds : CertLive(d)}},
    spent <- {c \in CertIds : cert[c].state # "unused"},
    letters <- mails

\* Every step of a task, a request or the worker is a step of the ledger or
\* changes nothing in it, whatever the task read before its await.
ImplementsCertificateLedger == Ledger!Spec
=============================================================================
