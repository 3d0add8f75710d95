------------------------- MODULE CertificatesProofs -------------------------
(***************************************************************************)
(* The safety properties of Certificates, for every value of the constants. *)
(***************************************************************************)
EXTENDS Certificates, TLAPS

-----------------------------------------------------------------------------
(* Who writes what *)

\* The steps that leave the tables alone, one by one.
Reading ==
    \/ \E r \in Requests, e \in Events :
          \/ \E u \in Users : CreateCertificate(r, e, u)
          \/ \E users \in SUBSET Users : CreateForSelectedUsers(r, e, users)
          \/ CreateBulk(r, e)
    \/ \E t \in tasks : FindAttendees(t) \/ FindSeat(t) \/ TaskFail(t)

\* The worker's steps, which read and write the jobs and the mails only.
Working ==
    \E c \in CertIds : WorkerStep(c) \/ StallJob(c)

\* Every step is one of these.
LEMMA StepCases ==
    ASSUME [Next]_vars
    PROVE  \/ Reading \/ Working \/ UNCHANGED vars
           \/ \E t \in tasks : InsertCertificate(t) \/ EnqueueMail(t)
           \/ \E c \in CertIds : RemoveCertificate(c)
           \/ \E e \in Events :
                 PublishEvent(e) \/ CompleteEvent(e) \/ RemoveEvent(e)
           \/ \E s \in SeatIds, u \in Users, e \in Events : JoinEvent(s, u, e)
  BY DEF Next, SmoothNext, Organizer, Attendees, TaskStep, Reading, Working

\* What Reading leaves alone.
LEMMA ReadingWritesTasks ==
    Reading => UNCHANGED <<event, seat, cert, job, mails>>
  BY DEF Reading, CreateCertificate, CreateForSelectedUsers, CreateBulk,
         FindAttendees, FindSeat, TaskFail

\* What Working leaves alone.
LEMMA WorkingWritesJobs ==
    Working => UNCHANGED <<event, seat, cert, tasks>>
  BY DEF Working, WorkerStep, StallJob, TakeJob, RenderFails, SendMail,
         CompleteJob

\* Of the tables, a step writes one row of one of them, or removes an event.
LEMMA WhoWritesTables ==
    ASSUME [Next]_vars
    PROVE  \/ UNCHANGED <<event, seat, cert>>
           \/ \E t \in tasks : InsertCertificate(t)
           \/ \E c \in CertIds : RemoveCertificate(c)
           \/ \E e \in Events :
                 PublishEvent(e) \/ CompleteEvent(e) \/ RemoveEvent(e)
           \/ \E s \in SeatIds, u \in Users, e \in Events : JoinEvent(s, u, e)
<1>1. ASSUME NEW t \in tasks, EnqueueMail(t)
      PROVE  UNCHANGED <<event, seat, cert>>
  BY <1>1 DEF EnqueueMail
<1>2. CASE UNCHANGED vars
  BY <1>2 DEF vars
<1> QED  BY <1>1, <1>2, StepCases, ReadingWritesTasks, WorkingWritesJobs

-----------------------------------------------------------------------------
(* The tables *)

TablesFine ==
    /\ event \in [Events -> {"absent", "live", "completed", "removed"}]
    /\ seat \in [SeatIds -> SeatRow]
    /\ cert \in [CertIds -> CertRow]
    /\ SeatsKnown /\ CertsKnown
    /\ CertificateFitsSeat /\ OnlyWhenCompleted /\ OneCertificatePerAttendee

\* Whatever a task found before its await, the insert that succeeds is of a
\* seat that lives and of an event that is completed.
LEMMA InsertIsFine ==
    ASSUME TablesFine, NEW t, InsertCertificate(t), t \in Task, TaskKnows(t)
    PROVE  TablesFine'
<1> USE DEF TablesFine
<1>1. CASE cert' = cert
  <2>1. event' = event /\ seat' = seat
    BY DEF InsertCertificate
  <2> QED
    BY <1>1, <2>1 DEF SeatsKnown, CertsKnown, CertificateFitsSeat,
       OnlyWhenCompleted, OneCertificatePerAttendee, SeatLive, CertLive,
       EventExists
<1>2. CASE cert' # cert
  <2>1. PICK c \in CertIds :
            /\ ~Duplicate(t) /\ SeatLive(t.seat)
            /\ cert[c].state = "unused"
            /\ cert' = [cert EXCEPT ![c] =
                  [state |-> "live", user |-> t.user, event |-> t.event,
                   seat |-> t.seat]]
    BY <1>2 DEF InsertCertificate
  <2>2. event' = event /\ seat' = seat
    BY DEF InsertCertificate
  <2>3. /\ t.user \in Users /\ t.seat \in SeatIds /\ t.event \in Events
        /\ seat[t.seat].user = t.user /\ seat[t.seat].event = t.event
        /\ event[t.event] \in {"completed", "removed"}
    BY DEF TaskKnows, InsertCertificate, Task
  <2>4. event[t.event] = "completed"
    BY <2>1, <2>3 DEF SeatsKnown, EventExists
  <2>5. cert' \in [CertIds -> CertRow]
    BY <2>1, <2>3 DEF CertRow
  <2>6. SeatsKnown'
    BY <2>2 DEF SeatsKnown, SeatLive, EventExists
  <2>7. cert'[c] = [state |-> "live", user |-> t.user, event |-> t.event,
                    seat |-> t.seat]
    BY <2>1
  <2>8. \A d \in CertIds : d # c => cert'[d] = cert[d]
    BY <2>1
  <2>9. CertsKnown'
    BY <2>3, <2>7, <2>8 DEF CertsKnown, CertLive
  <2>10. CertificateFitsSeat'
    BY <2>1, <2>2, <2>3, <2>7, <2>8
       DEF CertificateFitsSeat, CertLive, SeatLive
  <2>11. OnlyWhenCompleted'
    BY <2>2, <2>4, <2>7, <2>8 DEF OnlyWhenCompleted, CertLive
  <2>12. \A d \in CertIds :
            ~(CertLive(d) /\ cert[d].user = t.user /\ cert[d].event = t.event)
    BY <2>1 DEF Duplicate, Issued
  <2>13. OneCertificatePerAttendee'
    BY <2>7, <2>8, <2>12 DEF OneCertificatePerAttendee, CertLive
  <2> QED
    BY <2>2, <2>5, <2>6, <2>9, <2>10, <2>11, <2>13
<1> QED  BY <1>1, <1>2

\* The cascade takes an event's seats and certificates with it.
LEMMA CascadeIsFine ==
    ASSUME TablesFine, NEW e \in Events, RemoveEvent(e)
    PROVE  TablesFine'
<1> USE DEF TablesFine
<1>1. /\ event' = [event EXCEPT ![e] = "removed"]
      /\ seat' = [s \in SeatIds |->
                     IF SeatLive(s) /\ seat[s].event = e
                     THEN [seat[s] EXCEPT !.state = "deleted"] ELSE seat[s]]
      /\ cert' = [c \in CertIds |->
                     IF CertLive(c) /\ cert[c].event = e
                     THEN [cert[c] EXCEPT !.state = "deleted"] ELSE cert[c]]
  BY DEF RemoveEvent
<1>2. /\ event' \in [Events -> {"absent", "live", "completed", "removed"}]
      /\ seat' \in [SeatIds -> SeatRow]
      /\ cert' \in [CertIds -> CertRow]
  BY <1>1 DEF SeatRow, CertRow
<1>3. ASSUME NEW s \in SeatIds
      PROVE  /\ seat'[s].user = seat[s].user /\ seat'[s].event = seat[s].event
             /\ seat'[s].state # "unused" => seat[s].state # "unused"
             /\ SeatLive(s)' <=> SeatLive(s) /\ seat[s].event # e
  BY <1>1 DEF SeatRow, SeatLive
<1>4. ASSUME NEW c \in CertIds
      PROVE  /\ cert'[c].user = cert[c].user /\ cert'[c].event = cert[c].event
             /\ cert'[c].seat = cert[c].seat
             /\ CertLive(c)' <=> CertLive(c) /\ cert[c].event # e
  BY <1>1 DEF CertRow, CertLive
<1>5. SeatsKnown'
  <2>1. ASSUME NEW s \in SeatIds, SeatLive(s)'
        PROVE  event'[seat'[s].event] \in {"live", "completed"}
    <3>1. /\ SeatLive(s) /\ seat[s].event # e
          /\ seat'[s].event = seat[s].event
      BY <1>3, <2>1
    <3>2. seat[s].event \in Events /\ EventExists(seat[s].event)
      BY <3>1 DEF SeatsKnown, SeatLive
    <3> QED  BY <1>1, <3>1, <3>2 DEF EventExists
  <2> QED  BY <1>3, <2>1 DEF SeatsKnown, EventExists
<1>6. CertsKnown'
  BY <1>4 DEF CertsKnown
<1>7. CertificateFitsSeat'
  <2>1. ASSUME NEW c \in CertIds, CertLive(c)'
        PROVE  /\ seat'[cert'[c].seat].state = "live"
               /\ seat'[cert'[c].seat].user = cert'[c].user
               /\ seat'[cert'[c].seat].event = cert'[c].event
    BY <1>3, <1>4, <2>1 DEF CertsKnown, CertificateFitsSeat, SeatLive
  <2> QED  BY <2>1 DEF CertificateFitsSeat, SeatLive
<1>8. OnlyWhenCompleted'
  BY <1>1, <1>4 DEF OnlyWhenCompleted, CertsKnown
<1>9. OneCertificatePerAttendee'
  BY <1>4 DEF OneCertificatePerAttendee
<1> QED  BY <1>2, <1>5, <1>6, <1>7, <1>8, <1>9

\* Every step leaves the tables fine.
LEMMA TablesStayFine ==
    ASSUME CertificatesInv, [Next]_vars
    PROVE  TablesFine'
<1>1. TablesFine
  BY DEF CertificatesInv, TypeOK, TablesFine
<1> USE DEF TablesFine
<1>2. CASE UNCHANGED <<event, seat, cert>>
  BY <1>1, <1>2 DEF SeatsKnown, CertsKnown, CertificateFitsSeat,
     OnlyWhenCompleted, OneCertificatePerAttendee, SeatLive, CertLive,
     EventExists
<1>3. ASSUME NEW t \in tasks, InsertCertificate(t)
      PROVE  TablesFine'
  <2>1. t \in Task /\ TaskKnows(t)
    BY DEF CertificatesInv, TypeOK
  <2> QED  BY <1>1, <1>3, <2>1, InsertIsFine
<1>4. ASSUME NEW c \in CertIds, RemoveCertificate(c)
      PROVE  TablesFine'
  <2>1. /\ cert' = [cert EXCEPT ![c].state = "deleted"]
        /\ event' = event /\ seat' = seat
    BY <1>4 DEF RemoveCertificate
  <2>2. cert' \in [CertIds -> CertRow]
    BY <1>1, <2>1 DEF CertRow
  <2>3. ASSUME NEW d \in CertIds
        PROVE  /\ cert'[d].user = cert[d].user /\ cert'[d].event = cert[d].event
               /\ cert'[d].seat = cert[d].seat
               /\ CertLive(d)' <=> CertLive(d) /\ d # c
    BY <1>1, <2>1 DEF CertRow, CertLive
  <2>4. SeatsKnown' /\ CertsKnown'
    BY <1>1, <2>1, <2>3 DEF SeatsKnown, SeatLive, EventExists, CertsKnown
  <2>5. CertificateFitsSeat'
    <3>1. ASSUME NEW d \in CertIds, CertLive(d)'
          PROVE  /\ seat'[cert'[d].seat].state = "live"
                 /\ seat'[cert'[d].seat].user = cert'[d].user
                 /\ seat'[cert'[d].seat].event = cert'[d].event
      BY <1>1, <2>1, <2>3, <3>1 DEF CertificateFitsSeat, SeatLive
    <3> QED  BY <3>1 DEF CertificateFitsSeat, SeatLive
  <2>6. OnlyWhenCompleted' /\ OneCertificatePerAttendee'
    BY <1>1, <2>1, <2>3 DEF OnlyWhenCompleted, OneCertificatePerAttendee
  <2> QED  BY <1>1, <2>1, <2>2, <2>4, <2>5, <2>6
<1>5. ASSUME NEW e \in Events, PublishEvent(e) \/ CompleteEvent(e)
      PROVE  TablesFine'
  <2>1. seat' = seat /\ cert' = cert
    BY <1>5 DEF PublishEvent, CompleteEvent
  <2>2. /\ event' \in [Events -> {"absent", "live", "completed", "removed"}]
        /\ \A x \in Events :
              /\ event[x] \in {"live", "completed"} =>
                    event'[x] \in {"live", "completed"}
              /\ event[x] = "completed" => event'[x] = "completed"
    BY <1>1, <1>5 DEF PublishEvent, CompleteEvent, EventExists
  <2>3. SeatsKnown'
    BY <1>1, <2>1, <2>2 DEF SeatsKnown, SeatLive, EventExists
  <2>4. CertsKnown' /\ CertificateFitsSeat' /\ OneCertificatePerAttendee'
    BY <1>1, <2>1 DEF CertsKnown, CertificateFitsSeat,
       OneCertificatePerAttendee, CertLive, SeatLive
  <2>5. OnlyWhenCompleted'
    BY <1>1, <2>1, <2>2 DEF OnlyWhenCompleted, CertsKnown, CertLive
  <2> QED  BY <1>1, <2>1, <2>2, <2>3, <2>4, <2>5
<1>6. ASSUME NEW s \in SeatIds, NEW u \in Users, NEW e \in Events,
             JoinEvent(s, u, e)
      PROVE  TablesFine'
  <2>1. /\ seat' = [seat EXCEPT ![s] =
                       [state |-> "live", user |-> u, event |-> e]]
        /\ event' = event /\ cert' = cert
        /\ seat[s].state = "unused" /\ EventExists(e)
    BY <1>6 DEF JoinEvent
  <2>2. seat' \in [SeatIds -> SeatRow]
    BY <1>1, <2>1 DEF SeatRow
  <2>3. SeatsKnown'
    BY <1>1, <2>1 DEF SeatsKnown, SeatLive, EventExists
  <2>4. CertsKnown' /\ OneCertificatePerAttendee' /\ OnlyWhenCompleted'
    BY <1>1, <2>1 DEF CertsKnown, OneCertificatePerAttendee,
       OnlyWhenCompleted, CertLive
  <2>5. CertificateFitsSeat'
    BY <1>1, <2>1 DEF CertificateFitsSeat, CertsKnown, CertLive, SeatLive
  <2> QED  BY <1>1, <2>1, <2>2, <2>3, <2>4, <2>5
<1>7. ASSUME NEW e \in Events, RemoveEvent(e)
      PROVE  TablesFine'
  BY <1>1, <1>7, CascadeIsFine
<1> HIDE DEF TablesFine
<1> QED  BY <1>2, <1>3, <1>4, <1>5, <1>6, <1>7, WhoWritesTables

-----------------------------------------------------------------------------
(* The jobs *)

\* A certificate once inserted stays one, deleted or not.
LEMMA CertificatesStay ==
    ASSUME TypeOK, [Next]_vars, NEW c \in CertIds, cert[c].state # "unused"
    PROVE  cert'[c].state # "unused"
<1> USE DEF TypeOK, CertRow
<1>1. ASSUME NEW t \in tasks, InsertCertificate(t)
      PROVE  cert'[c].state # "unused"
  BY <1>1 DEF InsertCertificate
<1>2. ASSUME NEW d \in CertIds, RemoveCertificate(d)
      PROVE  cert'[c].state # "unused"
  BY <1>2 DEF RemoveCertificate
<1>3. ASSUME NEW e \in Events, PublishEvent(e) \/ CompleteEvent(e)
      PROVE  cert'[c].state # "unused"
  BY <1>3 DEF PublishEvent, CompleteEvent
<1>4. ASSUME NEW e \in Events, RemoveEvent(e)
      PROVE  cert'[c].state # "unused"
  BY <1>4 DEF RemoveEvent
<1>5. ASSUME NEW s \in SeatIds, NEW u \in Users, NEW e \in Events,
             JoinEvent(s, u, e)
      PROVE  cert'[c].state # "unused"
  BY <1>5 DEF JoinEvent
<1> QED  BY <1>1, <1>2, <1>3, <1>4, <1>5, WhoWritesTables

\* A step that writes one fine job, and its count of mails, leaves all fine.
LEMMA OneJobMoves ==
    ASSUME CertificatesInv, [Next]_vars, NEW c \in CertIds, NEW j \in Job,
           NEW m \in Nat, JobFine(c, j, m),
           job' = [job EXCEPT ![c] = j], mails' = [mails EXCEPT ![c] = m]
    PROVE  job' \in [CertIds -> Job] /\ mails' \in [CertIds -> Nat] /\ JobsFine'
<1>1. TypeOK /\ JobsFine
  BY DEF CertificatesInv
<1>2. job' \in [CertIds -> Job] /\ mails' \in [CertIds -> Nat]
  BY <1>1 DEF TypeOK
<1>3. ASSUME NEW d \in CertIds PROVE JobFine(d, job[d], mails[d])'
  <2>1. cert[d].state # "unused" => cert'[d].state # "unused"
    BY <1>1, CertificatesStay
  <2>2. JobFine(d, job[d], mails[d])
    BY <1>1 DEF JobsFine, JobFine
  <2>3. CASE d = c
    <3>1. job'[d] = j /\ mails'[d] = m
      BY <1>1, <2>3 DEF TypeOK
    <3> QED  BY <2>1, <2>3, <3>1 DEF JobFine
  <2>4. CASE d # c
    <3>1. job'[d] = job[d] /\ mails'[d] = mails[d]
      BY <1>1, <2>4 DEF TypeOK
    <3> QED  BY <2>1, <2>2, <3>1 DEF JobFine
  <2> QED  BY <2>3, <2>4
<1> QED  BY <1>2, <1>3 DEF JobsFine, JobFine

\* A job that is written as [job[c] EXCEPT ...] leaves the others alone.
LEMMA OneJobOfTheTable ==
    ASSUME TypeOK, NEW c \in CertIds
    PROVE  /\ job[c] \in Job /\ mails[c] \in Nat
           /\ mails = [mails EXCEPT ![c] = mails[c]]
  BY DEF TypeOK

\* Every step leaves the jobs fine.
LEMMA JobsStayFine ==
    ASSUME CertificatesInv, [Next]_vars
    PROVE  job' \in [CertIds -> Job] /\ mails' \in [CertIds -> Nat] /\ JobsFine'
<1> DEFINE Goal ==
        job' \in [CertIds -> Job] /\ mails' \in [CertIds -> Nat] /\ JobsFine'
<1>1. /\ TypeOK /\ JobsFine
      /\ MaxAttempts \in Nat \ {0} /\ MaxStalls \in Nat
  BY AttemptsAreNatural DEF CertificatesInv
<1>2. ASSUME UNCHANGED <<job, mails>> PROVE Goal
  <2>1. ASSUME NEW c \in CertIds PROVE JobFine(c, job[c], mails[c])'
    BY <1>1, <1>2, CertificatesStay DEF JobsFine, JobFine
  <2> QED  BY <1>1, <1>2, <2>1 DEF TypeOK, JobsFine
<1>3. ASSUME NEW c \in CertIds, NEW j \in Job, NEW m \in Nat, JobFine(c, j, m),
             job' = [job EXCEPT ![c] = j], mails' = [mails EXCEPT ![c] = m]
      PROVE  Goal
  BY <1>3, OneJobMoves
<1> HIDE DEF Goal
<1>4. ASSUME NEW t \in tasks, EnqueueMail(t) PROVE Goal
  <2>1. /\ t.cert \in CertIds /\ cert[t.cert].state # "unused"
        /\ job[t.cert].state = "none"
    BY <1>4 DEF EnqueueMail, CertificatesInv, TaskKnows
  <2>2. PICK c, j : /\ c \in CertIds /\ c = t.cert
                    /\ j = [job[c] EXCEPT !.state = "waiting"]
    BY <2>1
  <2>3. job[c] \in Job /\ mails[c] \in Nat /\ JobFine(c, job[c], mails[c])
    BY <1>1, <2>2, OneJobOfTheTable DEF JobsFine
  <2>4. j \in Job /\ JobFine(c, j, mails[c])
    BY <2>1, <2>2, <2>3 DEF Job, JobFine
  <2>5. /\ job' = [job EXCEPT ![c] = j]
        /\ mails' = [mails EXCEPT ![c] = mails[c]]
    BY <1>1, <1>4, <2>2, OneJobOfTheTable DEF EnqueueMail
  <2> QED  BY <1>3, <2>2, <2>3, <2>4, <2>5
<1>5. ASSUME NEW c \in CertIds, WorkerStep(c) \/ StallJob(c) PROVE Goal
  <2>1. job[c] \in Job /\ mails[c] \in Nat /\ JobFine(c, job[c], mails[c])
    BY <1>1, OneJobOfTheTable DEF JobsFine
  <2>2. CASE TakeJob(c)
    <3>1. PICK j : j = [job[c] EXCEPT !.state = "active", !.sent = FALSE]
      OBVIOUS
    <3>2. j \in Job /\ JobFine(c, j, mails[c])
      BY <2>1, <2>2, <3>1 DEF TakeJob, Job, JobFine
    <3>3. /\ job' = [job EXCEPT ![c] = j]
          /\ mails' = [mails EXCEPT ![c] = mails[c]]
      BY <1>1, <2>2, <3>1, OneJobOfTheTable DEF TakeJob
    <3> QED  BY <1>3, <2>1, <3>2, <3>3
  <2>3. CASE RenderFails(c)
    <3>1. PICK s, j :
              /\ s = IF job[c].attempts + 1 < MaxAttempts THEN "waiting"
                                                          ELSE "failed"
              /\ j = [job[c] EXCEPT !.attempts = @ + 1, !.state = s]
      OBVIOUS
    <3>2. job[c].attempts < MaxAttempts /\ job[c].attempts \in 0..MaxAttempts
      BY <2>1, <2>3 DEF RenderFails, Job, JobFine
    <3>3. job[c].attempts + 1 \in 0..MaxAttempts
      BY <1>1, <3>2
    <3>4. j \in Job
      BY <2>1, <3>1, <3>3 DEF Job
    <3>5. /\ j.state = s /\ j.attempts = job[c].attempts + 1
          /\ j.stalls = job[c].stalls /\ j.stalls \in Nat /\ j.sent = job[c].sent
      BY <1>1, <2>1, <3>1 DEF Job
    <3>6. /\ job[c].state = "active" /\ ~job[c].sent
          /\ s \in {"waiting", "failed"}
          /\ s = "waiting" => job[c].attempts + 1 < MaxAttempts
      BY <2>3, <3>1 DEF RenderFails
    <3>7. JobFine(c, j, mails[c])
      BY <2>1, <3>5, <3>6 DEF JobFine
    <3>8. job' = [job EXCEPT ![c] = j]
      BY <1>1, <2>3, <3>1 DEF RenderFails, TypeOK
    <3>9. mails' = [mails EXCEPT ![c] = mails[c]]
      BY <1>1, <2>3, OneJobOfTheTable DEF RenderFails
    <3> QED  BY <1>3, <2>1, <3>4, <3>7, <3>8, <3>9
  <2>4. CASE SendMail(c)
    <3>1. PICK j, m : /\ j = [job[c] EXCEPT !.sent = TRUE]
                      /\ m \in {mails[c], mails[c] + 1}
                      /\ mails' = [mails EXCEPT ![c] = m]
      BY <1>1, <2>1, <2>4, OneJobOfTheTable DEF SendMail
    <3>2. m \in Nat
      BY <2>1, <3>1
    <3>3. j \in Job
      BY <2>1, <3>1 DEF Job
    <3>4. JobFine(c, j, m)
      BY <1>1, <2>1, <2>4, <3>1 DEF SendMail, Job, JobFine
    <3>5. job' = [job EXCEPT ![c] = j]
      BY <1>1, <2>4, <3>1 DEF SendMail, TypeOK
    <3> QED  BY <1>3, <3>1, <3>2, <3>3, <3>4, <3>5
  <2>5. CASE CompleteJob(c)
    <3>1. PICK j : j = [job[c] EXCEPT !.state = "completed"]
      OBVIOUS
    <3>2. j \in Job /\ JobFine(c, j, mails[c])
      BY <2>1, <2>5, <3>1 DEF CompleteJob, Job, JobFine
    <3>3. /\ job' = [job EXCEPT ![c] = j]
          /\ mails' = [mails EXCEPT ![c] = mails[c]]
      BY <1>1, <2>5, <3>1, OneJobOfTheTable DEF CompleteJob
    <3> QED  BY <1>3, <2>1, <3>2, <3>3
  <2>6. CASE StallJob(c)
    <3>1. PICK s, j :
              /\ s = IF job[c].stalls < MaxStalls THEN "waiting" ELSE "failed"
              /\ j = [job[c] EXCEPT !.stalls = @ + 1, !.state = s]
      OBVIOUS
    <3>2. /\ job[c].state = "active" /\ job[c].stalls <= MaxStalls
          /\ job[c].stalls \in 0..(MaxStalls + 1)
          /\ job[c].attempts < MaxAttempts /\ mails[c] <= 1 + job[c].stalls
          /\ cert[c].state # "unused"
      BY <2>1, <2>6 DEF StallJob, Job, JobFine
    <3>3. job[c].stalls + 1 \in 0..(MaxStalls + 1)
      BY <1>1, <3>2
    <3>4. j \in Job
      BY <2>1, <3>1, <3>3 DEF Job
    <3>5. /\ j.state = s /\ j.attempts = job[c].attempts
          /\ j.stalls = job[c].stalls + 1 /\ j.stalls \in Nat
          /\ job[c].stalls \in Nat
      BY <1>1, <2>1, <3>1, <3>2 DEF Job
    <3>6. /\ s \in {"waiting", "failed"}
          /\ s = "waiting" => job[c].stalls + 1 <= MaxStalls
      BY <1>1, <3>1, <3>5
    <3>7. JobFine(c, j, mails[c])
      BY <2>1, <3>2, <3>5, <3>6 DEF JobFine
    <3>8. job' = [job EXCEPT ![c] = j]
      BY <1>1, <2>6, <3>1 DEF StallJob, TypeOK
    <3>9. mails' = [mails EXCEPT ![c] = mails[c]]
      BY <1>1, <2>6, OneJobOfTheTable DEF StallJob
    <3> QED  BY <1>3, <2>1, <3>4, <3>7, <3>8, <3>9
  <2> QED  BY <1>5, <2>2, <2>3, <2>4, <2>5, <2>6 DEF WorkerStep
<1>6. ASSUME Reading PROVE Goal
  BY <1>2, <1>6, ReadingWritesTasks
<1>7. ASSUME Working PROVE Goal
  BY <1>5, <1>7 DEF Working
<1>8. ASSUME NEW t \in tasks, InsertCertificate(t) PROVE Goal
  BY <1>2, <1>8 DEF InsertCertificate
<1>9. ASSUME NEW c \in CertIds, RemoveCertificate(c) PROVE Goal
  BY <1>2, <1>9 DEF RemoveCertificate
<1>10. ASSUME NEW e \in Events,
              PublishEvent(e) \/ CompleteEvent(e) \/ RemoveEvent(e)
       PROVE  Goal
  BY <1>2, <1>10 DEF PublishEvent, CompleteEvent, RemoveEvent
<1>11. ASSUME NEW s \in SeatIds, NEW u \in Users, NEW e \in Events,
              JoinEvent(s, u, e)
       PROVE  Goal
  BY <1>2, <1>11 DEF JoinEvent
<1>12. ASSUME UNCHANGED vars PROVE Goal
  BY <1>2, <1>12 DEF vars
<1>13. Goal
  BY <1>4, <1>6, <1>7, <1>8, <1>9, <1>10, <1>11, <1>12, StepCases
<1> QED  BY <1>13 DEF Goal

-----------------------------------------------------------------------------
(* The tasks *)

\* A row once used keeps its owner.
LEMMA SeatsStay ==
    ASSUME TypeOK, [Next]_vars, NEW s \in SeatIds, seat[s].state # "unused"
    PROVE  /\ seat'[s].state # "unused"
           /\ seat'[s].user = seat[s].user /\ seat'[s].event = seat[s].event
<1> USE DEF TypeOK, SeatRow
<1>1. ASSUME NEW r \in SeatIds, NEW u \in Users, NEW e \in Events,
             JoinEvent(r, u, e)
      PROVE  seat'[s] = seat[s]
  BY <1>1 DEF JoinEvent
<1>2. ASSUME NEW e \in Events, RemoveEvent(e)
      PROVE  /\ seat'[s].state # "unused"
             /\ seat'[s].user = seat[s].user /\ seat'[s].event = seat[s].event
  BY <1>2 DEF RemoveEvent
<1>3. ASSUME NEW e \in Events, PublishEvent(e) \/ CompleteEvent(e)
      PROVE  seat' = seat
  BY <1>3 DEF PublishEvent, CompleteEvent
<1>4. ASSUME NEW t \in tasks, InsertCertificate(t) PROVE seat' = seat
  BY <1>4 DEF InsertCertificate
<1>5. ASSUME NEW c \in CertIds, RemoveCertificate(c) PROVE seat' = seat
  BY <1>5 DEF RemoveCertificate
<1> QED  BY <1>1, <1>2, <1>3, <1>4, <1>5, WhoWritesTables

\* Nothing clears completedAt; the event may only be removed.
LEMMA CompletedStays ==
    ASSUME TypeOK, [Next]_vars, NEW e \in Events,
           event[e] \in {"completed", "removed"}
    PROVE  event'[e] \in {"completed", "removed"}
<1> USE DEF TypeOK
<1>1. ASSUME NEW x \in Events,
             PublishEvent(x) \/ CompleteEvent(x) \/ RemoveEvent(x)
      PROVE  event'[e] \in {"completed", "removed"}
  BY <1>1 DEF PublishEvent, CompleteEvent, RemoveEvent
<1>2. ASSUME NEW s \in SeatIds, NEW u \in Users, NEW x \in Events,
             JoinEvent(s, u, x)
      PROVE  event' = event
  BY <1>2 DEF JoinEvent
<1>3. ASSUME NEW t \in tasks, InsertCertificate(t) PROVE event' = event
  BY <1>3 DEF InsertCertificate
<1>4. ASSUME NEW c \in CertIds, RemoveCertificate(c) PROVE event' = event
  BY <1>4 DEF RemoveCertificate
<1> QED  BY <1>1, <1>2, <1>3, <1>4, WhoWritesTables

\* A mail that was not enqueued is only enqueued by the task that is to do it.
LEMMA NobodyElseEnqueues ==
    ASSUME CertificatesInv, [Next]_vars, NEW t \in tasks, t \in tasks',
           t.pc = "enqueue"
    PROVE  job'[t.cert].state = "none"
<1>1. /\ TypeOK /\ t.cert \in CertIds /\ job[t.cert].state = "none"
      /\ job \in [CertIds -> Job]
  BY DEF CertificatesInv, TaskKnows, TypeOK
<1>2. ASSUME NEW u \in tasks, EnqueueMail(u)
      PROVE  job'[t.cert] = job[t.cert]
  <2>1. u # t /\ u.pc = "enqueue"
    BY <1>2 DEF EnqueueMail
  <2>2. u.cert # t.cert
    BY <2>1 DEF CertificatesInv, OneEnqueuer
  <2> QED  BY <1>1, <1>2, <2>2 DEF EnqueueMail
<1>3. ASSUME NEW c \in CertIds, WorkerStep(c) \/ StallJob(c)
      PROVE  job'[t.cert] = job[t.cert]
  <2>1. job[c].state # "none"
    BY <1>3 DEF WorkerStep, StallJob, TakeJob, RenderFails, SendMail,
                CompleteJob
  <2> QED
    BY <1>1, <1>3, <2>1 DEF WorkerStep, StallJob, TakeJob, RenderFails,
                            SendMail, CompleteJob
<1>4. CASE job' = job
  BY <1>1, <1>4
<1>5. CASE Reading \/ UNCHANGED vars
  BY <1>1, <1>5, ReadingWritesTasks DEF vars
<1>6. ASSUME NEW u \in tasks, InsertCertificate(u) PROVE job' = job
  BY <1>6 DEF InsertCertificate
<1>7. ASSUME NEW c \in CertIds, RemoveCertificate(c) PROVE job' = job
  BY <1>7 DEF RemoveCertificate
<1>8. ASSUME NEW e \in Events,
             PublishEvent(e) \/ CompleteEvent(e) \/ RemoveEvent(e)
      PROVE  job' = job
  BY <1>8 DEF PublishEvent, CompleteEvent, RemoveEvent
<1>9. ASSUME NEW s \in SeatIds, NEW u \in Users, NEW e \in Events,
             JoinEvent(s, u, e)
      PROVE  job' = job
  BY <1>9 DEF JoinEvent
<1> QED
  BY <1>1, <1>2, <1>3, <1>4, <1>5, <1>6, <1>7, <1>8, <1>9, StepCases DEF Working

\* A task that makes no step still knows what it knew.
LEMMA OthersStillKnow ==
    ASSUME CertificatesInv, [Next]_vars, NEW t \in tasks, t \in tasks'
    PROVE  TaskKnows(t)'
<1>1. TypeOK /\ TaskKnows(t) /\ t.event \in Events
  BY DEF CertificatesInv, TypeOK, Task
<1>2. event'[t.event] \in {"completed", "removed"}
  BY <1>1, CompletedStays DEF TaskKnows
<1>3. ASSUME t.pc = "insert"
      PROVE  /\ seat'[t.seat].state # "unused"
             /\ seat'[t.seat].user = t.user /\ seat'[t.seat].event = t.event
  BY <1>1, <1>3, SeatsStay DEF TaskKnows
<1>4. ASSUME t.pc = "enqueue"
      PROVE  cert'[t.cert].state # "unused" /\ job'[t.cert].state = "none"
  BY <1>1, <1>4, CertificatesStay, NobodyElseEnqueues DEF TaskKnows
<1> QED  BY <1>1, <1>2, <1>3, <1>4 DEF TaskKnows

TasksFine ==
    /\ tasks' \subseteq Task
    /\ \A t \in tasks' : TaskKnows(t)'
    /\ OneEnqueuer'

\* Tasks that are added and know their part, none of them about to enqueue,
\* leave the tasks fine.
LEMMA NewTasksAreFine ==
    ASSUME CertificatesInv, [Next]_vars, NEW new, tasks' \subseteq tasks \cup new,
           \A t \in new : t \in Task /\ TaskKnows(t)' /\ t.pc # "enqueue"
    PROVE  TasksFine
<1>1. tasks \subseteq Task /\ OneEnqueuer
  BY DEF CertificatesInv, TypeOK
<1>2. \A t \in tasks' : TaskKnows(t)'
  BY OthersStillKnow
<1> QED  BY <1>1, <1>2 DEF TasksFine, OneEnqueuer

\* Every step leaves the tasks fine.
LEMMA TasksStayFine ==
    ASSUME CertificatesInv, [Next]_vars
    PROVE  TasksFine
<1>1. /\ TypeOK /\ tasks \subseteq Task /\ \A t \in tasks : TaskKnows(t)
      /\ seat \in [SeatIds -> SeatRow]
  BY DEF CertificatesInv, TypeOK
<1>2. ASSUME tasks' \subseteq tasks PROVE TasksFine
  <2>1. PICK new : new = {}
    OBVIOUS
  <2> QED  BY <1>2, <2>1, NewTasksAreFine
<1>3. ASSUME NEW r \in Requests, NEW e \in Events, NEW users \in SUBSET Users,
             PassesGuard(r, e), event' = event,
             tasks' = tasks \cup {FindTask(r, e, u) : u \in users}
      PROVE  TasksFine
  <2>1. ASSUME NEW u \in users
        PROVE  /\ FindTask(r, e, u) \in Task /\ TaskKnows(FindTask(r, e, u))'
               /\ FindTask(r, e, u).pc # "enqueue"
    BY <1>3 DEF PassesGuard, FindTask, Task, TaskKnows
  <2>2. PICK new : new = {FindTask(r, e, u) : u \in users}
    OBVIOUS
  <2>3. \A t \in new : t \in Task /\ TaskKnows(t)' /\ t.pc # "enqueue"
    BY <2>1, <2>2
  <2> QED  BY <1>3, <2>2, <2>3, NewTasksAreFine
<1>4. ASSUME NEW r \in Requests, NEW e \in Events, CreateBulk(r, e)
      PROVE  TasksFine
  <2>1. PICK t : t = [FindTask(r, e, None) EXCEPT !.pc = "findMany"]
    OBVIOUS
  <2>2. t \in Task /\ TaskKnows(t)' /\ t.pc # "enqueue"
    BY <1>4, <2>1 DEF CreateBulk, PassesGuard, FindTask, Task, TaskKnows
  <2>3. tasks' = tasks \cup {t}
    BY <1>4, <2>1 DEF CreateBulk
  <2>4. PICK new : new = {t}
    OBVIOUS
  <2> QED  BY <2>2, <2>3, <2>4, NewTasksAreFine
<1>5. ASSUME NEW r \in Requests, NEW e \in Events, NEW u \in Users,
             CreateCertificate(r, e, u)
      PROVE  TasksFine
  <2>1. PICK users \in SUBSET Users : users = {u}
    OBVIOUS
  <2>2. tasks' = tasks \cup {FindTask(r, e, v) : v \in users}
    BY <1>5, <2>1 DEF CreateCertificate
  <2>3. PassesGuard(r, e) /\ event' = event
    BY <1>5 DEF CreateCertificate
  <2> QED  BY <1>3, <2>2, <2>3
<1>6. ASSUME NEW r \in Requests, NEW e \in Events, NEW users \in SUBSET Users,
             CreateForSelectedUsers(r, e, users)
      PROVE  TasksFine
  BY <1>3, <1>6 DEF CreateForSelectedUsers
<1>7. ASSUME NEW t \in tasks, FindAttendees(t) \/ FindSeat(t)
      PROVE  TasksFine
  <2>1. t \in Task /\ event[t.event] \in {"completed", "removed"}
    BY <1>1 DEF TaskKnows
  <2>2. /\ event' = event /\ seat' = seat
        /\ t.pc = "findMany" \/ (t.pc = "find" /\ t.user \in Users)
    BY <1>1, <1>7 DEF FindAttendees, FindSeat, TaskKnows
  <2>3. ASSUME NEW s \in SeatIds, NEW u, SeatLive(s), seat[s].event = t.event,
               seat[s].user = u, NEW h,
               h = [t EXCEPT !.pc = "insert", !.user = u, !.seat = s]
        PROVE  h \in Task /\ TaskKnows(h)' /\ h.pc # "enqueue"
    <3>1. u \in Users
      BY <2>3 DEF CertificatesInv, SeatsKnown, SeatLive
    <3>2. /\ h.pc = "insert" /\ h.user = u /\ h.seat = s /\ h.event = t.event
          /\ h \in Task
      BY <2>1, <2>3, <3>1 DEF Task
    <3> QED  BY <2>1, <2>2, <2>3, <3>1, <3>2 DEF TaskKnows, SeatLive
  <2>4. CASE FindAttendees(t)
    <3>1. PICK new :
              new = {[t EXCEPT !.pc = "insert", !.user = seat[s].user,
                               !.seat = s] :
                        s \in {x \in SeatIds : /\ SeatLive(x)
                                               /\ seat[x].event = t.event}}
      OBVIOUS
    <3>2. tasks' = (tasks \ {t}) \cup new
      BY <2>4, <3>1 DEF FindAttendees
    <3>3. \A h \in new : h \in Task /\ TaskKnows(h)' /\ h.pc # "enqueue"
      BY <2>3, <3>1
    <3> QED  BY <3>2, <3>3, NewTasksAreFine
  <2>5. CASE FindSeat(t)
    <3>1. CASE tasks' = tasks \ {t}
      BY <1>2, <3>1
    <3>2. CASE tasks' # tasks \ {t}
      <4>1. PICK s, h :
                /\ s \in SeatIds
                /\ SeatLive(s) /\ seat[s].user = t.user
                /\ seat[s].event = t.event
                /\ h = [t EXCEPT !.pc = "insert", !.seat = s]
                /\ tasks' = (tasks \ {t}) \cup {h}
        BY <2>5, <3>2 DEF FindSeat
      <4>2. h = [t EXCEPT !.pc = "insert", !.user = t.user, !.seat = s]
        BY <2>1, <4>1 DEF Task
      <4>3. h \in Task /\ TaskKnows(h)' /\ h.pc # "enqueue"
        BY <2>3, <4>1, <4>2
      <4>4. PICK new : new = {h}
        OBVIOUS
      <4>5. tasks' \subseteq tasks \cup new
        BY <4>1, <4>4
      <4>6. \A x \in new : x \in Task /\ TaskKnows(x)' /\ x.pc # "enqueue"
        BY <4>3, <4>4
      <4> QED  BY <4>5, <4>6, NewTasksAreFine
    <3> QED  BY <3>1, <3>2
  <2> QED  BY <1>7, <2>4, <2>5
<1>8. ASSUME NEW t \in tasks, InsertCertificate(t)
      PROVE  TasksFine
  <2>1. CASE tasks' = tasks \ {t}
    BY <1>2, <2>1
  <2>2. CASE tasks' # tasks \ {t}
    <3>1. PICK c, h :
              /\ c \in CertIds
              /\ cert[c].state = "unused"
              /\ cert' = [cert EXCEPT ![c] =
                    [state |-> "live", user |-> t.user, event |-> t.event,
                     seat |-> t.seat]]
              /\ h = [t EXCEPT !.pc = "enqueue", !.cert = c]
              /\ tasks' = (tasks \ {t}) \cup {h}
              /\ event' = event /\ job' = job
      BY <1>8, <2>2 DEF InsertCertificate
    <3>2. t \in Task /\ event[t.event] \in {"completed", "removed"}
      BY <1>1 DEF TaskKnows
    <3>3. /\ h.pc = "enqueue" /\ h.cert = c /\ h.event = t.event /\ h \in Task
      BY <3>1, <3>2 DEF Task
    <3>4. job[c].state = "none"
      BY <3>1 DEF CertificatesInv, JobsFine, JobFine
    <3>5. cert'[c].state = "live"
      BY <1>1, <3>1 DEF TypeOK
    <3>6. TaskKnows(h)'
      BY <3>1, <3>2, <3>3, <3>4, <3>5 DEF TaskKnows
    <3>7. \A u \in tasks : u.pc = "enqueue" => u.cert # c
      BY <1>1, <3>1 DEF TaskKnows
    <3>8. OneEnqueuer'
      <4>1. OneEnqueuer
        BY DEF CertificatesInv
      <4>2. \A u \in tasks' : u = h \/ u \in tasks
        BY <3>1
      <4> QED  BY <3>3, <3>7, <4>1, <4>2 DEF OneEnqueuer
    <3>9. \A u \in tasks' : TaskKnows(u)'
      BY <3>1, <3>6, OthersStillKnow
    <3> QED  BY <1>1, <3>1, <3>3, <3>8, <3>9 DEF TasksFine
  <2> QED  BY <2>1, <2>2
<1>9. ASSUME NEW t \in tasks, EnqueueMail(t) \/ TaskFail(t)
      PROVE  TasksFine
  BY <1>2, <1>9 DEF EnqueueMail, TaskFail
<1>10. ASSUME tasks' = tasks PROVE TasksFine
  BY <1>2, <1>10
<1>11. ASSUME Working PROVE TasksFine
  BY <1>10, <1>11, WorkingWritesJobs
<1>12. ASSUME Reading PROVE TasksFine
  BY <1>4, <1>5, <1>6, <1>7, <1>9, <1>12 DEF Reading
<1>13. ASSUME NEW c \in CertIds, RemoveCertificate(c) PROVE TasksFine
  BY <1>10, <1>13 DEF RemoveCertificate
<1>14. ASSUME NEW e \in Events,
              PublishEvent(e) \/ CompleteEvent(e) \/ RemoveEvent(e)
       PROVE  TasksFine
  BY <1>10, <1>14 DEF PublishEvent, CompleteEvent, RemoveEvent
<1>15. ASSUME NEW s \in SeatIds, NEW u \in Users, NEW e \in Events,
              JoinEvent(s, u, e)
       PROVE  TasksFine
  BY <1>10, <1>15 DEF JoinEvent
<1>16. ASSUME UNCHANGED vars PROVE TasksFine
  BY <1>10, <1>16 DEF vars
<1> QED
  BY <1>8, <1>9, <1>11, <1>12, <1>13, <1>14, <1>15, <1>16, StepCases

-----------------------------------------------------------------------------
(* The invariant *)

\* At first there are no rows, tasks or jobs.
LEMMA InitInv == Init => CertificatesInv
<1> SUFFICES ASSUME Init PROVE CertificatesInv
  OBVIOUS
<1>1. TypeOK
  <2>1. 0 \in 0..MaxAttempts /\ 0 \in 0..(MaxStalls + 1)
    BY AttemptsAreNatural
  <2> QED  BY <2>1 DEF Init, TypeOK, SeatRow, CertRow, Job
<1>2. SeatsKnown /\ CertsKnown /\ OneEnqueuer /\ \A t \in tasks : TaskKnows(t)
  BY DEF Init, SeatsKnown, CertsKnown, OneEnqueuer, SeatLive, CertLive
<1>3. JobsFine
  BY AttemptsAreNatural DEF Init, JobsFine, JobFine
<1>4. CertificateFitsSeat /\ OnlyWhenCompleted /\ OneCertificatePerAttendee
  BY DEF Init, CertificateFitsSeat, OnlyWhenCompleted,
         OneCertificatePerAttendee, CertLive
<1> QED  BY <1>1, <1>2, <1>3, <1>4 DEF CertificatesInv

\* However many requests overlap, whatever is removed meanwhile and however
\* often the worker dies, every step preserves the invariant.
THEOREM CertificatesInvariant == Spec => []CertificatesInv
<1>1. ASSUME CertificatesInv, [Next]_vars PROVE CertificatesInv'
  BY <1>1, TablesStayFine, JobsStayFine, TasksStayFine
     DEF CertificatesInv, TypeOK, TablesFine, TasksFine
<1> QED  BY InitInv, <1>1, PTL DEF Spec

-----------------------------------------------------------------------------
(* What follows from it *)

\* Every state of the module is well-typed.
THEOREM TypeCorrect == Spec => []TypeOK
<1>1. CertificatesInv => TypeOK
  BY DEF CertificatesInv
<1> QED  BY <1>1, CertificatesInvariant, PTL

\* A certificate that exists is of a live seat of its own user and event.
THEOREM CertificatesAreTrue == Spec => []CertificateFitsSeat
<1>1. CertificatesInv => CertificateFitsSeat
  BY DEF CertificatesInv
<1> QED  BY <1>1, CertificatesInvariant, PTL

\* What the guard read before the insert still holds: the event is completed.
THEOREM CertificatesComeLast == Spec => []OnlyWhenCompleted
<1>1. CertificatesInv => OnlyWhenCompleted
  BY DEF CertificatesInv
<1> QED  BY <1>1, CertificatesInvariant, PTL

\* Overlapping bulk, selected and single requests certify an attendee once.
THEOREM CertifiedOnce == Spec => []OneCertificatePerAttendee
<1>1. CertificatesInv => OneCertificatePerAttendee
  BY DEF CertificatesInv
<1> QED  BY <1>1, CertificatesInvariant, PTL

\* The mail of a certificate is taken once, and once more for each time that
\* the worker died over its job.
THEOREM MailedOncePerLife == Spec => []MailsBounded
<1>1. ASSUME CertificatesInv, NEW c \in CertIds
      PROVE  /\ mails[c] <= 1 + job[c].stalls
             /\ mails[c] > 0 => cert[c].state # "unused"
  <2>1. JobFine(c, job[c], mails[c]) /\ mails[c] \in Nat
    BY <1>1 DEF CertificatesInv, JobsFine, TypeOK
  <2> QED  BY <2>1 DEF JobFine
<1>2. CertificatesInv => MailsBounded
  BY <1>1 DEF MailsBounded
<1> QED  BY <1>2, CertificatesInvariant, PTL

-----------------------------------------------------------------------------
(* While no task fails *)

\* A certificate's mail is queued, or its task is about to.
Queued(c) ==
    \/ job[c].state # "none"
    \/ \E t \in tasks : t.pc = "enqueue" /\ t.cert = c

\* A job that was queued stays one.
LEMMA JobsAreKept ==
    ASSUME TypeOK, [Next]_vars, NEW c \in CertIds, job[c].state # "none"
    PROVE  job'[c].state # "none"
<1>1. job \in [CertIds -> Job]
  BY DEF TypeOK
<1>2. ASSUME NEW t \in tasks, EnqueueMail(t) PROVE job'[c].state # "none"
  BY <1>1, <1>2 DEF EnqueueMail, Job
<1>3. ASSUME NEW d \in CertIds, WorkerStep(d) \/ StallJob(d)
      PROVE  job'[c].state # "none"
  BY <1>1, <1>3 DEF WorkerStep, StallJob, TakeJob, RenderFails, SendMail,
                    CompleteJob, Job
<1>4. CASE job' = job
  BY <1>4
<1>5. CASE Reading \/ UNCHANGED vars
  BY <1>4, <1>5, ReadingWritesTasks DEF vars
<1>6. ASSUME NEW t \in tasks, InsertCertificate(t) PROVE job' = job
  BY <1>6 DEF InsertCertificate
<1>7. ASSUME NEW d \in CertIds, RemoveCertificate(d) PROVE job' = job
  BY <1>7 DEF RemoveCertificate
<1>8. ASSUME NEW e \in Events,
             PublishEvent(e) \/ CompleteEvent(e) \/ RemoveEvent(e)
      PROVE  job' = job
  BY <1>8 DEF PublishEvent, CompleteEvent, RemoveEvent
<1>9. ASSUME NEW s \in SeatIds, NEW u \in Users, NEW e \in Events,
             JoinEvent(s, u, e)
      PROVE  job' = job
  BY <1>9 DEF JoinEvent
<1> QED
  BY <1>2, <1>3, <1>4, <1>5, <1>6, <1>7, <1>8, <1>9, StepCases DEF Working

\* A task about to enqueue leaves its place only by enqueuing.
LEMMA EnqueuersStay ==
    ASSUME CertificatesInv, [SmoothNext]_vars, NEW t \in tasks,
           t.pc = "enqueue"
    PROVE  t \in tasks' \/ EnqueueMail(t)
<1>1. ASSUME NEW u \in tasks, TaskStep(u) PROVE t \in tasks' \/ EnqueueMail(t)
  BY <1>1 DEF TaskStep, FindAttendees, FindSeat, InsertCertificate, EnqueueMail
<1>2. ASSUME Organizer PROVE t \in tasks'
  BY <1>2 DEF Organizer, CreateCertificate, CreateForSelectedUsers, CreateBulk,
     RemoveCertificate, PublishEvent, CompleteEvent, RemoveEvent
<1>3. ASSUME Attendees PROVE t \in tasks'
  BY <1>3 DEF Attendees, JoinEvent
<1>4. ASSUME NEW c \in CertIds, WorkerStep(c) \/ StallJob(c) PROVE t \in tasks'
  BY <1>4 DEF WorkerStep, StallJob, TakeJob, RenderFails, SendMail, CompleteJob
<1>5. CASE UNCHANGED vars
  BY <1>5 DEF vars
<1> QED  BY <1>1, <1>2, <1>3, <1>4, <1>5 DEF SmoothNext

\* What is queued, or about to be, stays so in a step that does not fail.
LEMMA QueuedStays ==
    ASSUME CertificatesInv, [SmoothNext]_vars, NEW c \in CertIds, Queued(c)
    PROVE  Queued(c)'
<1>1. [Next]_vars /\ TypeOK
  BY DEF Next, CertificatesInv
<1>2. CASE job[c].state # "none"
  BY <1>1, <1>2, JobsAreKept DEF Queued
<1>3. ASSUME NEW t \in tasks, t.pc = "enqueue", t.cert = c PROVE Queued(c)'
  <2>1. CASE EnqueueMail(t)
    <3>1. job'[c].state = "waiting"
      BY <1>1, <1>3, <2>1 DEF EnqueueMail, TypeOK, Job
    <3> QED  BY <3>1 DEF Queued
  <2>2. CASE t \in tasks'
    BY <1>3, <2>2 DEF Queued
  <2> QED  BY <1>3, <2>1, <2>2, EnqueuersStay
<1> QED  BY <1>2, <1>3 DEF Queued

\* A certificate that a step gives comes with the task that enqueues its mail.
LEMMA GivenWithItsTask ==
    ASSUME CertificatesInv, [Next]_vars, NEW c \in CertIds,
           CertLive(c)', ~CertLive(c)
    PROVE  Queued(c)'
<1>1. cert \in [CertIds -> CertRow] /\ tasks \subseteq Task
  BY DEF CertificatesInv, TypeOK
<1>2. ASSUME NEW t \in tasks, InsertCertificate(t) PROVE Queued(c)'
  <2>1. PICK d \in CertIds :
            /\ cert' = [cert EXCEPT ![d] =
                  [state |-> "live", user |-> t.user, event |-> t.event,
                   seat |-> t.seat]]
            /\ tasks' = (tasks \ {t})
                            \cup {[t EXCEPT !.pc = "enqueue", !.cert = d]}
    BY <1>2 DEF InsertCertificate, CertLive
  <2>2. d = c
    BY <1>1, <2>1 DEF CertLive
  <2>3. PICK h \in tasks' : h = [t EXCEPT !.pc = "enqueue", !.cert = c]
    BY <2>1, <2>2
  <2>4. h.pc = "enqueue" /\ h.cert = c
    BY <1>1, <2>3 DEF Task
  <2> QED  BY <2>4 DEF Queued
<1>3. ASSUME NEW d \in CertIds, RemoveCertificate(d) PROVE FALSE
  BY <1>1, <1>3 DEF RemoveCertificate, CertLive, CertRow
<1>4. ASSUME NEW e \in Events, RemoveEvent(e) PROVE FALSE
  BY <1>1, <1>4 DEF RemoveEvent, CertLive, CertRow
<1>5. ASSUME cert' = cert PROVE FALSE
  BY <1>5 DEF CertLive
<1>6. ASSUME NEW e \in Events, PublishEvent(e) \/ CompleteEvent(e)
      PROVE  cert' = cert
  BY <1>6 DEF PublishEvent, CompleteEvent
<1>7. ASSUME NEW s \in SeatIds, NEW u \in Users, NEW e \in Events,
             JoinEvent(s, u, e)
      PROVE  cert' = cert
  BY <1>7 DEF JoinEvent
<1> QED
  BY <1>2, <1>3, <1>4, <1>5, <1>6, <1>7, WhoWritesTables

\* While no task fails, no certificate is left whose mail nobody queues: the
\* insert and the enqueuing are two calls, and only a failure comes in between.
THEOREM NoMailIsForgotten == SmoothSpec => []EveryCertificateQueued
<1>1. EveryCertificateQueued <=> \A c \in CertIds : CertLive(c) => Queued(c)
  BY DEF EveryCertificateQueued, Queued
<1>2. Init => EveryCertificateQueued
  BY DEF Init, EveryCertificateQueued, CertLive
<1>3. ASSUME CertificatesInv, EveryCertificateQueued, [SmoothNext]_vars
      PROVE  EveryCertificateQueued'
  <2>1. [Next]_vars
    BY <1>3 DEF Next
  <2>2. ASSUME NEW c \in CertIds, CertLive(c)' PROVE Queued(c)'
    BY <1>1, <1>3, <2>1, <2>2, QueuedStays, GivenWithItsTask
  <2> QED  BY <2>2 DEF EveryCertificateQueued, Queued
<1>4. SmoothSpec => Spec
  <2>1. [SmoothNext]_vars => [Next]_vars
    BY DEF Next
  <2> QED  BY <2>1, PTL DEF SmoothSpec, Spec
<1>5. SmoothSpec => Init /\ [][SmoothNext]_vars
  BY DEF SmoothSpec
<1> QED  BY <1>2, <1>3, <1>4, <1>5, CertificatesInvariant, PTL

-----------------------------------------------------------------------------
(* The refinement *)

Attending == {<<seat[s].user, seat[s].event>> : s \in {x \in SeatIds : SeatLive(x)}}
OverNow == {e \in Events : event[e] = "completed"}
Given == {<<c, cert[c].user, cert[c].event>> : c \in {d \in CertIds : CertLive(d)}}
Spent == {c \in CertIds : cert[c].state # "unused"}

\* The ledger's step, over the mapped state.
LedgerStep == [Ledger!Next]_(Ledger!ledger)

LEMMA LedgerState ==
    Ledger!ledger = <<Attending, OverNow, Given, Spent, mails>>
  BY DEF Ledger!ledger, Attending, OverNow, Given, Spent

\* A step that leaves the tables and the mails alone is a stutter.
LEMMA LedgerStutter ==
    ASSUME UNCHANGED <<event, seat, cert, mails>>
    PROVE  LedgerStep
  BY LedgerState DEF LedgerStep, Attending, OverNow, Given, Spent,
     SeatLive, CertLive, Ledger!ledger

\* The insert that succeeds gives the certificate to an attendee of an event
\* that is over, who had none.
LEMMA InsertGives ==
    ASSUME CertificatesInv, NEW t \in tasks, InsertCertificate(t)
    PROVE  LedgerStep
<1>1. CASE cert' = cert
  BY <1>1, LedgerStutter DEF InsertCertificate
<1>2. CASE cert' # cert
  <2>1. PICK c \in CertIds :
            /\ ~Duplicate(t) /\ SeatLive(t.seat)
            /\ cert[c].state = "unused"
            /\ cert' = [cert EXCEPT ![c] =
                  [state |-> "live", user |-> t.user, event |-> t.event,
                   seat |-> t.seat]]
    BY <1>2 DEF InsertCertificate
  <2>2. PICK u \in Users, e \in Events : u = t.user /\ e = t.event
    BY DEF CertificatesInv, TypeOK, Task, TaskKnows, InsertCertificate
  <2>3. /\ t.seat \in SeatIds /\ cert \in [CertIds -> CertRow]
        /\ seat[t.seat].user = u /\ seat[t.seat].event = e
        /\ event[e] = "completed"
    <3>1. /\ t.seat \in SeatIds /\ seat[t.seat].user = u /\ seat[t.seat].event = e
          /\ event[e] \in {"completed", "removed"}
      BY <2>2 DEF CertificatesInv, TaskKnows, InsertCertificate
    <3>2. EventExists(e)
      BY <2>1, <3>1 DEF CertificatesInv, SeatsKnown
    <3>3. cert \in [CertIds -> CertRow]
      BY DEF CertificatesInv, TypeOK
    <3> QED  BY <3>1, <3>2, <3>3 DEF EventExists
  <2>4. c \notin Spent /\ e \in OverNow /\ <<u, e>> \in Attending
    BY <2>1, <2>3 DEF Spent, OverNow, Attending
  <2>5. \A g \in Given : <<g[2], g[3]>> # <<u, e>>
    <3>1. ~Issued(u, e)
      BY <2>1, <2>2 DEF Duplicate
    <3> QED  BY <3>1 DEF Issued, Given
  <2>6. Given' = Given \cup {<<c, u, e>>}
    <3>1. /\ ~CertLive(c) /\ CertLive(c)'
          /\ cert'[c].user = u /\ cert'[c].event = e
          /\ \A d \in CertIds : d # c => cert'[d] = cert[d]
      BY <2>1, <2>2, <2>3 DEF CertLive
    <3>2. ASSUME NEW g PROVE g \in Given' <=> g \in Given \/ g = <<c, u, e>>
      <4>1. g \in Given' <=>
                \E d \in CertIds : /\ CertLive(d)'
                                   /\ g = <<d, cert'[d].user, cert'[d].event>>
        BY DEF Given
      <4>2. g \in Given <=>
                \E d \in CertIds : /\ CertLive(d)
                                   /\ g = <<d, cert[d].user, cert[d].event>>
        BY DEF Given
      <4>3. \A d \in CertIds : d # c => (CertLive(d)' <=> CertLive(d))
        BY <3>1 DEF CertLive
      <4> QED  BY <3>1, <4>1, <4>2, <4>3
    <3> QED  BY <3>2
  <2>7. Spent' = Spent \cup {c}
    BY <2>1, <2>3 DEF Spent
  <2>8. UNCHANGED <<Attending, OverNow, mails>>
    <3>1. UNCHANGED <<event, seat, mails>>
      BY DEF InsertCertificate
    <3> QED  BY <3>1 DEF Attending, OverNow, SeatLive
  <2>9. Ledger!Give(c, u, e)
    BY <2>4, <2>5, <2>6, <2>7, <2>8
       DEF Ledger!Give, Attending, OverNow, Given, Spent
  <2> QED  BY <2>9 DEF LedgerStep, Ledger!Next
<1> QED  BY <1>1, <1>2

\* The cascade is the ledger's: attendees and certificates go together.
LEMMA CascadeErases ==
    ASSUME CertificatesInv, NEW e \in Events, RemoveEvent(e)
    PROVE  LedgerStep
<1>0. /\ event \in [Events -> {"absent", "live", "completed", "removed"}]
      /\ seat \in [SeatIds -> SeatRow] /\ cert \in [CertIds -> CertRow]
      /\ CertsKnown /\ SeatsKnown
  BY DEF CertificatesInv, TypeOK
<1>1. /\ event' = [event EXCEPT ![e] = "removed"]
      /\ seat' = [s \in SeatIds |->
                     IF SeatLive(s) /\ seat[s].event = e
                     THEN [seat[s] EXCEPT !.state = "deleted"] ELSE seat[s]]
      /\ cert' = [c \in CertIds |->
                     IF CertLive(c) /\ cert[c].event = e
                     THEN [cert[c] EXCEPT !.state = "deleted"] ELSE cert[c]]
      /\ mails' = mails
  BY DEF RemoveEvent
<1>2. ASSUME NEW s \in SeatIds
      PROVE  /\ seat'[s].user = seat[s].user /\ seat'[s].event = seat[s].event
             /\ SeatLive(s)' <=> SeatLive(s) /\ seat[s].event # e
  BY <1>0, <1>1 DEF SeatRow, SeatLive
<1>3. Attending' = {p \in Attending : p[2] # e}
  <2>1. Attending' = {<<seat[s].user, seat[s].event>> :
                         s \in {x \in SeatIds : SeatLive(x)'}}
    BY <1>2 DEF Attending
  <2> QED  BY <1>2, <2>1 DEF Attending
<1>4. OverNow' = OverNow \ {e}
  BY <1>0, <1>1 DEF OverNow
<1>5. ASSUME NEW c \in CertIds
      PROVE  /\ cert'[c].user = cert[c].user /\ cert'[c].event = cert[c].event
             /\ CertLive(c)' <=> CertLive(c) /\ cert[c].event # e
             /\ cert'[c].state # "unused" <=> cert[c].state # "unused"
  BY <1>0, <1>1 DEF CertRow, CertLive
<1>6. Given' = {g \in Given : g[3] # e}
  <2>1. Given' = {<<c, cert[c].user, cert[c].event>> :
                     c \in {d \in CertIds : CertLive(d)'}}
    BY <1>5 DEF Given
  <2> QED  BY <1>5, <2>1 DEF Given
<1>7. Spent' = Spent
  BY <1>5 DEF Spent
<1>8. Ledger!Erase(e)
  BY <1>1, <1>3, <1>4, <1>6, <1>7
     DEF Ledger!Erase, Attending, OverNow, Given, Spent
<1> QED  BY <1>8 DEF LedgerStep, Ledger!Next

\* A mail that the server takes is of a certificate that was given.
LEMMA WorkingDelivers ==
    ASSUME CertificatesInv, Working
    PROVE  LedgerStep
<1>1. UNCHANGED <<event, seat, cert, tasks>>
  BY WorkingWritesJobs
<1>2. CASE mails' = mails
  BY <1>1, <1>2, LedgerStutter
<1>3. CASE mails' # mails
  <2>1. PICK c \in CertIds : /\ job[c].state = "active"
                             /\ mails' = [mails EXCEPT ![c] = @ + 1]
    BY <1>3 DEF Working, WorkerStep, StallJob, TakeJob, RenderFails, SendMail,
                CompleteJob
  <2>2. c \in Spent
    BY <2>1 DEF CertificatesInv, JobsFine, JobFine, Spent
  <2>3. UNCHANGED <<Attending, OverNow, Given, Spent>>
    BY <1>1 DEF Attending, OverNow, Given, Spent, SeatLive, CertLive
  <2>4. Ledger!Deliver(c)
    BY <2>1, <2>2, <2>3
       DEF Ledger!Deliver, Attending, OverNow, Given, Spent
  <2> QED  BY <2>4 DEF LedgerStep, Ledger!Next
<1> QED  BY <1>2, <1>3

\* Every step of the module is a step of the ledger or a stutter.
LEMMA StepSimulation ==
    ASSUME CertificatesInv, [Next]_vars
    PROVE  LedgerStep
<1>0. /\ event \in [Events -> {"absent", "live", "completed", "removed"}]
      /\ seat \in [SeatIds -> SeatRow] /\ cert \in [CertIds -> CertRow]
  BY DEF CertificatesInv, TypeOK
<1>1. ASSUME Reading \/ UNCHANGED vars PROVE LedgerStep
  BY <1>1, ReadingWritesTasks, LedgerStutter DEF vars
<1>2. ASSUME NEW t \in tasks, EnqueueMail(t) PROVE LedgerStep
  BY <1>2, LedgerStutter DEF EnqueueMail
<1>3. ASSUME NEW c \in CertIds, RemoveCertificate(c) PROVE LedgerStep
  <2>1. cert' = [cert EXCEPT ![c].state = "deleted"] /\ CertLive(c)
    BY <1>3 DEF RemoveCertificate
  <2>2. Given' = {g \in Given : g[1] # c}
    <3>1. ASSUME NEW d \in CertIds
          PROVE  /\ cert'[d].user = cert[d].user /\ cert'[d].event = cert[d].event
                 /\ CertLive(d)' <=> CertLive(d) /\ d # c
      BY <1>0, <2>1 DEF CertLive, CertRow
    <3>2. Given' = {<<d, cert[d].user, cert[d].event>> :
                       d \in {x \in CertIds : CertLive(x)'}}
      BY <3>1 DEF Given
    <3> QED  BY <3>1, <3>2 DEF Given
  <2>3. Spent' = Spent
    BY <1>0, <2>1 DEF Spent, CertLive, CertRow
  <2>4. UNCHANGED <<Attending, OverNow, mails>>
    BY <1>3 DEF RemoveCertificate, Attending, OverNow, SeatLive
  <2>5. Ledger!Withdraw(c)
    BY <2>2, <2>3, <2>4
       DEF Ledger!Withdraw, Attending, OverNow, Given, Spent
  <2> QED  BY <2>5 DEF LedgerStep, Ledger!Next
<1>4. ASSUME NEW e \in Events, PublishEvent(e) PROVE LedgerStep
  <2>1. OverNow' = OverNow
    BY <1>0, <1>4 DEF PublishEvent, OverNow
  <2>2. UNCHANGED <<Attending, Given, Spent, mails>>
    BY <1>4 DEF PublishEvent, Attending, Given, Spent, SeatLive,
                CertLive
  <2> QED
    BY <2>1, <2>2 DEF LedgerStep, Ledger!ledger, Attending, OverNow, Given,
                      Spent
<1>5. ASSUME NEW e \in Events, CompleteEvent(e) PROVE LedgerStep
  <2>1. OverNow' = OverNow \cup {e}
    BY <1>0, <1>5 DEF CompleteEvent, OverNow
  <2>2. UNCHANGED <<Attending, Given, Spent, mails>>
    BY <1>5 DEF CompleteEvent, Attending, Given, Spent, SeatLive,
                CertLive
  <2>3. Ledger!Complete(e)
    BY <2>1, <2>2
       DEF Ledger!Complete, Attending, OverNow, Given, Spent
  <2> QED  BY <2>3 DEF LedgerStep, Ledger!Next
<1>6. ASSUME NEW s \in SeatIds, NEW u \in Users, NEW e \in Events,
             JoinEvent(s, u, e)
      PROVE  LedgerStep
  <2>1. /\ seat' = [seat EXCEPT ![s] =
                       [state |-> "live", user |-> u, event |-> e]]
        /\ seat[s].state = "unused"
        /\ UNCHANGED <<event, cert, mails>>
    BY <1>6 DEF JoinEvent
  <2>2. ASSUME NEW x \in SeatIds
        PROVE  /\ SeatLive(x)' <=> SeatLive(x) \/ x = s
               /\ x # s => seat'[x] = seat[x]
               /\ x = s => seat'[x].user = u /\ seat'[x].event = e
    BY <1>0, <2>1 DEF SeatLive
  <2>3. ASSUME NEW p PROVE p \in Attending' <=> p \in Attending \/ p = <<u, e>>
    <3>1. p \in Attending' <=>
              \E x \in SeatIds : /\ SeatLive(x)'
                                 /\ p = <<seat'[x].user, seat'[x].event>>
      BY DEF Attending
    <3>2. p \in Attending <=>
              \E x \in SeatIds : /\ SeatLive(x)
                                 /\ p = <<seat[x].user, seat[x].event>>
      BY DEF Attending
    <3>3. ~SeatLive(s)
      BY <2>1 DEF SeatLive
    <3> QED  BY <2>2, <3>1, <3>2, <3>3
  <2>4. Attending' = Attending \cup {<<u, e>>}
    BY <2>3
  <2>5. UNCHANGED <<OverNow, Given, Spent>>
    BY <2>1 DEF OverNow, Given, Spent, CertLive
  <2>6. Ledger!Attend(u, e)
    BY <2>1, <2>4, <2>5
       DEF Ledger!Attend, Attending, OverNow, Given, Spent
  <2> QED  BY <2>6 DEF LedgerStep, Ledger!Next
<1> QED
  BY <1>1, <1>2, <1>3, <1>4, <1>5, <1>6, InsertGives, CascadeErases,
     WorkingDelivers, StepCases

LEMMA InitSimulation == Init => Ledger!Init
  BY DEF Init, Ledger!Init, SeatLive, CertLive

\* Every execution of the routes and the worker is an execution of the ledger:
\* certificates are given once, to attendees of events that are over, and only
\* what was given is mailed.
THEOREM CertificatesImplementLedger == Spec => ImplementsCertificateLedger
<1>1. CertificatesInv /\ [Next]_vars => [Ledger!Next]_(Ledger!ledger)
  BY StepSimulation DEF LedgerStep
<1> QED
  BY <1>1, InitSimulation, CertificatesInvariant, PTL
  DEF Spec, ImplementsCertificateLedger, Ledger!Spec
=============================================================================
