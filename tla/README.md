# CertChain API: models, checks and proofs

CertChain is a NestJS service over PostgreSQL (Prisma), Redis queues (BullMQ),
a payment gateway (Khalti), an SMTP server, socket.io and a language model.
Organizers publish events, attendees join or pay, and attendees of completed
events receive certificates by mail. Nearly every handler is a sequence of
awaited calls without a transaction around them, so what a handler read may be
old when it writes. That is what these modules are about.

`tlc -config X.cfg MCModule` checks a run and `tlapm X.tla` the proofs of a
module. PROJECT.json lists the runs, the definitions with the lines they model,
the mutants, the hazards and the theorems.

## 1. Inventory

Paths are relative to `src/src/modules/` unless they start with `lib/`.

| Component | State | Operations | Interacts with | What makes it correct |
|---|---|---|---|---|
| Enrollment (`users/event`) | payments, user_events | joinEvent, verifyEventPayment | Khalti, event.joined | no seat for nothing; PAID only for money taken; the payer is served |
| Khalti client (`lib/khalti`) | none (sessions at Khalti) | initiate, lookup | enrollment | a session's status is read, never invented |
| Organizer events (`organizer/event`) | events with schedules, FAQs | create, update, remove, markAsCompleted, views | cascades to every table below | nothing of a removed event stays; one featured event |
| Bans (`organizer/user-event`) | participant_bans | ban, unban | seats | a ban goes with its seat |
| Certificates (`organizer/certificate`) | certificates, queue | single, bulk and selected issue, delete | queue, seats | one per attendee, fitting its seat, mail queued |
| Certificate worker | jobs | process with attempts, stalls | mail service | every job ends; mails bounded by the worker's lives |
| Mail service (`lib/mail`) | none | send | SMTP | errors are swallowed |
| Organizer registration (`organizer/auth`) | organizers, verification tokens | register, resend, verify | team, mail queues | only a mailed link verifies; one welcome per token |
| Organizer access (`organizer/auth`, guard and strategy) | team_members' passwords, signed tokens | login, app-login, reset-password, guard | team, every organizer route | a reset hits the row it read; tokens for who gave a password; the guard admits a member as it is now |
| Team (`organizer/team-member`) | team_members | create, update, delete | tokens, participants | who leaves or changes address takes no one's place |
| User accounts (`users`, `users/auth`) | users, JWT links | register, login, forgot, reset, resend, verify | mail queues | one registration per address; tokens only for a password the account had |
| Conversations (`users/conversation`, `organizer/conversation`) | conversations, participants, messages | listeners of event.created and event.joined, send, views | gateway, assistant | messages and participants belong to a live conversation |
| Chat gateway | sockets, rooms, maps in memory | join, leave, send, typing, disconnect | conversations, assistant | nobody in a room misses a message |
| Assistant (`lib/ai`) | none | generateMesssage | gateway | answers users only |
| Pagination (`lib/pagination`) | none | params, response | all list views | a walk over the pages misses and repeats little |
| Organizer profile, domains, analytics (`organizer`) | organizers, domains | views, update, sums | events | sums agree with the tables |
| Attendee's views (`users/user-event`) | none | lists, ban hides fields | | formatting |
| Images, S3 | objects | upload | | I/O only |
| main, cluster, env, db, interceptor, base classes, Esewa | | start-up, layout | | |

Hard behaviours, by kind. *Stale reads*: a lookup, a hash, a guard's event or a
participant is read before an await and used after it. *Races decided only by
unique keys and cascades*, or by nothing (a seat has no unique key on user and
event). *Partial failure*: rows inserted and mails not queued, payments marked
and seats not inserted, a message broadcast and its sender told it failed.
*Detached listeners*: `emitAsync` is not awaited, so nothing orders the
conversation's creation against its first joiners. *Retries*: users verify
again, BullMQ runs a stalled job again. The process is one (`numCPUs` is 1) and
pm2 starts it again when it dies.

## 2. Modules

| Module | Models | Instance for TLC | Proofs |
|---|---|---|---|
| SeatLedger | what enrollment promises | | |
| CertificateLedger | what issuing promises | | |
| Enrollment | joins, payments, seats, bans | MCEnrollment | EnrollmentProofs |
| Certificates | issuing and mailing certificates | MCCertificates | CertificatesProofs |
| OrganizerVerification | registration, resend, verify, the team's addresses | MCOrganizerVerification | OrganizerVerificationProofs |
| OrganizerAccess | login, reset, the guard and the team's routes | MCOrganizerAccess | OrganizerAccessProofs |
| UserAccounts | users' registration, login, reset, verify, mails | MCUserAccounts | UserAccountsProofs |
| Conversations | listeners, gateway, messages, assistant | MCConversations | ConversationsProofs |
| EventBoard | events, isFeatured, lists and analytics | MCDashboard | EventBoardProofs |
| PagedWalk | reading a list page by page | MCDashboard | PagedWalkProofs |

All modules take one awaited call, with the synchronous code up to the next
await, as one action; the action `Fail` is an awaited call that throws or the
death of the process at that point. Rows come from pools of identifiers: an id
that was used is never used again, as with cuid. History variables are marked
so in the declarations.

**Enrollment** models `joinEvent` and `verifyEventPayment` call by call: the
event's read (JoinEvent), the free seat (CreateSeat), the payment row
(CreatePayment), the session (InitiatePayment) and its pidx (StorePidx); then
the payment's read (VerifyEventPayment), the seat's read (FindNoSeat or
AnswerAlreadyVerified), the lookup (LookupPayment), and MarkPaid, CreatePaidSeat
and LinkSeat, or MarkFailed. Around them the organizer creates, updates, starts
and removes events and bans seats, and Khalti settles and refunds sessions. A
payment of which the pidx was never stored cannot be verified.
**SeatLedger** is the abstract promise: a seat is granted only to someone
entitled to it, and goes only with its event. Enrollment implements it under
the mapping `Ledger` at the end of the module.

**Certificates** has the guard (`PassesGuard`), the three create routes as
requests that start tasks (bulk and selected requests map a list without
ordering it), each task's seat lookup, insert and enqueue, the unique keys, the
delete, and the worker: a job is taken, rendering may throw (counted against
its attempts), the mail is sent and the job completed, or the worker dies
between the two and the job is given back. **CertificateLedger** is the abstract
promise: a certificate is given in one step, once to an attendee of an event
that is over, it goes when it is withdrawn or with the whole event, and mails
are taken only of what was given. Certificates implements it under the mapping
`Ledger` at the end of the module.

**OrganizerVerification** has registration (organizer, member, token, mail) with
its refusals, resend, and `verifyEmail` in its five calls, with the token
table's upsert that keeps `expiresAt`, and the team's additions, removals and
changes of address. Two lifetimes count: the row's hour and the JWT's day. What
it leaves behind, a verified member, is where **OrganizerAccess** begins: login
and app-login (the row's read, the hash's check, the tokens), reset-password
(the read by address, the update by id), and the JWT guard, behind which
`create`, `update` and `remove` of the team change the very rows that the
handlers in flight have read. A token is the row as it was when it was signed
and is never taken back. `update` stores the body as it is, so a password
column may hold text; argon2 then refuses every login.

**UserAccounts** has registration, login, forgot and reset password, resend and
verify, the JWT links (no table records them; they can be used until they
expire), the mail worker for links, and the two queues whose mails tell of what
happened: `welcome` and `notice` (password changed).

**Conversations** has the two listeners, the sockets with their rooms and the
gateway's `socketRooms`, join, leave and disconnect, `send_message` with the
assistant's reply, the POST route, and a client that fetches the history by one
of the three routes that show it: `findOne` and `getMessages` of an attendee, who
must take part, and `getMessages` of a team member, who is not asked. A
message's insert and its broadcast are separate steps. `userSockets` is written
and never read, and typing only relays; both are left out.

**EventBoard** has the two statements of a create or update with isFeatured
(clear the organizer's others, then write the event), the plain ones, the
delete, and the routes that show events: seven lists of rows and total, an
event's analytics, an organizer's by id and by subdomain. Seats and
certificates are counts here; Enrollment and Certificates say how they come to be.

**PagedWalk** is a client that reads a list page by page, each page a findMany
and a count at READ COMMITTED, while rows are inserted and removed; `paginate`'s
skip, take, search and order are its operators. The table is a set of rows with
a `createdAt` each, and a page is the set of those whose `Place` among the rows
that are found lies between skip and skip + take. No two rows share a createdAt
here; those that do may swap between queries in the database.

The operators commented "Mutant:" are wrong versions of the definition that
follows them. No specification uses them; each shows that a property notices
that mistake.

## 3. Runs

Bounds: pools of one to four rows per table, two handlers in flight at most.
Two handlers are what the races above need, and each pool holds enough rows for
every handler to insert (the guards `...Room` keep a handler from starting when
it could not). Symmetry is declared only in runs of invariants and action
properties, never with liveness. Deadlock is not checked: with the pools used up
and the users idle, the system may stop.

| Run | Question | Bounds |
|---|---|---|
| EnrollmentConcurrent | does anybody get a seat or a PAID row for nothing, does a cascade leave orphans, do the handlers implement SeatLedger, do rows keep their owners | 2 users, 1 event, 2 handlers, 2 payments, 2 seats |
| EnrollmentSerial | with one handler at a time, is a seat backed by a PAID row, is there one seat per user | 1 user, 2 payments, 3 seats |
| EnrollmentLive | is a payer served, does a payment become payable | 1 user, 1 payment, 2 fair handlers, no failures |
| CertificatesSafety | one fitting certificate per attendee of a completed event, bounded mails; do the routes and the worker implement CertificateLedger | 2 users, 2 requests, 2 attempts, 1 stall |
| CertificatesLive | is every attendee served, every mail queued and processed | 1 user with two seats, fair tasks and worker |
| VerificationSafety | is a verified member's address one that received a link; one welcome per token | 2 addresses, 2 handlers, 2 links, clock to 3 |
| AccessSafety | does a reset reach only the row it read, are tokens given for a password of a verified member, is who passes the guard that member as it is now | 2 rows, 2 addresses, 2 organizers, 2 passwords, 2 handlers, 1 token |
| AccountsSafety | one insert per address, tokens only for passwords the account had, bounded welcomes, verified, welcomed and told of a new password only behind a link that reached the address, a password changed only under a live reset link | 2 addresses, 2 passwords, 2 handlers, 2 links, links live for 1, clock to 2, 1 notice |
| ChatSafety | does anything outlive its conversation, does a reply answer one user's message, does a client that joins and then fetches miss a message, is anyone left out of the participants | 1 user, 1 member, 1 seat, 1 socket, 3 messages, 2 handlers |
| Dashboard | how much a page walk may miss and repeat, and does it end; is who features an event without overlap left with it alone; do views that count in several statements agree but for what was written meanwhile | 4 rows, pages of 0, 1 and 2, both orders, a search; 2 events, 2 organizers, 2 writers, 1 seat each |

One socket is enough for ChatSafety: a message comes from a socket or by POST,
and what a client in the room holds does not depend on other sockets. Three
messages are a user's message, its reply and another message beside them. One
token is enough for AccessSafety: what a guard lets in depends on one token and
the row it names, and the two rows let that row be removed and its address
given away.

Dashboard checks two modules that share nothing, so a behaviour is of one or
the other (`part` in MCDashboard). In it, a search has pages of one row,
pages of none are read newest first, and rows that no search tells apart are
created in the order of their names (`InOrder`); views are followed one at a time, as they
change nothing, and none is open while a request stands between its two
statements (`OneAtATime`): what such a request writes, a request that features
nothing writes too, and no view shows what is featured.

Runs that end in a counterexample, each a disagreement of the code with what it
says of itself (the findings in PROJECT.json quote the lines):

| Run | What it shows |
|---|---|
| VerificationLink | a resent link dies with the first row's hour |
| AccountsOneLetter | a mail to a one-letter local part is never sent |

Disagreements that were met while reading and that the models contain, without
a run of their own:

- PAYMENT_ALREADY_VERIFIED is answered for a second payment nobody looked at
  (AnswerAlreadyVerified).
- "Ban a user from an event" bans one seat; joinEvent looks for no ban, so the
  user joins again (JoinEvent of Enrollment).
- A failure between a certificate's insert and its mail leaves a certificate
  that later requests skip (InsertCertificate, Fail).
- PUT of a team member stores the password of the body as text, and every later
  login of that member throws (UpdateMember, VerifyHash of OrganizerAccess); it
  keeps `verifiedAt` under a new address.
- A user's verification link promises an hour and is accepted for the JWT's day
  (Usable).
- An organizer whose member was refused stays without anyone who can log in
  (RefuseMember).
- A message that was stored and broadcast is reported as failed when the
  assistant fails (Fail of Conversations); a socket that left during its join
  stays in `socketRooms` (EnterRoom).
- An id or subdomain that nobody has gets the analytics of everyone's events
  (ShowProfile); certificateRate of an event without participants is 0/0.

Fairness. `SmoothSpec` of Enrollment, Certificates and UserAccounts is the
specification without failures, weakly fair in each handler's, task's or mail's
steps: Node resumes a handler whose await is settled, and the workers run in the
serving process. Nothing is assumed of users, organizers, Khalti or sockets. A
page walk is fair because its client asks on while the response names another
page; its rows are finitely many, and a list that grows without end may keep it
going. Failures are left out of these specifications because the code has no
retry around its handlers: what a failure does is shown by the safety runs.

SeatBacked and OneSeatPerUser hold with one verification at a time and are
checked and proved so. With two, a stale lookup can turn PAID back to FAILED and
two verifications of one payment can both insert; no document of the repository
says otherwise, so this is recorded as a hazard.

## 4. Proofs

Each theorem is for every value of the constants. In each module the type
invariant and the safety properties follow from one inductive invariant, stated
towards the end of the component's module (SerialInv in EnrollmentProofs). The
safety properties are not inductive alone, because a handler writes on the
strength of what it read earlier; so every invariant says what stays true of that knowledge while others write
(`HandlerKnows`, `Knows`, `TaskKnows`), and that rows in use are filled in. The
inductive invariants were checked with TLC on the runs' instances before they
were proved; the runs check the properties only.

| Module | Invariant | What it adds to the properties | Theorems |
|---|---|---|---|
| EnrollmentProofs | EnrollmentInv | a handler's ids are those of its user and event, a payment it saw Completed stays charged; free events are recorded; only its creator opens a payment's session, once | NoSeatForFree, PaymentsAreReal, LinksAreTrue, CascadeIsComplete, OwnersNeverChange |
| EnrollmentProofs | SerialInv, with `OneSlot` | a verification about to insert found no seat, and its payment is PAID or gone with the event | SeatsAreBacked, SeatsAreSingle |
| EnrollmentProofs | EnrollmentInv | for the refinement: initial states map to initial states, every step to one of SeatLedger or a stutter | EnrollmentImplementsLedger |
| CertificatesProofs | CertificatesInv | a task's seat is its user's at its event; only the task that inserted a certificate enqueues its mail; a job has attempts and stalls left, its mail was taken once per life; while nothing fails, the certificate's task is about to queue it | NoMailIsForgotten (of SmoothSpec), CertificatesAreTrue, CertificatesComeLast, CertifiedOnce, MailedOncePerLife, CertificatesImplementLedger (every step is one of CertificateLedger or a stutter) |
| OrganizerVerificationProofs | VerificationInv | a verifying handler follows a delivered link of its member; every token row is there, spent on a welcome, or lost | MembersGotALink, WelcomesArePaidFor |
| OrganizerAccessProofs | AccessInv | a handler's row exists and was asked for the password it carries; the row it logs in is verified | ResetsHitTheirRow, TokensAreEarned, GuardKnowsTheMember |
| UserAccountsProofs | AccountsInv | a login compares with a hash the account had; resetting and verifying handlers hold an opened link of their address; beside it, `WelcomesCounted`: welcomes and those who set out to welcome | OnlyOverlapsWelcome, RegisteredOnce, TokensAreEarned, LinksLeadTheWay, ResetsAreTimely |
| EventBoardProofs | BoardInv | a request that nobody overlapped is alone between its statements, and the organizer has nothing featured there | LoneWritersStayAlone, FeaturesStandAlone |
| EventBoardProofs | ViewInv | what a view has counted is what there is, but for what was noted as written since | ViewsAreExplained, BoardTypeCorrect, RatesAreExplained, QuietViewsAreRight |
| PagedWalkProofs | WalkInv | the rows passed unread are as few as the removals; the repeats so far, those on the current page and the rows read that stand before the walk again are together as few as the insertions | WalkInvariant, TypeCorrect, MissesAreRemovals, RepeatsAreInsertions |
| ConversationsProofs | ChatInv | a listener that goes on has the conversation unless the event was removed; a handler's sender takes part and its message is answered by nobody else; clients are caught up only with rooms they are in | NothingOutlives, UsersAreAnswered, ReadersMissNothing, JoinersAreAdded, TeamsAreAdded |

The proofs of the invariants have one lemma or step per action, and under it one
step per conjunct that the action can disturb. ConversationsProofs splits the
invariant in three, tables with listeners, messages with handlers, and rooms
with clients: the first does not depend on the others, and the second on the
first only through `TablesKeep` (removed events stay removed, seats keep their
event, participants and conversations go only with their event). The action
properties (OwnersNeverChange, GuardKnowsTheMember, ResetsAreTimely,
FeaturesStandAlone) follow from the invariants and the steps; the temporal steps
close with PTL.

Assumptions, each beside the constants it is about: the null value is no
identifier (`NoneIsNoId`, `NoneIsNoRow`, `NoneIsNoMember`, `NoneIsNoName`,
`NoneIsNoValue`, `NobodyIsNoName`); users, members and seats have different names
(`NamesAreApart`); bounds and lifetimes are natural numbers
(`AttemptsAreNatural`, `TimesAreNatural`, `TokensAreNatural`,
`LifetimesAreNatural`, `SeatsAreNatural`), attempts at least one; requests are
finitely many where they are counted (`FewRequests` of OrganizerVerification and
UserAccounts), as are the events whose seats are summed (`FewEvents`) and the rows
of a list (`FewRows`); pages, sort orders and search columns are of the kinds that
`LimitsAreNatural`, `NoneIsNoLimit`, `SortsAreKnown` and `FieldsFindRows` say;
addresses of one letter are addresses (`OneLetterAreEmails`). SeatsAreBacked and
SeatsAreSingle assume besides that at most one handler is in flight (`OneSlot`),
without which they are false.

PagedWalkProofs rests on where rows stand: a row's place is the number of rows
before it, so an insertion moves the rows behind it one place on and leaves the
others (`InsertMoves`), a removal moves them one back (`RemoveMoves`), and no two
rows have one place (`PlacesDiffer`). One removal can thus take at most one
unread row past the walk, the row whose place was the first unread, and one
insertion can bring at most one read row before it again. The rest is that the
next page begins where this one ended (`NextPageFollows`) and that after the last
one nothing is left (`LastPagePassesAll`), arithmetic of skip and take.

The sums of EventBoard's views are a fold over a set. That the sum exists, is
one number and grows with its terms is proved by a least counterexample in the
size of the set (`SumsExist`, `SumsAreOrdered`, from `LeastNumber`), because the library's
induction theorems take an operator, which the provers cannot instantiate.

WelcomesOverlap is not inductive, for a verification that has read an unverified
account may welcome it later. `WelcomesCounted` counts those too: once an account
is verified nobody sets out any more, and each one who did is one request.

Only model-checked: the liveness properties (ChargedVerifyIsServed,
PaymentBecomesPayable, EveryAttendeeServed, EveryMailProcessed and WalkEnds),
because fairness and ENABLED are beyond the prover used. Every invariant and
action property that a run expects to hold is stated by a theorem.

## 5. Not modelled, and why

- forgot-password of organizers: it mails a code that reset-password never asks
  for. Invitations: nothing calls the service.
- The attendee's views of joined events, and views that read one row and format
  it (findOne, isJoined, what a ban hides): they change nothing.
- Revenue in the views, and `include` of paginate: columns added to the answer.
  aggregateAnalytics sums the events' cost, not the payments; with the sum left
  out, nothing is said about it.
- Profiles: updates of columns that no modelled guard reads. The users' own
  PATCH and DELETE pass the whole user as the id, which Prisma refuses.
- Images, S3, the response interceptor, base classes that nothing extends, the
  empty Esewa service, configuration and start-up: I/O or layout.
- Email templates: layout, but for the lifetimes they promise.
- The listener of organizer.registered is provided by no module, and three
  queues (organizer-welcome-emails, remove-reset-token,
  organizer-password-changed-emails) have no worker: what is queued there stays.

## 6. Plan

What was built, in this order: Enrollment with SeatLedger and their proofs;
Certificates with CertificateLedger, OrganizerVerification, UserAccounts,
Conversations and PagedWalk;
OrganizerAccess and EventBoard; the proofs of every component.
What a continuation would take up:

1. A composition of Enrollment's seats with Conversations' listeners, so that
   the joiners are those that Enrollment seats; and of OrganizerVerification's
   members with OrganizerAccess, so that an organizer whose member was refused
   provably has nobody who can log in.
2. The revenue of the analytics, against the payments of Enrollment.
