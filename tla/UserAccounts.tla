----------------------------- MODULE UserAccounts -----------------------------
(***************************************************************************)
(* The accounts of attendees: register, log in, verify the address, reset   *)
(* the password, and the mails these send.                                  *)
(*                                                                          *)
(* An account is named by its email address. Links carry JWTs that no table *)
(* records: a link is usable, any number of times, until its JWT expires.   *)
(* Accounts are never deleted and profiles never updated: both routes pass  *)
(* the whole user as the id, which Prisma refuses.                          *)
(***************************************************************************)
EXTENDS Naturals, FiniteSets

CONSTANTS
    Emails, Passwords,
    OneLetter,   \* the addresses with a single letter before the @
    Links,       \* pool of verification and reset mails (bound)
    Requests,    \* slots for handlers in flight
    VerifyTTL,   \* JWT_VERIFICATION_TOKEN_EXPIRES_IN
    ResetTTL,    \* JWT_RESET_PASSWORD_TOKEN_EXPIRES_IN
    MaxTime,     \* bound on the clock
    MaxNotices,  \* bound on the password-changed jobs of an address
    None

ASSUME LifetimesAreNatural ==
    {VerifyTTL, ResetTTL, MaxTime, MaxNotices} \subseteq Nat
ASSUME FewRequests == IsFiniteSet(Requests)
ASSUME OneLetterAreEmails == OneLetter \subseteq Emails
ASSUME NoneIsNoValue == None \notin Emails \cup Passwords \cup Links

VARIABLES
    account,     \* the users table, by email (unique)
    known,       \* history: the passwords each account ever had
    registered,  \* history: how many registrations inserted each account
    sessions,    \* history: <<email, password>> pairs that were given tokens
    link,        \* the mails with a link, from queue to inbox
    welcome,     \* history: the jobs added to user-welcome-emails, by email
    notice,      \* the jobs that wait in that queue and in
                 \* user-password-changed-emails, by email
    clock,
    req          \* handlers in flight

vars == <<account, known, registered, sessions, link, welcome, notice, clock,
          req>>
history == <<known, registered, sessions>>

Account == [state : {"absent", "unverified", "verified"},
            password : Passwords \cup {None}]
LinkMail == [state : {"unused", "queued", "delivered", "lost", "failed"},
             kind : {"verify", "reset", "none"}, email : Emails \cup {None},
             signedAt : Nat]
Steps == {"findExisting", "insertUser", "queueVerification",      \* register
          "findUser", "checkPassword",                            \* login
          "findForReset", "queueReset",                           \* forgot
          "readReset", "updatePassword", "queueChanged",          \* reset
          "findForResend",                                        \* resend
          "readVerify", "setVerified", "queueWelcome"}            \* verify
Handler == [pc : {"idle"} \cup Steps, email : Emails \cup {None},
            password : Passwords \cup {None},   \* as sent by the client
            saw : Passwords \cup {None},        \* the row's hash as read
            link : Links \cup {None}, signedAt : Nat]

TypeOK ==
    /\ account \in [Emails -> Account]
    /\ known \in [Emails -> SUBSET Passwords]
    /\ registered \in [Emails -> Nat]
    /\ sessions \subseteq Emails \X Passwords
    /\ link \in [Links -> LinkMail]
    /\ welcome \in [Emails -> Nat]
    /\ notice \in [Emails -> [welcome : Nat, changed : Nat]]
    /\ clock \in 0..MaxTime
    /\ req \in [Requests -> Handler]

IdleHandler == [pc |-> "idle", email |-> None, password |-> None, saw |-> None,
                link |-> None, signedAt |-> 0]

Init ==
    /\ account = [e \in Emails |-> [state |-> "absent", password |-> None]]
    /\ known = [e \in Emails |-> {}]
    /\ registered = [e \in Emails |-> 0]
    /\ sessions = {}
    /\ link = [l \in Links |-> [state |-> "unused", kind |-> "none",
                                email |-> None, signedAt |-> 0]]
    /\ welcome = [e \in Emails |-> 0]
    /\ notice = [e \in Emails |-> [welcome |-> 0, changed |-> 0]]
    /\ clock = 0
    /\ req = [r \in Requests |-> IdleHandler]

At(r, pc) == req[r].pc = pc
Answer(r) == req' = [req EXCEPT ![r] = IdleHandler]
Goto(r, pc) == req' = [req EXCEPT ![r].pc = pc]
Exists(e) == account[e].state # "absent"

MailingSteps == {"findExisting", "insertUser", "queueVerification",
                 "findForReset", "queueReset", "findForResend"}

ResettingSteps == {"readReset", "updatePassword", "queueChanged"}

\* Bound: a request that may queue a mail starts only while the pool holds one
\* for it.
MailRoom ==
    Cardinality({r \in Requests : req[r].pc \in MailingSteps})
        < Cardinality({l \in Links : link[l].state = "unused"})

\* A request arrives: its body, and the handler's first awaited call.
Arrive(r, pc, e, pw, l) ==
    /\ At(r, "idle")
    /\ req' = [req EXCEPT ![r] = [IdleHandler EXCEPT
                  !.pc = pc, !.email = e, !.password = pw, !.link = l]]
    /\ UNCHANGED <<account, history, link, welcome, notice, clock>>

\* The tokens of an address, given for a password.
GenerateTokens(e, pw) == sessions \cup {<<e, pw>>}

\* queue.add of a mail with a link.
Queue(r, kind) ==
    \E l \in Links :
        /\ link[l].state = "unused"
        /\ link' = [link EXCEPT ![l] =
              [state |-> "queued", kind |-> kind, email |-> req[r].email,
               signedAt |-> req[r].signedAt]]

-----------------------------------------------------------------------------
(* register *)

Register(r, e, pw) == MailRoom /\ Arrive(r, "findExisting", e, pw, None)

FindExisting(r) ==
    /\ At(r, "findExisting")
    /\ IF Exists(req[r].email) THEN Answer(r) ELSE Goto(r, "insertUser")
    /\ UNCHANGED <<account, history, link, welcome, notice, clock>>

\* Mutant: an upsert, so that the check above is all that there is.
UpsertUser(r) ==
    /\ At(r, "insertUser")
    /\ LET e == req[r].email
           pw == req[r].password
       IN  /\ account' = [account EXCEPT ![e] =
                             [state |-> "unverified", password |-> pw]]
           /\ known' = [known EXCEPT ![e] = @ \cup {pw}]
           /\ registered' = [registered EXCEPT ![e] = @ + 1]
           /\ sessions' = GenerateTokens(e, pw)
           /\ req' = [req EXCEPT ![r].pc = "queueVerification",
                                 ![r].signedAt = clock]
    /\ UNCHANGED <<link, welcome, notice, clock>>

\* Mutant: the unique key's error is swallowed and the tokens are signed.
InsertUserOrGoOn(r) ==
    /\ At(r, "insertUser")
    /\ LET e == req[r].email
           pw == req[r].password
       IN  /\ sessions' = GenerateTokens(e, pw)
           /\ req' = [req EXCEPT ![r].pc = "queueVerification",
                                 ![r].signedAt = clock]
           /\ IF Exists(e) THEN UNCHANGED <<account, known, registered>>
              ELSE /\ account' = [account EXCEPT ![e] =
                                     [state |-> "unverified", password |-> pw]]
                   /\ known' = [known EXCEPT ![e] = @ \cup {pw}]
                   /\ registered' = [registered EXCEPT ![e] = @ + 1]
    /\ UNCHANGED <<link, welcome, notice, clock>>

\* Mutant: whoever registers is taken to be verified.
InsertUserVerified(r) ==
    /\ At(r, "insertUser") /\ ~Exists(req[r].email)
    /\ LET e == req[r].email
           pw == req[r].password
       IN  /\ account' = [account EXCEPT ![e] =
                             [state |-> "verified", password |-> pw]]
           /\ known' = [known EXCEPT ![e] = @ \cup {pw}]
           /\ registered' = [registered EXCEPT ![e] = @ + 1]
           /\ sessions' = GenerateTokens(e, pw)
           /\ req' = [req EXCEPT ![r].pc = "queueVerification",
                                 ![r].signedAt = clock]
    /\ UNCHANGED <<link, welcome, notice, clock>>

\* The unique key decides between two registrations that both found nothing.
\* After the insert the tokens and the link are signed.
InsertUser(r) ==
    /\ At(r, "insertUser")
    /\ LET e == req[r].email
           pw == req[r].password
       IN  \/ Exists(e) /\ Answer(r) /\ UNCHANGED <<account, history>>
           \/ /\ ~Exists(e)
              /\ account' = [account EXCEPT ![e] =
                                [state |-> "unverified", password |-> pw]]
              /\ known' = [known EXCEPT ![e] = @ \cup {pw}]
              /\ registered' = [registered EXCEPT ![e] = @ + 1]
              /\ sessions' = GenerateTokens(e, pw)
              /\ req' = [req EXCEPT ![r].pc = "queueVerification",
                                    ![r].signedAt = clock]
    /\ UNCHANGED <<link, welcome, notice, clock>>

QueueVerification(r) ==
    /\ At(r, "queueVerification")
    /\ Queue(r, "verify")
    /\ Answer(r)
    /\ UNCHANGED <<account, history, welcome, notice, clock>>

-----------------------------------------------------------------------------
(* login *)

Login(r, e, pw) == Arrive(r, "findUser", e, pw, None)

FindUser(r) ==
    /\ At(r, "findUser")
    /\ IF Exists(req[r].email)
       THEN req' = [req EXCEPT ![r].pc = "checkPassword",
                               ![r].saw = account[req[r].email].password]
       ELSE Answer(r)
    /\ UNCHANGED <<account, history, link, welcome, notice, clock>>

\* argon2 compares with the hash that was read; the row is not read again.
CheckPassword(r) ==
    /\ At(r, "checkPassword")
    /\ sessions' = IF req[r].saw = req[r].password
                   THEN GenerateTokens(req[r].email, req[r].password)
                   ELSE sessions
    /\ Answer(r)
    /\ UNCHANGED <<account, known, registered, link, welcome, notice, clock>>

-----------------------------------------------------------------------------
(* forgot-password, reset-password *)

ForgotPassword(r, e) == MailRoom /\ Arrive(r, "findForReset", e, None, None)

FindForReset(r) ==
    /\ At(r, "findForReset")
    /\ IF Exists(req[r].email)
       THEN req' = [req EXCEPT ![r].pc = "queueReset", ![r].signedAt = clock]
       ELSE Answer(r)
    /\ UNCHANGED <<account, history, link, welcome, notice, clock>>

QueueReset(r) ==
    /\ At(r, "queueReset")
    /\ Queue(r, "reset")
    /\ Answer(r)
    /\ UNCHANGED <<account, history, welcome, notice, clock>>

Opened(l, kind) == link[l].state = "delivered" /\ link[l].kind = kind
Usable(l, ttl) == ~(link[l].signedAt + ttl < clock)

\* Bound: a reset starts only while its job finds room.
NoticeRoom(e) ==
    notice[e].changed
        + Cardinality({r \in Requests : /\ req[r].email = e
                                        /\ req[r].pc \in ResettingSteps})
        < MaxNotices

ResetPassword(r, l, pw) ==
    /\ Opened(l, "reset") /\ NoticeRoom(link[l].email)
    /\ Arrive(r, "readReset", link[l].email, pw, l)

\* Mutant: ignoreExpiration.
ReadAnyReset(r) ==
    /\ At(r, "readReset")
    /\ Goto(r, "updatePassword")
    /\ UNCHANGED <<account, history, link, welcome, notice, clock>>

ReadReset(r) ==
    /\ At(r, "readReset")
    /\ IF Usable(req[r].link, ResetTTL) THEN Goto(r, "updatePassword")
                                        ELSE Answer(r)
    /\ UNCHANGED <<account, history, link, welcome, notice, clock>>

UpdatePassword(r) ==
    /\ At(r, "updatePassword")
    /\ account' = [account EXCEPT ![req[r].email].password = req[r].password]
    /\ known' = [known EXCEPT ![req[r].email] = @ \cup {req[r].password}]
    /\ Goto(r, "queueChanged")
    /\ UNCHANGED <<registered, sessions, link, welcome, notice, clock>>

QueueChanged(r) ==
    /\ At(r, "queueChanged")
    /\ notice' = [notice EXCEPT ![req[r].email].changed = @ + 1]
    /\ Answer(r)
    /\ UNCHANGED <<account, history, link, welcome, clock>>

-----------------------------------------------------------------------------
(* resend-verification-email, verify-email *)

ResendVerificationEmail(r, e) ==
    MailRoom /\ Arrive(r, "findForResend", e, None, None)

\* The link was signed before the account is looked for.
FindForResend(r) ==
    /\ At(r, "findForResend")
    /\ IF account[req[r].email].state = "unverified"
       THEN req' = [req EXCEPT ![r].pc = "queueVerification",
                               ![r].signedAt = clock]
       ELSE Answer(r)
    /\ UNCHANGED <<account, history, link, welcome, notice, clock>>

VerifyEmail(r, l) ==
    Opened(l, "verify") /\ Arrive(r, "readVerify", link[l].email, None, l)

\* Mutant: whether the account is verified already is not looked at.
ReadVerifyAgain(r) ==
    /\ At(r, "readVerify")
    /\ IF Usable(req[r].link, VerifyTTL) THEN Goto(r, "setVerified")
                                         ELSE Answer(r)
    /\ UNCHANGED <<account, history, link, welcome, notice, clock>>

ReadVerify(r) ==
    /\ At(r, "readVerify")
    /\ IF /\ Usable(req[r].link, VerifyTTL)
          /\ account[req[r].email].state = "unverified"
       THEN Goto(r, "setVerified") ELSE Answer(r)
    /\ UNCHANGED <<account, history, link, welcome, notice, clock>>

SetVerified(r) ==
    /\ At(r, "setVerified")
    /\ account' = [account EXCEPT ![req[r].email].state = "verified"]
    /\ Goto(r, "queueWelcome")
    /\ UNCHANGED <<history, link, welcome, notice, clock>>

QueueWelcome(r) ==
    /\ At(r, "queueWelcome")
    /\ welcome' = [welcome EXCEPT ![req[r].email] = @ + 1]
    /\ notice' = [notice EXCEPT ![req[r].email].welcome = @ + 1]
    /\ Answer(r)
    /\ UNCHANGED <<account, history, link, clock>>

\* An awaited call throws, or the process dies (one Fail per handler).
Fail(r) ==
    /\ ~At(r, "idle")
    /\ Answer(r)
    /\ UNCHANGED <<account, history, link, welcome, notice, clock>>

-----------------------------------------------------------------------------
(* The mail workers, and the clock *)

\* MailService.send returns whether the server took the mail or not. Before
\* that, maskEmail repeats '*' length - 2 times: for a single letter it throws
\* outside the try, in each of the job's attempts, and the job fails.
Deliver(l, kind) ==
    /\ link[l].state = "queued" /\ link[l].kind = kind
    /\ \E outcome \in IF link[l].email \in OneLetter
                      THEN {"failed"} ELSE {"delivered", "lost"} :
          link' = [link EXCEPT ![l].state = outcome]
    /\ UNCHANGED <<account, history, welcome, notice, clock, req>>

\* Each kind has its queue and consumer.
DeliverVerification(l) == Deliver(l, "verify")
DeliverReset(l) == Deliver(l, "reset")

\* A welcome and a password-changed job end like those above; they carry no
\* link, so what became of them is not kept.
EndNotice(e, kind) ==
    /\ notice[e][kind] > 0
    /\ notice' = [notice EXCEPT ![e][kind] = @ - 1]
    /\ UNCHANGED <<account, history, link, welcome, clock, req>>
DeliverWelcome(e) == EndNotice(e, "welcome")
DeliverChanged(e) == EndNotice(e, "changed")

\* A tick is a good part of an hour: handlers take no time.
Tick ==
    /\ clock < MaxTime
    /\ \A r \in Requests : At(r, "idle")
    /\ clock' = clock + 1
    /\ UNCHANGED <<account, history, link, welcome, notice, req>>

-----------------------------------------------------------------------------

HandlerStep(r) ==
    \/ FindExisting(r) \/ InsertUser(r) \/ QueueVerification(r)
    \/ FindUser(r) \/ CheckPassword(r)
    \/ FindForReset(r) \/ QueueReset(r)
    \/ ReadReset(r) \/ UpdatePassword(r) \/ QueueChanged(r)
    \/ FindForResend(r) \/ ReadVerify(r) \/ SetVerified(r) \/ QueueWelcome(r)

Arrival ==
    \E r \in Requests :
        \/ \E e \in Emails :
              \/ \E pw \in Passwords : Register(r, e, pw) \/ Login(r, e, pw)
              \/ ForgotPassword(r, e) \/ ResendVerificationEmail(r, e)
        \/ \E l \in Links :
              VerifyEmail(r, l) \/ \E pw \in Passwords : ResetPassword(r, l, pw)

SmoothNext ==
    \/ Arrival
    \/ \E r \in Requests : HandlerStep(r)
    \/ \E l \in Links : DeliverVerification(l) \/ DeliverReset(l)
    \/ \E e \in Emails : DeliverWelcome(e) \/ DeliverChanged(e)
    \/ Tick

Next == SmoothNext \/ \E r \in Requests : Fail(r)

Spec == Init /\ [][Next]_vars

\* Nothing fails: Node resumes every handler; RUN_WORKERS is set, so the
\* consumers take every job.
SmoothSpec ==
    /\ Init /\ [][SmoothNext]_vars
    /\ \A r \in Requests : WF_vars(HandlerStep(r))
    /\ \A l \in Links : WF_vars(DeliverVerification(l) \/ DeliverReset(l))

-----------------------------------------------------------------------------
(* What must hold *)

\* Registrations that race for an address: one at most inserts the account,
\* though each looked for it two awaits before.
OneRegistration == \A e \in Emails : registered[e] <= 1

\* Tokens are given only for a password that was the account's: the loser of a
\* race of registrations gets none, nor does a login that another request's
\* reset overtakes unless its password was good before.
SessionsEarned == \A s \in sessions : s[2] \in known[s[1]]

\* Links are not used up, so verifications of an address may overlap and each
\* welcomes the user; but only those that overlap do.
WelcomesOverlap ==
    \A e \in Emails :
        welcome[e] + Cardinality({r \in Requests :
                        req[r].email = e /\ At(r, "queueWelcome")})
            <= Cardinality(Requests)

\* Only the holder of the address gets it verified, and only that welcomes it;
\* and 'password changed' is told only where a reset link had arrived.
LedByMail ==
    \A e \in Emails :
        /\ account[e].state = "verified" \/ notice[e].welcome > 0 =>
              \E l \in Links : Opened(l, "verify") /\ link[l].email = e
        /\ notice[e].welcome > 0 => account[e].state = "verified"
        /\ notice[e].changed > 0 =>
              \E l \in Links : Opened(l, "reset") /\ link[l].email = e

\* 'This link will expire in 24 hours.': a password is changed only within the
\* lifetime of a reset link that reached the account's address.
ResetLivesADay ==
    [][\A e \in Emails :
          Exists(e) /\ account'[e].password # account[e].password =>
              \E l \in Links : /\ Opened(l, "reset") /\ link[l].email = e
                               /\ clock <= link[l].signedAt + ResetTTL]_vars

\* 'Verification email sent': a mail that was queued is handed to the server.
MailIsHandedOver ==
    \A l \in Links :
        (link[l].state = "queued") ~> (link[l].state \in {"delivered", "lost"})

-----------------------------------------------------------------------------
(* The inductive invariant behind them *)

PasswordsKnown ==
    \A e \in Emails : Exists(e) => account[e].password \in known[e]

\* Only an insert counts, and it finds no row.
InsertsCounted == \A e \in Emails : ~Exists(e) => registered[e] = 0

\* Every mail has its address.
MailsAddressed ==
    \A l \in Links : link[l].state # "unused" => link[l].email \in Emails

\* What a handler read or was given stays true of the rows it will write.
VerifyingSteps == {"readVerify", "setVerified", "queueWelcome"}
PasswordSteps == {"findExisting", "insertUser", "findUser", "checkPassword"}
                     \cup ResettingSteps

Knows(h) ==
    /\ h.pc # "idle" => h.email \in Emails
    /\ h.pc \in PasswordSteps => h.password \in Passwords
    /\ h.pc = "checkPassword" => h.saw \in known[h.email]
    /\ h.pc \in ResettingSteps =>
          /\ h.link \in Links /\ Opened(h.link, "reset")
          /\ link[h.link].email = h.email
    /\ h.pc = "updatePassword" => Usable(h.link, ResetTTL)
    /\ h.pc \in VerifyingSteps =>
          /\ h.link \in Links /\ Opened(h.link, "verify")
          /\ link[h.link].email = h.email
    /\ h.pc = "setVerified" => Exists(h.email)
    /\ h.pc = "queueWelcome" => account[h.email].state = "verified"

\* Whoever read the account unverified is on the way to welcome the user, or has.
Welcomers(e) == {r \in Requests : /\ req[r].email = e
                                  /\ req[r].pc \in {"setVerified", "queueWelcome"}}

WelcomesCounted ==
    \A e \in Emails :
        /\ account[e].state # "verified" => welcome[e] = 0
        /\ welcome[e] + Cardinality(Welcomers(e)) <= Cardinality(Requests)

\* The conjunction that every step preserves.
AccountsInv ==
    /\ TypeOK
    /\ PasswordsKnown /\ InsertsCounted /\ MailsAddressed
    /\ OneRegistration /\ SessionsEarned /\ LedByMail
    /\ \A r \in Requests : Knows(req[r])
=============================================================================
