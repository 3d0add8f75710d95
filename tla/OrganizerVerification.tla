------------------------ MODULE OrganizerVerification ------------------------
(***************************************************************************)
(* Registering an organizer and verifying its members' email addresses: the *)
(* register, resend and verify-email routes, the verification_tokens table, *)
(* the queue of verification mails and its consumer.                        *)
(*                                                                          *)
(* A member is named by its email address. The code in a link is a JWT of   *)
(* the address; verifyEmail compares nothing else with the row, so a link   *)
(* is any code that was signed for the address. OrganizerRegisteredListener *)
(* is a provider of no module: 'organizer.registered' reaches nobody.       *)
(***************************************************************************)
EXTENDS Naturals, FiniteSets

CONSTANTS
    Orgs,       \* organizers that may register (subdomain, email, phone)
    Members,    \* email addresses of team members
    Links,      \* pool of verification mails (bound)
    Requests,   \* slots for handlers in flight
    RowTTL,     \* 1 hour: life of a verification_tokens row
    LinkTTL,    \* JWT_ACCESS_TOKEN_EXPIRES_IN: life of a code
    MaxTime,    \* bound on the clock
    MaxRows,    \* bound on the token rows inserted for an address
    None

ASSUME TimesAreNatural == RowTTL \in Nat /\ LinkTTL \in Nat
                              /\ MaxTime \in Nat /\ MaxRows \in Nat
ASSUME NoneIsNoName == None \notin Orgs \cup Members \cup Links
ASSUME FewRequests == IsFiniteSet(Requests)

VARIABLES
    organizer,  \* the organizers registered
    member,     \* team_members, by email
    token,      \* verification_tokens, by email
    inserted,   \* history: how many rows were inserted for each email
    link,       \* the verification mails, from queue to inbox
    welcome,    \* jobs in organizer-welcome-emails, by email
    clock,
    req         \* handlers in flight

vars == <<organizer, member, token, inserted, link, welcome, clock, req>>

\* had: history, the addresses the row has had.
MemberRow == [state : {"absent", "unverified", "verified"},
              org : Orgs \cup {None}, had : SUBSET Members]
TokenRow == [exists : BOOLEAN, expiresAt : Nat]
LinkMail == [state : {"unused", "queued", "delivered", "lost"},
             member : Members \cup {None}, signedAt : Nat]

RegisterSteps == {"createOrganizer", "createMember"}
MailSteps == {"readMember", "upsertToken", "queueMail"}
VerifySteps == {"readToken", "checkMember", "setVerified", "deleteToken",
                "queueWelcome"}
Handler == [pc : {"idle"} \cup RegisterSteps \cup MailSteps \cup VerifySteps,
            org : Orgs \cup {None}, member : Members \cup {None},
            link : Links \cup {None}, signedAt : Nat]

TypeOK ==
    /\ organizer \subseteq Orgs
    /\ member \in [Members -> MemberRow]
    /\ token \in [Members -> TokenRow]
    /\ inserted \in [Members -> Nat]
    /\ link \in [Links -> LinkMail]
    /\ welcome \in [Members -> Nat]
    /\ clock \in 0..MaxTime
    /\ req \in [Requests -> Handler]

AbsentRow == [state |-> "absent", org |-> None, had |-> {}]
NewRow(m, o) == [state |-> "unverified", org |-> o, had |-> {m}]
IdleHandler == [pc |-> "idle", org |-> None, member |-> None, link |-> None,
                signedAt |-> 0]

Init ==
    /\ organizer = {}
    /\ member = [m \in Members |-> AbsentRow]
    /\ token = [m \in Members |-> [exists |-> FALSE, expiresAt |-> 0]]
    /\ inserted = [m \in Members |-> 0]
    /\ link = [l \in Links |->
                  [state |-> "unused", member |-> None, signedAt |-> 0]]
    /\ welcome = [m \in Members |-> 0]
    /\ clock = 0
    /\ req = [r \in Requests |-> IdleHandler]

At(r, pc) == req[r].pc = pc
Answer(r) == req' = [req EXCEPT ![r] = IdleHandler]
Goto(r, pc) == req' = [req EXCEPT ![r].pc = pc]

\* Bound: a mail is asked for only while the pool holds one for every handler
\* that may still queue one, and few enough token rows were inserted.
MailRoom(m) ==
    /\ inserted[m] < MaxRows
    /\ Cardinality({r \in Requests : req[r].pc \in RegisterSteps \cup MailSteps})
           < Cardinality({l \in Links : link[l].state = "unused"})

-----------------------------------------------------------------------------
(* POST organizer/auth/register *)

Register(r, o, m) ==
    /\ At(r, "idle") /\ MailRoom(m)
    /\ req' = [req EXCEPT ![r] = [IdleHandler EXCEPT
                  !.pc = "createOrganizer", !.org = o, !.member = m]]
    /\ UNCHANGED <<organizer, member, token, inserted, link, welcome, clock>>

CreateOrganizer(r) ==
    /\ At(r, "createOrganizer")
    /\ req[r].org \notin organizer
    /\ organizer' = organizer \cup {req[r].org}
    /\ Goto(r, "createMember")
    /\ UNCHANGED <<member, token, inserted, link, welcome, clock>>

\* 'Organizer already exists', or its subdomain or phone.
RefuseOrganizer(r) ==
    /\ At(r, "createOrganizer")
    /\ req[r].org \in organizer
    /\ Answer(r)
    /\ UNCHANGED <<organizer, member, token, inserted, link, welcome, clock>>

CreateMember(r) ==
    /\ At(r, "createMember")
    /\ LET m == req[r].member
       IN  /\ member[m].state = "absent"
           /\ member' = [member EXCEPT ![m] = NewRow(m, req[r].org)]
    /\ Goto(r, "readMember")
    /\ UNCHANGED <<organizer, token, inserted, link, welcome, clock>>

\* 'Team member already exists': the organizer's row stays.
RefuseMember(r) ==
    /\ At(r, "createMember")
    /\ member[req[r].member].state # "absent"
    /\ Answer(r)
    /\ UNCHANGED <<organizer, member, token, inserted, link, welcome, clock>>

-----------------------------------------------------------------------------
(* sendMail: the end of register, and resend-verification-email *)

ResendVerificationEmail(r, m) ==
    /\ At(r, "idle") /\ MailRoom(m)
    /\ req' = [req EXCEPT ![r] = [IdleHandler EXCEPT
                  !.pc = "readMember", !.member = m]]
    /\ UNCHANGED <<organizer, member, token, inserted, link, welcome, clock>>

\* The code is signed before the row is read; nothing is sent to an unknown or
\* a verified address.
ReadMember(r) ==
    /\ At(r, "readMember")
    /\ IF member[req[r].member].state = "unverified"
       THEN req' = [req EXCEPT ![r].pc = "upsertToken", ![r].signedAt = clock]
       ELSE Answer(r)
    /\ UNCHANGED <<organizer, member, token, inserted, link, welcome, clock>>

\* The upsert's update branch leaves expiresAt alone.
UpsertToken(r) ==
    /\ At(r, "upsertToken")
    /\ LET m == req[r].member
       IN  \/ token[m].exists /\ UNCHANGED <<token, inserted>>
           \/ /\ ~token[m].exists
              /\ token' = [token EXCEPT ![m] =
                    [exists |-> TRUE, expiresAt |-> req[r].signedAt + RowTTL]]
              /\ inserted' = [inserted EXCEPT ![m] = @ + 1]
    /\ Goto(r, "queueMail")
    /\ UNCHANGED <<organizer, member, link, welcome, clock>>

QueueMail(r) ==
    /\ At(r, "queueMail")
    /\ \E l \in Links :
          /\ link[l].state = "unused"
          /\ link' = [link EXCEPT ![l] =
                [state |-> "queued", member |-> req[r].member,
                 signedAt |-> req[r].signedAt]]
    /\ Answer(r)
    /\ UNCHANGED <<organizer, member, token, inserted, welcome, clock>>

\* The consumer: MailService.send returns whether the server took the mail or
\* not, and the consumer swallows what else is thrown.
DeliverMail(l) ==
    /\ link[l].state = "queued"
    /\ \E outcome \in {"delivered", "lost"} :
          link' = [link EXCEPT ![l].state = outcome]
    /\ UNCHANGED <<organizer, member, token, inserted, welcome, clock, req>>

-----------------------------------------------------------------------------
(* GET organizer/auth/verify-email *)

VerifyEmail(r, l) ==
    /\ At(r, "idle")
    /\ link[l].state = "delivered"
    /\ req' = [req EXCEPT ![r] = [IdleHandler EXCEPT
                  !.pc = "readToken", !.member = link[l].member, !.link = l]]
    /\ UNCHANGED <<organizer, member, token, inserted, link, welcome, clock>>

RowUsable(m) == token[m].exists /\ ~(token[m].expiresAt < clock)
LinkUsable(l) == ~(link[l].signedAt + LinkTTL < clock)

ReadToken(r) ==
    /\ At(r, "readToken")
    /\ RowUsable(req[r].member) /\ LinkUsable(req[r].link)
    /\ Goto(r, "checkMember")
    /\ UNCHANGED <<organizer, member, token, inserted, link, welcome, clock>>

\* 'Verification token not found', a JWT past its exp, 'token expired'.
RejectToken(r) ==
    /\ At(r, "readToken")
    /\ ~(RowUsable(req[r].member) /\ LinkUsable(req[r].link))
    /\ Answer(r)
    /\ UNCHANGED <<organizer, member, token, inserted, link, welcome, clock>>

CheckMember(r) ==
    /\ At(r, "checkMember")
    /\ IF member[req[r].member].state = "unverified"
       THEN Goto(r, "setVerified") ELSE Answer(r)
    /\ UNCHANGED <<organizer, member, token, inserted, link, welcome, clock>>

\* Mutant: the update is by organizer: it verifies the whole team.
SetTeamVerified(r) ==
    /\ At(r, "setVerified")
    /\ LET org == member[req[r].member].org
       IN  member' = [m \in Members |->
                         IF org # None /\ member[m].org = org
                         THEN [member[m] EXCEPT !.state = "verified"]
                         ELSE member[m]]
    /\ Goto(r, "deleteToken")
    /\ UNCHANGED <<organizer, token, inserted, link, welcome, clock>>

\* The update is by email: it fails only when the member is gone.
SetVerified(r) ==
    /\ At(r, "setVerified")
    /\ \/ /\ member[req[r].member].state # "absent"
          /\ member' = [member EXCEPT ![req[r].member].state = "verified"]
          /\ Goto(r, "deleteToken")
       \/ /\ member[req[r].member].state = "absent"
          /\ Answer(r) /\ UNCHANGED member
    /\ UNCHANGED <<organizer, token, inserted, link, welcome, clock>>

\* Mutant: deleteMany, which does not mind a missing row.
DeleteManyTokens(r) ==
    /\ At(r, "deleteToken")
    /\ token' = [token EXCEPT ![req[r].member].exists = FALSE]
    /\ Goto(r, "queueWelcome")
    /\ UNCHANGED <<organizer, member, inserted, link, welcome, clock>>

\* Deleting a row that another request deleted throws: no welcome mail.
DeleteToken(r) ==
    /\ At(r, "deleteToken")
    /\ token' = [token EXCEPT ![req[r].member].exists = FALSE]
    /\ IF token[req[r].member].exists THEN Goto(r, "queueWelcome")
                                      ELSE Answer(r)
    /\ UNCHANGED <<organizer, member, inserted, link, welcome, clock>>

QueueWelcome(r) ==
    /\ At(r, "queueWelcome")
    /\ welcome' = [welcome EXCEPT ![req[r].member] = @ + 1]
    /\ Answer(r)
    /\ UNCHANGED <<organizer, member, token, inserted, link, clock>>

\* An awaited call throws, or the process dies (one Fail per handler).
Fail(r) ==
    /\ ~At(r, "idle")
    /\ Answer(r)
    /\ UNCHANGED <<organizer, member, token, inserted, link, welcome, clock>>

-----------------------------------------------------------------------------
(* The organizer's team, and the clock *)

\* POST organizer/team-member: no mail is sent.
AddMember(m, o) ==
    /\ o \in organizer /\ member[m].state = "absent"
    /\ member' = [member EXCEPT ![m] = NewRow(m, o)]
    /\ UNCHANGED <<organizer, token, inserted, link, welcome, clock, req>>

\* PUT organizer/team-member/:id: the body's address n and organizer o replace
\* the row's, or the unique address refuses. verifiedAt stays, as the token does.
UpdateMember(m, n, o) ==
    /\ o \in organizer /\ member[m].state # "absent"
    /\ n = m \/ member[n].state = "absent"
    /\ member' = [member EXCEPT ![m] = AbsentRow,
                     ![n] = [member[m] EXCEPT !.org = o, !.had = @ \cup {n}]]
    /\ UNCHANGED <<organizer, token, inserted, link, welcome, clock, req>>

\* DELETE organizer/team-member/:id: the token row has no foreign key and stays.
RemoveMember(m) ==
    /\ member[m].state # "absent"
    /\ member' = [member EXCEPT ![m] = AbsentRow]
    /\ UNCHANGED <<organizer, token, inserted, link, welcome, clock, req>>

\* A tick is a good part of an hour: handlers take no time.
Tick ==
    /\ clock < MaxTime
    /\ \A r \in Requests : At(r, "idle")
    /\ clock' = clock + 1
    /\ UNCHANGED <<organizer, member, token, inserted, link, welcome, req>>

-----------------------------------------------------------------------------

HandlerStep(r) ==
    \/ CreateOrganizer(r) \/ RefuseOrganizer(r)
    \/ CreateMember(r) \/ RefuseMember(r)
    \/ ReadMember(r) \/ UpsertToken(r) \/ QueueMail(r)
    \/ ReadToken(r) \/ RejectToken(r) \/ CheckMember(r) \/ SetVerified(r)
    \/ DeleteToken(r) \/ QueueWelcome(r)

Arrival ==
    \E r \in Requests :
        \/ \E m \in Members :
              \/ \E o \in Orgs : Register(r, o, m)
              \/ ResendVerificationEmail(r, m)
        \/ \E l \in Links : VerifyEmail(r, l)

Team ==
    \E m \in Members :
        \/ RemoveMember(m)
        \/ \E o \in Orgs :
              AddMember(m, o) \/ \E n \in Members : UpdateMember(m, n, o)

Next ==
    \/ Arrival
    \/ \E r \in Requests : HandlerStep(r) \/ Fail(r)
    \/ \E l \in Links : DeliverMail(l)
    \/ Team
    \/ Tick

Spec == Init /\ [][Next]_vars

-----------------------------------------------------------------------------
(* What must hold *)

\* As far as requests follow mailed links: one was received at an address that
\* the verified member's row has had, whoever registered, removed, added, moved
\* or verified members in between. It need not be the row's address of now.
VerifiedByLink ==
    \A m \in Members :
        member[m].state = "verified" =>
            \E l \in Links :
                link[l].state = "delivered" /\ link[l].member \in member[m].had

\* Overlapping verifications welcome a member once: each welcome takes one
\* token row away, although the row is read four calls before it is deleted.
WelcomePerToken ==
    \A m \in Members : welcome[m] <= inserted[m]

\* 'This link will expire in 1 hour.': a link is refused as expired only when
\* it is older than that.
LinkLivesAnHour ==
    [][\A r \in Requests :
          RejectToken(r) /\ token[req[r].member].exists =>
              link[req[r].link].signedAt + RowTTL < clock]_vars

-----------------------------------------------------------------------------
(* The inductive invariant behind them *)

\* A row has had the address it is at, and every mail has its address.
RowsKnown ==
    /\ \A m \in Members : member[m].state # "absent" => m \in member[m].had
    /\ \A l \in Links : link[l].state # "unused" => link[l].member \in Members

\* A handler that verifies follows a link that arrived at the address.
Knows(h) ==
    /\ h.pc # "idle" => h.member \in Members
    /\ h.pc \in RegisterSteps => h.org \in Orgs
    /\ h.pc \in VerifySteps =>
          /\ h.link \in Links /\ link[h.link].state = "delivered"
          /\ link[h.link].member = h.member

\* What became of the token rows of an address: each is there, or was deleted
\* by a handler that is about to welcome or has, or is lost.
Welcoming(m) == {r \in Requests : req[r].member = m /\ At(r, "queueWelcome")}
TokenCount(m) == IF token[m].exists THEN 1 ELSE 0
TokensSpent ==
    \A m \in Members :
        welcome[m] + Cardinality(Welcoming(m)) + TokenCount(m) <= inserted[m]

\* The conjunction that every step preserves.
VerificationInv ==
    /\ TypeOK
    /\ RowsKnown /\ TokensSpent /\ VerifiedByLink
    /\ \A r \in Requests : Knows(req[r])
=============================================================================
