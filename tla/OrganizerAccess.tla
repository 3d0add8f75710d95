---------------------------- MODULE OrganizerAccess ----------------------------
(***************************************************************************)
(* Members of organizers logging in, and what their sessions may do: login  *)
(* and app-login, reset password, the JWT guard and the routes of the team  *)
(* behind it. A handler's arrival and its first read are one action: before *)
(* the read it knows only what the request says.                            *)
(*                                                                          *)
(* A token is the member's row as it was when the token was signed. It      *)
(* cannot be taken back: logout clears a cookie and expiry only makes a     *)
(* client stop using it, so tokens stay in the model. Organizers are        *)
(* registered and never removed; how members get verified is modelled in    *)
(* OrganizerVerification.                                                   *)
(***************************************************************************)
EXTENDS Naturals, FiniteSets

CONSTANTS
    Ids,          \* pool of team_members ids (bound)
    Emails, Orgs, Passwords,
    Requests,     \* slots for handlers in flight
    MaxTokens,    \* bound on the tokens signed
    None

ASSUME TokensAreNatural == MaxTokens \in Nat
ASSUME NoneIsNoMember == None \notin Ids \cup Emails \cup Orgs \cup Passwords

VARIABLES
    member,     \* team_members
    asked,      \* history: the passwords asked for each row
    signed,     \* payloads of the access tokens
    req         \* handlers in flight

vars == <<member, asked, signed, req>>

\* What the password column holds: a hash of a text, or the text.
Column == [hashed : BOOLEAN, text : Passwords]
Hash(p) == [hashed |-> TRUE, text |-> p]
Text(p) == [hashed |-> FALSE, text |-> p]

MemberRow == [state : {"unused", "live", "deleted"}, email : Emails \cup {None},
              org : Orgs \cup {None}, password : Column \cup {None},
              verified : BOOLEAN]
Payload == [id : Ids, email : Emails, org : Orgs]
Handler == [pc : {"idle", "verifyHash", "sign", "setPassword", "handle"},
            id : Ids \cup {None}, email : Emails \cup {None},
            org : Orgs \cup {None}, text : Passwords \cup {None},
            column : Column \cup {None}]

TypeOK ==
    /\ member \in [Ids -> MemberRow]
    /\ asked \in [Ids -> SUBSET Passwords]
    /\ signed \subseteq Payload
    /\ req \in [Requests -> Handler]

UnusedRow == [state |-> "unused", email |-> None, org |-> None,
              password |-> None, verified |-> FALSE]
IdleHandler == [pc |-> "idle", id |-> None, email |-> None, org |-> None,
                text |-> None, column |-> None]

Live(i) == member[i].state = "live"
RowsOf(e) == {i \in Ids : Live(i) /\ member[i].email = e}
RowOf(e, o, c, v) == [state |-> "live", email |-> e, org |-> o,
                         password |-> c, verified |-> v]

\* A registered and verified first member, as OrganizerVerification leaves it.
Init ==
    \E i \in Ids, e \in Emails, o \in Orgs, p \in Passwords :
        /\ member = [j \in Ids |-> IF j = i THEN RowOf(e, o, Hash(p), TRUE)
                                            ELSE UnusedRow]
        /\ asked = [j \in Ids |-> IF j = i THEN {p} ELSE {}]
        /\ signed = {}
        /\ req = [r \in Requests |-> IdleHandler]

At(r, pc) == req[r].pc = pc
Answer(r) == req' = [req EXCEPT ![r] = IdleHandler]

-----------------------------------------------------------------------------
(* POST organizer/auth/login and app-login *)

MemberFound(r, i, p) ==
    req' = [req EXCEPT ![r] = [IdleHandler EXCEPT
               !.pc = "verifyHash", !.id = i, !.email = member[i].email,
               !.org = member[i].org, !.text = p, !.column = member[i].password]]

\* Mutant: whether the member is verified is not asked.
LoginUnverified(r, i, p) ==
    /\ At(r, "idle") /\ Live(i)
    /\ MemberFound(r, i, p)
    /\ UNCHANGED <<member, asked, signed>>

\* findUnique by address and organizer. Only a login that may still get tokens is followed: without
\* a row, or with one that is not verified when it is read, it ends in an error
\* whatever the hash says.
Login(r, i, p) ==
    /\ At(r, "idle") /\ Live(i) /\ member[i].verified
    /\ MemberFound(r, i, p)
    /\ UNCHANGED <<member, asked, signed>>

\* app-login finds the organizer by its subdomain first.
AppLogin(r, o, i, p) ==
    /\ member[i].org = o
    /\ Login(r, i, p)

\* argon2 compares with the column that was read, and throws when that holds
\* no hash.
VerifyHash(r) ==
    /\ At(r, "verifyHash")
    /\ IF req[r].column = Hash(req[r].text)
       THEN req' = [req EXCEPT ![r].pc = "sign", ![r].column = None]
       ELSE Answer(r)
    /\ UNCHANGED <<member, asked, signed>>

SignTokens(r) ==
    /\ At(r, "sign")
    /\ signed' = signed \cup
          {[id |-> req[r].id, email |-> req[r].email, org |-> req[r].org]}
    /\ Cardinality(signed') <= MaxTokens
    /\ Answer(r)
    /\ UNCHANGED <<member, asked>>

-----------------------------------------------------------------------------
(* POST organizer/auth/reset-password *)

\* The row is read by its address; without one, 'Team member not found'.
ResetPassword(r, i, p) ==
    /\ At(r, "idle") /\ Live(i)
    /\ req' = [req EXCEPT ![r] = [IdleHandler EXCEPT
                  !.pc = "setPassword", !.id = i, !.email = member[i].email,
                  !.text = p]]
    /\ asked' = [asked EXCEPT ![i] = @ \cup {p}]
    /\ UNCHANGED <<member, signed>>

\* Mutant: the row is found by its address once more.
SetPasswordByEmail(r) ==
    /\ At(r, "setPassword")
    /\ \/ RowsOf(req[r].email) = {} /\ Answer(r) /\ UNCHANGED member
       \/ \E i \in RowsOf(req[r].email) :
             /\ member' = [member EXCEPT ![i].password = Hash(req[r].text)]
             /\ Answer(r)
    /\ UNCHANGED <<asked, signed>>

\* The new password is hashed and the row updated by the id that was read: an
\* error when the member has been removed. The two jobs queued at the end are
\* for queues without a worker.
SetPassword(r) ==
    /\ At(r, "setPassword")
    /\ LET i == req[r].id
       IN  member' = IF Live(i)
                     THEN [member EXCEPT ![i].password = Hash(req[r].text)]
                     ELSE member
    /\ Answer(r)
    /\ UNCHANGED <<asked, signed>>

-----------------------------------------------------------------------------
(* OrganizerJwtAuthGuard, and the routes behind it *)

\* The guard lets no request past without a token, which only a login gives.
Presents(r, s) == At(r, "idle") /\ s \in signed

AdmitAs(r, i, o) ==
    req' = [req EXCEPT ![r] = [IdleHandler EXCEPT
               !.pc = "handle", !.id = i, !.org = o]]

\* Mutant: the organizer is taken from the payload.
AuthenticatePayload(r, s) ==
    /\ Presents(r, s) /\ Live(s.id)
    /\ AdmitAs(r, s.id, s.org)
    /\ UNCHANGED <<member, asked, signed>>

\* JwtStrategy.validate reads the row of the token's id, and the handler works
\* with that row; UnauthorizedException when it is gone.
Authenticate(r, s) ==
    /\ Presents(r, s) /\ Live(s.id)
    /\ AdmitAs(r, s.id, member[s.id].org)
    /\ UNCHANGED <<member, asked, signed>>

\* GET session reads the row once more and answers it, or null. The routes that
\* work for req[r].org, such as creating events, are modelled elsewhere.
GetSession(r) ==
    /\ At(r, "handle")
    /\ Answer(r)
    /\ UNCHANGED <<member, asked, signed>>

\* POST organizer/team-member: the hash, then the insert. The address is unique.
AddMember(r, i, e, o, p) ==
    /\ At(r, "handle")
    /\ RowsOf(e) = {} /\ member[i].state = "unused"
    /\ member' = [member EXCEPT ![i] = RowOf(e, o, Hash(p), FALSE)]
    /\ asked' = [asked EXCEPT ![i] = {p}]
    /\ Answer(r)
    /\ UNCHANGED signed

\* PUT organizer/team-member/:id: all four columns of the body as they are, the
\* password among them; verifiedAt stays.
UpdateMember(r, i, e, o, p) ==
    /\ At(r, "handle")
    /\ Live(i) /\ RowsOf(e) \subseteq {i}
    /\ member' = [member EXCEPT ![i] = RowOf(e, o, Text(p), @.verified)]
    /\ asked' = [asked EXCEPT ![i] = @ \cup {p}]
    /\ Answer(r)
    /\ UNCHANGED signed

\* DELETE organizer/team-member/:id.
RemoveMember(r, i) ==
    /\ At(r, "handle") /\ Live(i)
    /\ member' = [member EXCEPT ![i].state = "deleted"]
    /\ Answer(r)
    /\ UNCHANGED <<asked, signed>>

\* The link of OrganizerVerification: the update is by address.
VerifyMember(i) ==
    /\ Live(i)
    /\ member' = [member EXCEPT ![i].verified = TRUE]
    /\ UNCHANGED <<asked, signed, req>>

\* An awaited call throws (signing among them: tokens.generate swallows it, and
\* the answer has no tokens), or the process dies, one Fail per handler. A
\* refused insert, update or delete leaves the same state.
Fail(r) ==
    /\ ~At(r, "idle")
    /\ Answer(r)
    /\ UNCHANGED <<member, asked, signed>>

-----------------------------------------------------------------------------

Arrival ==
    \E r \in Requests :
        \/ \E i \in Ids, p \in Passwords :
              \/ Login(r, i, p) \/ ResetPassword(r, i, p)
              \/ \E o \in Orgs : AppLogin(r, o, i, p)
        \/ \E s \in signed : Authenticate(r, s)

HandlerStep(r) ==
    VerifyHash(r) \/ SignTokens(r) \/ SetPassword(r) \/ GetSession(r)

Team(r) ==
    \E i \in Ids :
        \/ RemoveMember(r, i)
        \/ \E e \in Emails, o \in Orgs, p \in Passwords :
              AddMember(r, i, e, o, p) \/ UpdateMember(r, i, e, o, p)

Next ==
    \/ Arrival
    \/ \E r \in Requests : HandlerStep(r) \/ Team(r) \/ Fail(r)
    \/ \E i \in Ids : VerifyMember(i)

Spec == Init /\ [][Next]_vars

-----------------------------------------------------------------------------
(* What must hold *)

\* A row's password was asked for that row: by its creation, by an update, or by
\* a reset that read this very row. A reset that is overtaken by the removal of
\* the member never reaches the one added under the same address later.
PasswordWasAsked ==
    \A i \in Ids : Live(i) => member[i].password.text \in asked[i]

\* Whoever is about to get tokens gave a password once asked for the row, and
\* the row is a verified member's, however the reads of the login lie between
\* resets, updates and removals.
LoginsEarned ==
    \A r \in Requests :
        At(r, "sign") =>
            /\ req[r].text \in asked[req[r].id]
            /\ member[req[r].id].verified

\* Whoever passes the guard is the member who logged in, as that member is now:
\* not one who got the address since, not one who was removed, and not for an
\* organizer the member has left, though the token still says so.
ActsAsItself ==
    [][\A r \in Requests :
          ~At(r, "handle") /\ At(r, "handle")' =>
              \E s \in signed : /\ s.id = req'[r].id /\ Live(s.id)
                                /\ req'[r].org = member[s.id].org]_vars

\* What the proofs need besides: rows in use are filled in, and a handler's row
\* exists and was asked for its password.
RowsKnown ==
    \A i \in Ids :
        Live(i) => /\ member[i].email \in Emails /\ member[i].org \in Orgs
                   /\ member[i].password \in Column

Knows(h) ==
    /\ h.pc # "idle" => h.id \in Ids /\ member[h.id].state # "unused"
    /\ h.pc \in {"verifyHash", "sign"} =>
          h.email \in Emails /\ h.org \in Orgs /\ member[h.id].verified
    /\ h.pc = "verifyHash" =>
          h.column \in Column /\ h.column.text \in asked[h.id]
    /\ h.pc \in {"sign", "setPassword"} => h.text \in asked[h.id]

AccessInv ==
    TypeOK /\ RowsKnown /\ PasswordWasAsked /\ \A r \in Requests : Knows(req[r])
================================================================================
