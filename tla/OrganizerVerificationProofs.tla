--------------------- MODULE OrganizerVerificationProofs ---------------------
(***************************************************************************)
(* The safety invariants of OrganizerVerification, for every value of the   *)
(* constants.                                                               *)
(***************************************************************************)
EXTENDS OrganizerVerification, FiniteSetTheorems, TLAPS

-----------------------------------------------------------------------------
(* Who writes what *)

\* Members are written by two handlers and by the organizer's team routes.
LEMMA WhoWritesMembers ==
    ASSUME [Next]_vars
    PROVE  \/ member' = member
           \/ \E r \in Requests : CreateMember(r) \/ SetVerified(r)
           \/ Team
<1>1. ASSUME NEW r \in Requests, HandlerStep(r) \/ Fail(r)
      PROVE  member' = member \/ CreateMember(r) \/ SetVerified(r)
  BY <1>1 DEF HandlerStep, Fail, CreateOrganizer, RefuseOrganizer, RefuseMember,
              ReadMember, UpsertToken, QueueMail, ReadToken, RejectToken,
              CheckMember, DeleteToken, QueueWelcome
<1>2. CASE Arrival
  BY <1>2 DEF Arrival, Register, ResendVerificationEmail, VerifyEmail
<1>3. CASE Tick \/ UNCHANGED vars \/ \E l \in Links : DeliverMail(l)
  BY <1>3 DEF Tick, vars, DeliverMail
<1> QED  BY <1>1, <1>2, <1>3 DEF Next

\* A link is written when its mail is queued and when the mail is delivered.
LEMMA WhoWritesLinks ==
    ASSUME [Next]_vars
    PROVE  \/ link' = link
           \/ \E r \in Requests : QueueMail(r)
           \/ \E l \in Links : DeliverMail(l)
<1>1. ASSUME NEW r \in Requests, HandlerStep(r) \/ Fail(r)
      PROVE  link' = link \/ QueueMail(r)
  BY <1>1 DEF HandlerStep, Fail, CreateOrganizer, RefuseOrganizer, CreateMember,
              RefuseMember, ReadMember, UpsertToken, ReadToken, RejectToken,
              CheckMember, SetVerified, DeleteToken, QueueWelcome
<1>2. CASE Arrival
  BY <1>2 DEF Arrival, Register, ResendVerificationEmail, VerifyEmail
<1>3. CASE Team
  BY <1>3 DEF Team, RemoveMember, AddMember, UpdateMember
<1>4. CASE Tick \/ UNCHANGED vars
  BY <1>4 DEF Tick, vars
<1> QED  BY <1>1, <1>2, <1>3, <1>4 DEF Next

\* Three handlers write the token rows and what is counted of them.
LEMMA WhoWritesTokens ==
    ASSUME [Next]_vars
    PROVE  \/ UNCHANGED <<token, inserted, welcome>>
           \/ \E r \in Requests :
                 UpsertToken(r) \/ DeleteToken(r) \/ QueueWelcome(r)
<1>1. ASSUME NEW r \in Requests, HandlerStep(r) \/ Fail(r)
      PROVE  \/ UNCHANGED <<token, inserted, welcome>>
             \/ UpsertToken(r) \/ DeleteToken(r) \/ QueueWelcome(r)
  BY <1>1 DEF HandlerStep, Fail, CreateOrganizer, RefuseOrganizer, CreateMember,
              RefuseMember, ReadMember, QueueMail, ReadToken, RejectToken,
              CheckMember, SetVerified
<1>2. CASE Arrival
  BY <1>2 DEF Arrival, Register, ResendVerificationEmail, VerifyEmail
<1>3. CASE Team
  BY <1>3 DEF Team, RemoveMember, AddMember, UpdateMember
<1>4. CASE Tick \/ UNCHANGED vars \/ \E l \in Links : DeliverMail(l)
  BY <1>4 DEF Tick, vars, DeliverMail
<1> QED  BY <1>1, <1>2, <1>3, <1>4 DEF Next

\* The clock and the organizers are the rest of the state but the handlers.
LEMMA WhoWritesTheRest ==
    ASSUME VerificationInv, [Next]_vars
    PROVE  organizer' \subseteq Orgs /\ clock' \in 0..MaxTime
<1> USE TimesAreNatural
<1>1. /\ organizer \subseteq Orgs
      /\ clock \in 0..MaxTime /\ \A r \in Requests : Knows(req[r])
  BY DEF VerificationInv, TypeOK
<1>2. ASSUME NEW r \in Requests, HandlerStep(r) \/ Fail(r)
      PROVE  organizer' \subseteq Orgs /\ clock' = clock
  <2>1. CASE CreateOrganizer(r)
    <3>1. req[r].org \in Orgs
      BY <1>1, <2>1 DEF Knows, CreateOrganizer, At, RegisterSteps
    <3> QED  BY <1>1, <2>1, <3>1 DEF CreateOrganizer
  <2>2. CASE ~CreateOrganizer(r)
    BY <1>1, <1>2, <2>2
       DEF HandlerStep, Fail, RefuseOrganizer, CreateMember, RefuseMember,
           ReadMember, UpsertToken, QueueMail, ReadToken, RejectToken,
           CheckMember, SetVerified, DeleteToken, QueueWelcome
  <2> QED  BY <2>1, <2>2
<1>3. CASE Arrival
  BY <1>1, <1>3 DEF Arrival, Register, ResendVerificationEmail, VerifyEmail
<1>4. CASE Team
  BY <1>1, <1>4 DEF Team, RemoveMember, AddMember, UpdateMember
<1>5. CASE Tick
  BY <1>1, <1>5 DEF Tick
<1>6. CASE UNCHANGED vars \/ \E l \in Links : DeliverMail(l)
  BY <1>1, <1>6 DEF vars, DeliverMail
<1> QED  BY <1>1, <1>2, <1>3, <1>4, <1>5, <1>6 DEF Next

-----------------------------------------------------------------------------
(* Members and links *)

\* A delivered mail stays as it is.
LEMMA LinksStayDelivered ==
    ASSUME TypeOK, [Next]_vars, NEW l \in Links, link[l].state = "delivered"
    PROVE  link'[l] = link[l]
<1>1. ASSUME NEW r \in Requests, QueueMail(r) PROVE link'[l] = link[l]
  BY <1>1 DEF QueueMail, TypeOK
<1>2. ASSUME NEW k \in Links, DeliverMail(k) PROVE link'[l] = link[l]
  BY <1>2 DEF DeliverMail, TypeOK
<1> QED  BY <1>1, <1>2, WhoWritesLinks

\* What a link must say to have verified a row.
Led(had) == \E l \in Links : link[l].state = "delivered" /\ link[l].member \in had

\* A row that is written: typed, at an address that it has had, and led to by a
\* link when it is verified.
RowFine(m, row) ==
    /\ row \in MemberRow
    /\ row.state # "absent" => m \in row.had
    /\ row.state = "verified" => Led(row.had)

MembersFine ==
    /\ member \in [Members -> MemberRow]
    /\ \A m \in Members : RowFine(m, member[m])

LEMMA InvMembersFine == VerificationInv => MembersFine
  BY DEF VerificationInv, MembersFine, RowFine, TypeOK, RowsKnown,
         VerifiedByLink, Led

\* A link that led still leads.
LEMMA StillLed ==
    ASSUME TypeOK, [Next]_vars, NEW had, Led(had)
    PROVE  Led(had)'
  BY LinksStayDelivered DEF Led

\* Rows that were fine, or are replaced by fine ones, are fine.
LEMMA FineRowsStay ==
    ASSUME VerificationInv, [Next]_vars, member' \in [Members -> MemberRow],
           \A m \in Members : RowFine(m, member'[m])
    PROVE  MembersFine'
<1>1. ASSUME NEW m \in Members, member'[m].state = "verified"
      PROVE  \E l \in Links : /\ link'[l].state = "delivered"
                              /\ link'[l].member \in member'[m].had
  <2>1. PICK had : had = member'[m].had /\ Led(had)
    BY <1>1 DEF RowFine
  <2>2. Led(had)'
    BY <2>1, StillLed DEF VerificationInv
  <2> QED  BY <2>1, <2>2 DEF Led
<1> QED  BY <1>1 DEF MembersFine, RowFine, Led

\* Every step leaves the members fine: SetVerified follows a link, and
\* UpdateMember takes the addresses along.
LEMMA MembersStayFine ==
    ASSUME VerificationInv, [Next]_vars
    PROVE  MembersFine'
<1>1. MembersFine /\ TypeOK /\ member \in [Members -> MemberRow]
  BY InvMembersFine DEF VerificationInv, TypeOK
<1>2. ASSUME member' = member PROVE MembersFine'
  BY <1>1, <1>2, FineRowsStay DEF MembersFine
<1>3. ASSUME NEW m \in Members, NEW row, RowFine(m, row),
             member' = [member EXCEPT ![m] = row]
      PROVE  MembersFine'
  <2>1. member' \in [Members -> MemberRow]
    BY <1>1, <1>3 DEF RowFine
  <2>2. ASSUME NEW n \in Members PROVE RowFine(n, member'[n])
    <3>1. CASE n = m
      BY <1>1, <1>3, <3>1
    <3>2. CASE n # m
      BY <1>1, <1>3, <3>2 DEF MembersFine
    <3> QED  BY <3>1, <3>2
  <2> QED  BY <2>1, <2>2, FineRowsStay
<1>4. ASSUME NEW m \in Members, NEW o \in Orgs \cup {None}
      PROVE  RowFine(m, NewRow(m, o)) /\ RowFine(m, AbsentRow)
  BY <1>4 DEF RowFine, NewRow, AbsentRow, MemberRow
<1>5. ASSUME NEW r \in Requests, CreateMember(r) PROVE MembersFine'
  <2>1. req[r].member \in Members /\ req[r].org \in Orgs \cup {None}
    BY <1>5 DEF VerificationInv, TypeOK, Handler, Knows, CreateMember, At
  <2> QED  BY <1>3, <1>4, <1>5, <2>1 DEF CreateMember
<1>6. ASSUME NEW r \in Requests, SetVerified(r) PROVE MembersFine'
  <2>1. CASE member' = member
    BY <1>2, <2>1
  <2>2. CASE member' # member
    <3>1. PICK m, l : /\ m = req[r].member /\ l = req[r].link
                      /\ m \in Members /\ l \in Links
                      /\ link[l].state = "delivered" /\ link[l].member = m
      BY <1>6 DEF VerificationInv, Knows, SetVerified, At, VerifySteps
    <3>2. PICK row : row = [member[m] EXCEPT !.state = "verified"]
      OBVIOUS
    <3>3. /\ member[m].state # "absent"
          /\ member' = [member EXCEPT ![m] = row]
      BY <1>6, <2>2, <3>1, <3>2 DEF SetVerified
    <3>4. m \in member[m].had
      BY <1>1, <3>1, <3>3 DEF MembersFine, RowFine
    <3>5. row \in MemberRow /\ row.had = member[m].had
      BY <1>1, <3>1, <3>2 DEF MemberRow
    <3>6. RowFine(m, row)
      BY <3>1, <3>4, <3>5 DEF RowFine, Led
    <3> QED  BY <1>3, <3>1, <3>3, <3>6
  <2> QED  BY <2>1, <2>2
<1>7. ASSUME NEW m \in Members, RemoveMember(m) PROVE MembersFine'
  BY <1>3, <1>4, <1>7 DEF RemoveMember
<1>8. ASSUME NEW m \in Members, NEW o \in Orgs, AddMember(m, o)
      PROVE  MembersFine'
  BY <1>3, <1>4, <1>8 DEF AddMember
<1>9. ASSUME NEW m \in Members, NEW n \in Members, NEW o \in Orgs,
             UpdateMember(m, n, o)
      PROVE  MembersFine'
  <2>1. PICK row, had : /\ row = [member[m] EXCEPT !.org = o, !.had = had]
                        /\ had = member[m].had \cup {n}
    OBVIOUS
  <2>2. member' = [member EXCEPT ![m] = AbsentRow, ![n] = row]
    BY <1>9, <2>1 DEF UpdateMember
  <2>3. /\ row \in MemberRow /\ row.state = member[m].state
        /\ row.had = member[m].had \cup {n}
    <3>1. member[m] \in MemberRow /\ had \in SUBSET Members
      BY <1>1, <2>1 DEF MemberRow
    <3> QED  BY <2>1, <3>1 DEF MemberRow
  <2>4. RowFine(m, member[m])
    BY <1>1 DEF MembersFine
  <2>5. RowFine(n, row)
    BY <2>3, <2>4 DEF RowFine, Led
  <2>6. AbsentRow \in MemberRow
    BY DEF AbsentRow, MemberRow
  <2>7. member' \in [Members -> MemberRow]
    BY <1>1, <2>2, <2>3, <2>6
  <2>8. ASSUME NEW k \in Members PROVE RowFine(k, member'[k])
    <3>1. CASE k = n
      BY <1>1, <2>2, <2>5, <3>1
    <3>2. CASE k = m /\ k # n
      <4>1. member'[k] = AbsentRow
        BY <1>1, <2>2, <3>2
      <4> QED  BY <1>4, <3>2, <4>1
    <3>3. CASE k # n /\ k # m
      <4>1. member'[k] = member[k]
        BY <1>1, <2>2, <3>3
      <4> QED  BY <1>1, <4>1 DEF MembersFine
    <3> QED  BY <3>1, <3>2, <3>3
  <2> QED  BY <2>7, <2>8, FineRowsStay
<1> QED
  BY <1>2, <1>5, <1>6, <1>7, <1>8, <1>9, WhoWritesMembers DEF Team

\* Mails are queued with the handler's address.
LEMMA LinksStayFine ==
    ASSUME VerificationInv, [Next]_vars
    PROVE  /\ link' \in [Links -> LinkMail]
           /\ \A l \in Links : link'[l].state # "unused" =>
                                  link'[l].member \in Members
<1>1. /\ link \in [Links -> LinkMail]
      /\ \A l \in Links : link[l].state # "unused" => link[l].member \in Members
  BY DEF VerificationInv, TypeOK, RowsKnown
<1>2. ASSUME NEW r \in Requests, QueueMail(r)
      PROVE  req[r].member \in Members /\ req[r].signedAt \in Nat
  BY <1>2 DEF VerificationInv, TypeOK, Handler, Knows, QueueMail, At
<1>3. ASSUME NEW r \in Requests, QueueMail(r)
      PROVE  /\ link' \in [Links -> LinkMail]
             /\ \A l \in Links : link'[l].state # "unused" =>
                                    link'[l].member \in Members
  <2>1. PICK l, mail :
            /\ l \in Links
            /\ mail = [state |-> "queued", member |-> req[r].member,
                       signedAt |-> req[r].signedAt]
            /\ link' = [link EXCEPT ![l] = mail]
    BY <1>3 DEF QueueMail
  <2>2. mail \in LinkMail /\ mail.member \in Members
    BY <1>2, <1>3, <2>1 DEF LinkMail
  <2> QED  BY <1>1, <2>1, <2>2
<1>4. ASSUME NEW l \in Links, DeliverMail(l)
      PROVE  /\ link' \in [Links -> LinkMail]
             /\ \A k \in Links : link'[k].state # "unused" =>
                                    link'[k].member \in Members
  BY <1>1, <1>4 DEF DeliverMail, LinkMail
<1> QED  BY <1>1, <1>3, <1>4, WhoWritesLinks

-----------------------------------------------------------------------------
(* The handlers *)

HandlersFine == /\ req' \in [Requests -> Handler]
                /\ \A q \in Requests : Knows(req[q])'

\* A link that a handler knows stays as it is.
LEMMA StillKnows ==
    ASSUME TypeOK, [Next]_vars, NEW h, Knows(h)
    PROVE  Knows(h)'
  BY LinksStayDelivered DEF Knows

\* After a step that sets handler r to h, every handler is one and knows its
\* part, if h is and does.
LEMMA OneHandlerMoves ==
    ASSUME VerificationInv, [Next]_vars, NEW r \in Requests, NEW h,
           h \in Handler, Knows(h), req' = [req EXCEPT ![r] = h]
    PROVE  HandlersFine
<1>1. ASSUME NEW q \in Requests PROVE Knows(req[q])'
  <2>1. PICK g : g = req'[q]
    OBVIOUS
  <2>2. g = h \/ g = req[q]
    BY <2>1 DEF VerificationInv, TypeOK
  <2>3. Knows(g)
    BY <2>2 DEF VerificationInv
  <2>4. Knows(g)'
    BY <2>3, StillKnows DEF VerificationInv
  <2> QED  BY <2>1, <2>4 DEF Knows
<1>2. req' \in [Requests -> Handler]
  BY DEF VerificationInv, TypeOK
<1> QED  BY <1>1, <1>2 DEF HandlersFine

\* A handler that ends has nothing to know.
LEMMA AnsweringIsEasy ==
    ASSUME VerificationInv, [Next]_vars, NEW r \in Requests, Answer(r)
    PROVE  HandlersFine
<1>1. PICK h : h = IdleHandler
  OBVIOUS
<1>2. h \in Handler /\ Knows(h)
  BY <1>1 DEF IdleHandler, Handler, Knows, RegisterSteps, VerifySteps
<1> QED  BY <1>1, <1>2, OneHandlerMoves DEF Answer

\* A step of no handler leaves them all knowing.
LEMMA NobodyMoves ==
    ASSUME VerificationInv, [Next]_vars, req' = req
    PROVE  HandlersFine
<1>1. ASSUME NEW q \in Requests PROVE Knows(req[q])'
  <2>1. PICK g : g = req[q] /\ Knows(g)
    BY DEF VerificationInv
  <2>2. Knows(g)'
    BY <2>1, StillKnows DEF VerificationInv
  <2> QED  BY <2>1, <2>2 DEF Knows
<1> QED  BY <1>1 DEF HandlersFine, VerificationInv, TypeOK

\* A handler goes on with what it knows to a step of the same route.
LEMMA GoingOnIsKnowing ==
    ASSUME VerificationInv, [Next]_vars, NEW r \in Requests, NEW pc,
           req[r].pc # "idle", Goto(r, pc),
           \/ pc \in VerifySteps /\ req[r].pc \in VerifySteps
           \/ pc \in RegisterSteps /\ req[r].pc \in RegisterSteps
           \/ pc \in MailSteps
    PROVE  HandlersFine
<1>1. req[r] \in Handler /\ Knows(req[r])
  BY DEF VerificationInv, TypeOK
<1>2. PICK h : h = [req[r] EXCEPT !.pc = pc]
  OBVIOUS
<1>3. /\ h.pc = pc /\ h.member = req[r].member /\ h.org = req[r].org
      /\ h.link = req[r].link /\ h \in Handler
  BY <1>1, <1>2 DEF Handler
<1>4. Knows(h)
  BY <1>1, <1>3 DEF Knows, VerifySteps, RegisterSteps, MailSteps
<1>5. req' = [req EXCEPT ![r] = h]
  BY <1>2 DEF Goto, VerificationInv, TypeOK
<1> QED  BY <1>3, <1>4, <1>5, OneHandlerMoves

\* Every step leaves the handlers typed and knowing what they must.
LEMMA HandlersStayFine ==
    ASSUME VerificationInv, [Next]_vars
    PROVE  HandlersFine
<1>1. /\ TypeOK /\ RowsKnown /\ \A r \in Requests : Knows(req[r])
      /\ req \in [Requests -> Handler] /\ clock \in Nat
  BY TimesAreNatural DEF VerificationInv, TypeOK
<1>2. ASSUME NEW r \in Requests, Answer(r) PROVE HandlersFine
  BY <1>2, AnsweringIsEasy
<1>3. ASSUME req' = req PROVE HandlersFine
  BY <1>3, NobodyMoves
<1>4. ASSUME NEW r \in Requests, NEW o \in Orgs, NEW m \in Members,
             Register(r, o, m)
      PROVE  HandlersFine
  <2>1. PICK h : h = [IdleHandler EXCEPT
                         !.pc = "createOrganizer", !.org = o, !.member = m]
    OBVIOUS
  <2>2. h \in Handler /\ Knows(h)
    BY <2>1 DEF IdleHandler, Handler, Knows, RegisterSteps, VerifySteps
  <2> QED  BY <1>4, <2>1, <2>2, OneHandlerMoves DEF Register
<1>5. ASSUME NEW r \in Requests, NEW m \in Members,
             ResendVerificationEmail(r, m)
      PROVE  HandlersFine
  <2>1. PICK h : h = [IdleHandler EXCEPT !.pc = "readMember", !.member = m]
    OBVIOUS
  <2>2. h \in Handler /\ Knows(h)
    BY <2>1 DEF IdleHandler, Handler, Knows, RegisterSteps, VerifySteps,
                MailSteps
  <2> QED  BY <1>5, <2>1, <2>2, OneHandlerMoves DEF ResendVerificationEmail
<1>6. ASSUME NEW r \in Requests, NEW l \in Links, VerifyEmail(r, l)
      PROVE  HandlersFine
  <2>1. PICK h : h = [IdleHandler EXCEPT
                         !.pc = "readToken", !.member = link[l].member,
                         !.link = l]
    OBVIOUS
  <2>2. link[l].member \in Members /\ link[l].state = "delivered"
    BY <1>1, <1>6 DEF RowsKnown, VerifyEmail
  <2>3. h \in Handler /\ Knows(h)
    BY <2>1, <2>2 DEF IdleHandler, Handler, Knows, RegisterSteps, VerifySteps
  <2> QED  BY <1>6, <2>1, <2>3, OneHandlerMoves DEF VerifyEmail
<1>7. ASSUME NEW r \in Requests, ReadMember(r) PROVE HandlersFine
  <2>1. CASE Answer(r)
    BY <1>2, <2>1
  <2>2. CASE req' = [req EXCEPT ![r].pc = "upsertToken", ![r].signedAt = clock]
    <3>1. PICK h : h = [req[r] EXCEPT !.pc = "upsertToken", !.signedAt = clock]
      OBVIOUS
    <3>2. /\ h \in Handler /\ h.pc = "upsertToken"
          /\ h.member = req[r].member /\ req[r].pc = "readMember"
      BY <1>1, <1>7, <3>1 DEF Handler, MailSteps, ReadMember, At
    <3>3. Knows(h)
      BY <1>1, <3>2 DEF Knows, VerifySteps, RegisterSteps
    <3>4. req' = [req EXCEPT ![r] = h]
      BY <1>1, <2>2, <3>1
    <3> QED  BY <3>2, <3>3, <3>4, OneHandlerMoves
  <2> QED  BY <1>7, <2>1, <2>2 DEF ReadMember
<1>8. ASSUME NEW r \in Requests,
             CreateOrganizer(r) \/ CreateMember(r) \/ UpsertToken(r)
      PROVE  HandlersFine
  BY <1>8, GoingOnIsKnowing
     DEF CreateOrganizer, CreateMember, UpsertToken, At, RegisterSteps, MailSteps
<1>9. ASSUME NEW r \in Requests,
             ReadToken(r) \/ CheckMember(r) \/ SetVerified(r) \/ DeleteToken(r)
      PROVE  HandlersFine
  <2>1. CASE Answer(r)
    BY <1>2, <2>1
  <2>2. CASE /\ req[r].pc \in VerifySteps
             /\ \E pc \in VerifySteps : Goto(r, pc)
    <3>1. req[r].pc # "idle"
      BY <2>2 DEF VerifySteps
    <3> QED  BY <2>2, <3>1, GoingOnIsKnowing
  <2> QED
    BY <1>9, <2>1, <2>2
       DEF ReadToken, CheckMember, SetVerified, DeleteToken, At, VerifySteps
<1>10. ASSUME NEW r \in Requests, HandlerStep(r) \/ Fail(r) PROVE HandlersFine
  <2>1. CASE RefuseOrganizer(r) \/ RefuseMember(r) \/ QueueMail(r)
                \/ RejectToken(r) \/ QueueWelcome(r) \/ Fail(r)
    BY <1>2, <2>1 DEF RefuseOrganizer, RefuseMember, QueueMail, RejectToken,
                      QueueWelcome, Fail
  <2> QED  BY <1>7, <1>8, <1>9, <1>10, <2>1 DEF HandlerStep
<1>11. ASSUME Arrival PROVE HandlersFine
  BY <1>4, <1>5, <1>6, <1>11 DEF Arrival
<1>12. ASSUME Team PROVE HandlersFine
  BY <1>3, <1>12 DEF Team, RemoveMember, AddMember, UpdateMember
<1>13. ASSUME Tick \/ UNCHANGED vars \/ \E l \in Links : DeliverMail(l)
       PROVE  HandlersFine
  BY <1>3, <1>13 DEF Tick, vars, DeliverMail
<1> QED  BY <1>10, <1>11, <1>12, <1>13 DEF Next

-----------------------------------------------------------------------------
(* The token rows *)

\* The handlers about to welcome a member are finitely many.
LEMMA WelcomingIsFinite ==
    ASSUME NEW m \in Members
    PROVE  /\ IsFiniteSet(Welcoming(m)) /\ Cardinality(Welcoming(m)) \in Nat
           /\ IsFiniteSet(Welcoming(m)') /\ Cardinality(Welcoming(m)') \in Nat
<1>1. Welcoming(m) \subseteq Requests /\ Welcoming(m)' \subseteq Requests
  BY DEF Welcoming
<1> QED  BY <1>1, FewRequests, FS_Subset, FS_CardinalityType

\* Only DeleteToken sends a handler to queue a welcome.
LEMMA OnlyDeletersWelcome ==
    ASSUME TypeOK, [Next]_vars, NEW q \in Requests,
           req'[q].pc = "queueWelcome", ~DeleteToken(q)
    PROVE  req'[q] = req[q]
<1>1. req \in [Requests -> Handler]
  BY DEF TypeOK
<1>2. ASSUME NEW r \in Requests, NEW h, h.pc # "queueWelcome",
             req' = [req EXCEPT ![r] = h]
      PROVE  req'[q] = req[q]
  BY <1>1, <1>2
<1>3. ASSUME NEW r \in Requests, Answer(r) PROVE req'[q] = req[q]
  BY <1>2, <1>3 DEF Answer, IdleHandler
<1>4. ASSUME NEW r \in Requests, NEW pc, pc # "queueWelcome", Goto(r, pc)
      PROVE  req'[q] = req[q]
  <2>1. PICK h : h = [req[r] EXCEPT !.pc = pc]
    OBVIOUS
  <2>2. h.pc = pc /\ req' = [req EXCEPT ![r] = h]
    BY <1>1, <1>4, <2>1 DEF Goto, Handler
  <2> QED  BY <1>2, <1>4, <2>2
<1>5. ASSUME NEW r \in Requests, ReadMember(r) PROVE req'[q] = req[q]
  <2>1. CASE Answer(r)
    BY <1>3, <2>1
  <2>2. CASE req' = [req EXCEPT ![r].pc = "upsertToken", ![r].signedAt = clock]
    <3>1. PICK h : h = [req[r] EXCEPT !.pc = "upsertToken", !.signedAt = clock]
      OBVIOUS
    <3>2. h.pc = "upsertToken" /\ req' = [req EXCEPT ![r] = h]
      BY <1>1, <2>2, <3>1 DEF Handler
    <3> QED  BY <1>2, <3>2
  <2> QED  BY <1>5, <2>1, <2>2 DEF ReadMember
<1>6. ASSUME NEW r \in Requests, DeleteToken(r) PROVE req'[q] = req[q]
  <2>1. q # r
    BY <1>6
  <2> QED  BY <1>1, <1>6, <2>1 DEF DeleteToken, Answer, Goto
<1>7. ASSUME NEW r \in Requests, HandlerStep(r) \/ Fail(r)
      PROVE  req'[q] = req[q]
  <2>1. CASE ReadMember(r) \/ DeleteToken(r)
    BY <1>5, <1>6, <2>1
  <2>2. CASE RefuseOrganizer(r) \/ RefuseMember(r) \/ QueueMail(r)
                \/ RejectToken(r) \/ QueueWelcome(r) \/ Fail(r)
    BY <1>3, <2>2 DEF RefuseOrganizer, RefuseMember, QueueMail, RejectToken,
                      QueueWelcome, Fail
  <2>3. CASE CreateOrganizer(r) \/ CreateMember(r) \/ UpsertToken(r)
                \/ ReadToken(r) \/ CheckMember(r) \/ SetVerified(r)
    BY <1>3, <1>4, <2>3 DEF CreateOrganizer, CreateMember, UpsertToken,
                            ReadToken, CheckMember, SetVerified
  <2> QED  BY <1>7, <2>1, <2>2, <2>3 DEF HandlerStep
<1>8. ASSUME NEW r \in Requests, NEW h, h.pc \in {"createOrganizer",
             "readMember", "readToken"}, req' = [req EXCEPT ![r] = h]
      PROVE  req'[q] = req[q]
  BY <1>2, <1>8
<1>9. ASSUME NEW r \in Requests, NEW o \in Orgs, NEW m \in Members,
             Register(r, o, m)
      PROVE  req'[q] = req[q]
  <2>1. PICK h : h = [IdleHandler EXCEPT
                         !.pc = "createOrganizer", !.org = o, !.member = m]
    OBVIOUS
  <2>2. h.pc = "createOrganizer" /\ req' = [req EXCEPT ![r] = h]
    BY <1>9, <2>1 DEF IdleHandler, Register
  <2> QED  BY <1>8, <2>2
<1>10. ASSUME NEW r \in Requests, NEW m \in Members,
              ResendVerificationEmail(r, m)
       PROVE  req'[q] = req[q]
  <2>1. PICK h : h = [IdleHandler EXCEPT !.pc = "readMember", !.member = m]
    OBVIOUS
  <2>2. h.pc = "readMember" /\ req' = [req EXCEPT ![r] = h]
    BY <1>10, <2>1 DEF IdleHandler, ResendVerificationEmail
  <2> QED  BY <1>8, <2>2
<1>11. ASSUME NEW r \in Requests, NEW l \in Links, VerifyEmail(r, l)
       PROVE  req'[q] = req[q]
  <2>1. PICK h : h = [IdleHandler EXCEPT
                         !.pc = "readToken", !.member = link[l].member,
                         !.link = l]
    OBVIOUS
  <2>2. h.pc = "readToken" /\ req' = [req EXCEPT ![r] = h]
    BY <1>11, <2>1 DEF IdleHandler, VerifyEmail
  <2> QED  BY <1>8, <2>2
<1>12. ASSUME Team \/ Tick \/ UNCHANGED vars \/ \E l \in Links : DeliverMail(l)
       PROVE  req'[q] = req[q]
  BY <1>12 DEF Team, RemoveMember, AddMember, UpdateMember, Tick, vars,
               DeliverMail
<1> QED  BY <1>7, <1>9, <1>10, <1>11, <1>12 DEF Next, Arrival

TokensFine ==
    /\ token \in [Members -> TokenRow]
    /\ inserted \in [Members -> Nat]
    /\ welcome \in [Members -> Nat]
    /\ TokensSpent

\* Every step leaves the books in order: an insert is counted, a delete hands
\* its row over to one handler, and that welcomes once or is lost.
LEMMA TokensStayFine ==
    ASSUME VerificationInv, [Next]_vars
    PROVE  TokensFine'
<1> DEFINE Card(m) == Cardinality(Welcoming(m))
<1>1. /\ TypeOK /\ TokensSpent
      /\ token \in [Members -> TokenRow] /\ inserted \in [Members -> Nat]
      /\ welcome \in [Members -> Nat] /\ req \in [Requests -> Handler]
  BY DEF VerificationInv, TypeOK
<1>2. ASSUME NEW m \in Members
      PROVE  /\ IsFiniteSet(Welcoming(m)) /\ Card(m) \in Nat
             /\ IsFiniteSet(Welcoming(m)') /\ Card(m)' \in Nat
  BY WelcomingIsFinite
<1>3. ASSUME NEW m \in Members, \A r \in Requests : ~DeleteToken(r)
      PROVE  Welcoming(m)' \subseteq Welcoming(m)
  BY <1>1, <1>3, OnlyDeletersWelcome DEF Welcoming, At
<1>4. ASSUME NEW m \in Members, Welcoming(m)' \subseteq Welcoming(m)
      PROVE  Card(m)' <= Card(m)
  BY <1>2, <1>4, FS_Subset
<1>5. ASSUME NEW m \in Members
      PROVE  TokenCount(m) \in 0..1
  BY DEF TokenCount
<1>6. ASSUME UNCHANGED <<token, inserted, welcome>>,
             \A r \in Requests : ~DeleteToken(r)
      PROVE  TokensFine'
  <2>1. ASSUME NEW m \in Members
        PROVE  welcome[m] + Card(m)' + TokenCount(m) <= inserted[m]
    BY <1>1, <1>2, <1>3, <1>4, <1>5, <1>6 DEF TokensSpent
  <2> QED  BY <1>1, <1>6, <2>1 DEF TokensFine, TokensSpent, TokenCount
<1>7. ASSUME NEW r \in Requests, UpsertToken(r) PROVE TokensFine'
  <2>1. \A q \in Requests : ~DeleteToken(q)
    <3>1. ASSUME NEW q \in Requests, DeleteToken(q) PROVE FALSE
      <4>1. q # r
        BY <1>7, <3>1 DEF UpsertToken, DeleteToken, At
      <4> QED
        BY <1>1, <1>7, <3>1, <4>1
           DEF UpsertToken, DeleteToken, At, Goto, Answer, IdleHandler, Handler
    <3> QED  BY <3>1
  <2>2. PICK m \in Members : m = req[r].member
    BY <1>7 DEF VerificationInv, Knows, UpsertToken, At
  <2>3. req[r].signedAt + RowTTL \in Nat
    BY <1>1, TimesAreNatural DEF Handler
  <2>4. CASE UNCHANGED <<token, inserted>>
    BY <1>6, <1>7, <2>1, <2>4 DEF UpsertToken
  <2>5. CASE ~UNCHANGED <<token, inserted>>
    <3>1. PICK row :
              /\ row = [exists |-> TRUE, expiresAt |-> req[r].signedAt + RowTTL]
              /\ ~token[m].exists
              /\ token' = [token EXCEPT ![m] = row]
              /\ inserted' = [inserted EXCEPT ![m] = @ + 1]
              /\ welcome' = welcome
      BY <1>7, <2>2, <2>5 DEF UpsertToken
    <3>2. row \in TokenRow /\ row.exists
      BY <2>3, <3>1 DEF TokenRow
    <3>3. /\ token' \in [Members -> TokenRow] /\ inserted' \in [Members -> Nat]
          /\ token'[m].exists /\ inserted'[m] = inserted[m] + 1
          /\ \A n \in Members : n # m => /\ token'[n] = token[n]
                                         /\ inserted'[n] = inserted[n]
      BY <1>1, <3>1, <3>2
    <3>4. ASSUME NEW n \in Members
          PROVE  welcome'[n] + Card(n)' + TokenCount(n)' <= inserted'[n]
      <4>1. /\ welcome[n] + Card(n) + TokenCount(n) <= inserted[n]
            /\ Card(n)' <= Card(n) /\ Card(n) \in Nat /\ Card(n)' \in Nat
            /\ welcome[n] \in Nat /\ inserted[n] \in Nat
        BY <1>1, <1>2, <1>3, <1>4, <2>1 DEF TokensSpent
      <4>2. CASE n = m
        <5>1. TokenCount(n) = 0 /\ TokenCount(n)' = 1
          BY <3>1, <3>3, <4>2 DEF TokenCount
        <5> QED  BY <3>1, <3>3, <4>1, <4>2, <5>1
      <4>3. CASE n # m
        <5>1. TokenCount(n)' = TokenCount(n) /\ TokenCount(n) \in 0..1
          BY <3>3, <4>3 DEF TokenCount
        <5> QED  BY <3>1, <3>3, <4>1, <4>3, <5>1
      <4> QED  BY <4>2, <4>3
    <3> QED  BY <1>1, <3>1, <3>3, <3>4 DEF TokensFine, TokensSpent
  <2> QED  BY <2>4, <2>5
<1>8. ASSUME NEW r \in Requests, DeleteToken(r) PROVE TokensFine'
  <2>1. PICK m \in Members : m = req[r].member
    BY <1>8 DEF VerificationInv, Knows, DeleteToken, At
  <2>2. /\ token' \in [Members -> TokenRow] /\ ~token'[m].exists
        /\ \A n \in Members : n # m => token'[n] = token[n]
        /\ inserted' = inserted /\ welcome' = welcome
    BY <1>1, <1>8, <2>1 DEF DeleteToken, TokenRow
  <2>3. ASSUME NEW q \in Requests, q # r PROVE req'[q] = req[q]
    BY <1>1, <1>8, <2>3 DEF DeleteToken, Answer, Goto
  <2>4. ASSUME NEW n \in Members
        PROVE  Welcoming(n)' \subseteq Welcoming(n)
                   \cup (IF n = m /\ token[m].exists THEN {r} ELSE {})
    <3>1. CASE token[m].exists
      <4>1. req'[r].member = m
        BY <1>1, <1>8, <2>1, <3>1 DEF DeleteToken, Goto, Handler
      <4> QED  BY <2>3, <3>1, <4>1 DEF Welcoming, At
    <3>2. CASE ~token[m].exists
      <4>1. req'[r].pc = "idle"
        BY <1>1, <1>8, <2>1, <3>2 DEF DeleteToken, Answer, IdleHandler
      <4> QED  BY <2>3, <3>2, <4>1 DEF Welcoming, At
    <3> QED  BY <3>1, <3>2
  <2>5. ASSUME NEW n \in Members
        PROVE  welcome'[n] + Card(n)' + TokenCount(n)' <= inserted'[n]
    <3>1. /\ welcome[n] + Card(n) + TokenCount(n) <= inserted[n]
          /\ Card(n) \in Nat /\ Card(n)' \in Nat
          /\ welcome[n] \in Nat /\ inserted[n] \in Nat
      BY <1>1, <1>2 DEF TokensSpent
    <3>2. CASE n = m /\ token[m].exists
      <4>1. Card(n)' <= Card(n) + 1
        <5>1. PICK both : both = Welcoming(n) \cup {r}
          OBVIOUS
        <5>2. IsFiniteSet(both) /\ Cardinality(both) <= Card(n) + 1
          <6>1. /\ IsFiniteSet(both)
                /\ \/ Cardinality(both) = Card(n)
                   \/ Cardinality(both) = Card(n) + 1
            BY <1>2, <5>1, FS_AddElement, Zenon
          <6> QED  BY <3>1, <6>1
        <5>3. Welcoming(n)' \subseteq both
          BY <2>4, <3>2, <5>1
        <5>4. Card(n)' <= Cardinality(both) /\ Cardinality(both) \in Nat
          BY <5>2, <5>3, FS_Subset, FS_CardinalityType
        <5> QED  BY <3>1, <5>2, <5>4
      <4>2. TokenCount(n) = 1 /\ TokenCount(n)' = 0
        BY <2>2, <3>2 DEF TokenCount
      <4> QED  BY <2>2, <3>1, <4>1, <4>2
    <3>3. CASE ~(n = m /\ token[m].exists)
      <4>1. Card(n)' <= Card(n)
        BY <1>4, <2>4, <3>3
      <4>2. TokenCount(n)' = TokenCount(n) /\ TokenCount(n) \in 0..1
        BY <2>2, <3>3 DEF TokenCount
      <4> QED  BY <2>2, <3>1, <4>1, <4>2
    <3> QED  BY <3>2, <3>3
  <2> QED  BY <1>1, <2>2, <2>5 DEF TokensFine, TokensSpent
<1>9. ASSUME NEW r \in Requests, QueueWelcome(r) PROVE TokensFine'
  <2>1. PICK m \in Members : m = req[r].member
    BY <1>9 DEF VerificationInv, Knows, QueueWelcome, At
  <2>2. /\ welcome' \in [Members -> Nat] /\ welcome'[m] = welcome[m] + 1
        /\ \A n \in Members : n # m => welcome'[n] = welcome[n]
        /\ token' = token /\ inserted' = inserted
    BY <1>1, <1>9, <2>1 DEF QueueWelcome
  <2>3. ASSUME NEW n \in Members
        PROVE  Welcoming(n)' \subseteq Welcoming(n) \ {r}
    BY <1>1, <1>9 DEF QueueWelcome, Answer, IdleHandler, Welcoming, At
  <2>4. ASSUME NEW n \in Members
        PROVE  welcome'[n] + Card(n)' + TokenCount(n)' <= inserted'[n]
    <3>1. /\ welcome[n] + Card(n) + TokenCount(n) <= inserted[n]
          /\ Card(n) \in Nat /\ Card(n)' \in Nat
          /\ welcome[n] \in Nat /\ inserted[n] \in Nat
      BY <1>1, <1>2 DEF TokensSpent
    <3>2. TokenCount(n)' = TokenCount(n) /\ TokenCount(n) \in 0..1
      BY <2>2 DEF TokenCount
    <3>3. CASE n = m
      <4>1. r \in Welcoming(n)
        BY <1>9, <2>1, <3>3 DEF QueueWelcome, Welcoming
      <4>2. PICK rest : rest = Welcoming(n) \ {r}
        OBVIOUS
      <4>3. IsFiniteSet(rest) /\ Cardinality(rest) = Card(n) - 1
        BY <1>2, <4>1, <4>2, FS_RemoveElement
      <4>4. Card(n)' <= Cardinality(rest)
        BY <2>3, <4>2, <4>3, FS_Subset
      <4> QED  BY <2>2, <3>1, <3>2, <3>3, <4>3, <4>4
    <3>4. CASE n # m
      <4>1. Card(n)' <= Card(n)
        BY <1>4, <2>3
      <4> QED  BY <2>2, <3>1, <3>2, <3>4, <4>1
    <3> QED  BY <3>3, <3>4
  <2> QED  BY <1>1, <2>2, <2>4 DEF TokensFine, TokensSpent
<1> QED  BY <1>6, <1>7, <1>8, <1>9, WhoWritesTokens

-----------------------------------------------------------------------------
(* The invariant *)

\* At first nobody is registered.
LEMMA InitInv == Init => VerificationInv
<1> SUFFICES ASSUME Init PROVE VerificationInv
  OBVIOUS
<1>1. TypeOK
  BY TimesAreNatural
     DEF Init, TypeOK, MemberRow, TokenRow, LinkMail, Handler, AbsentRow,
         IdleHandler
<1>2. RowsKnown /\ VerifiedByLink /\ \A r \in Requests : Knows(req[r])
  BY DEF Init, RowsKnown, VerifiedByLink, Knows, AbsentRow, IdleHandler,
         RegisterSteps, VerifySteps
<1>3. TokensSpent
  <2>1. ASSUME NEW m \in Members
        PROVE  Cardinality(Welcoming(m)) = 0 /\ TokenCount(m) = 0
    <3>1. Welcoming(m) = {}
      BY DEF Init, Welcoming, At, IdleHandler
    <3> QED  BY <3>1, FS_EmptySet DEF Init, TokenCount
  <2> QED  BY <2>1 DEF Init, TokensSpent
<1> QED  BY <1>1, <1>2, <1>3 DEF VerificationInv

\* However registrations, resends, verifications, changes of the team, mails
\* and failures interleave, every step preserves the invariant.
THEOREM VerificationInvariant == Spec => []VerificationInv
<1>1. ASSUME VerificationInv, [Next]_vars PROVE VerificationInv'
  BY <1>1, MembersStayFine, LinksStayFine, TokensStayFine, HandlersStayFine,
     WhoWritesTheRest
     DEF VerificationInv, TypeOK, RowsKnown, VerifiedByLink, MembersFine,
         RowFine, Led, TokensFine, HandlersFine
<1> QED  BY InitInv, <1>1, PTL DEF Spec

-----------------------------------------------------------------------------
(* What follows from it *)

\* Every state of the module is well-typed.
THEOREM TypeCorrect == Spec => []TypeOK
<1>1. VerificationInv => TypeOK
  BY DEF VerificationInv
<1> QED  BY <1>1, VerificationInvariant, PTL

\* Members are verified by links that arrived at an address of theirs, through
\* any changes of the team.
THEOREM MembersGotALink == Spec => []VerifiedByLink
<1>1. VerificationInv => VerifiedByLink
  BY DEF VerificationInv
<1> QED  BY <1>1, VerificationInvariant, PTL

\* Overlapping verifications welcome no oftener than token rows were made.
THEOREM WelcomesArePaidFor == Spec => []WelcomePerToken
<1>1. ASSUME VerificationInv, NEW m \in Members
      PROVE  welcome[m] <= inserted[m]
  <2>1. /\ welcome[m] + Cardinality(Welcoming(m)) + TokenCount(m) <= inserted[m]
        /\ welcome[m] \in Nat /\ inserted[m] \in Nat
        /\ Cardinality(Welcoming(m)) \in Nat /\ TokenCount(m) \in 0..1
    BY <1>1, WelcomingIsFinite DEF VerificationInv, TokensSpent, TypeOK,
                                   TokenCount
  <2> QED  BY <2>1
<1>2. VerificationInv => WelcomePerToken
  BY <1>1 DEF WelcomePerToken
<1> QED  BY <1>2, VerificationInvariant, PTL
=============================================================================
