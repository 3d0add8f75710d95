------------------------- MODULE OrganizerAccessProofs -------------------------
(***************************************************************************)
(* The invariants and the action property of OrganizerAccess, for every     *)
(* value of the constants.                                                  *)
(***************************************************************************)
EXTENDS OrganizerAccess, TLAPS

-----------------------------------------------------------------------------
(* What every step leaves true of a row that was ever used *)

\* A row in use stays in use or is deleted; verifiedAt is never cleared, and a
\* password once asked for stays asked for.
Kept(i) ==
    /\ member'[i].state # "unused"
    /\ member[i].verified => member'[i].verified
    /\ asked[i] \subseteq asked'[i]

\* Every step keeps what is known of a row that is or was in use.
LEMMA RowsAreKept ==
    ASSUME TypeOK, [Next]_vars,
           NEW i \in Ids, member[i].state # "unused"
    PROVE  Kept(i)
<1> USE DEF TypeOK, Kept
<1>1. ASSUME NEW r \in Requests, NEW j \in Ids, NEW p \in Passwords,
             Login(r, j, p) \/ ResetPassword(r, j, p)
      PROVE  Kept(i)
  BY <1>1 DEF Login, ResetPassword
<1>2. ASSUME NEW r \in Requests, NEW s \in signed, Authenticate(r, s)
      PROVE  Kept(i)
  BY <1>2 DEF Authenticate
<1>3. ASSUME NEW r \in Requests, HandlerStep(r) \/ Fail(r)
      PROVE  Kept(i)
  BY <1>3 DEF HandlerStep, Fail, VerifyHash, SignTokens, SetPassword,
              GetSession, Live, MemberRow
<1>4. ASSUME NEW r \in Requests, NEW j \in Ids, RemoveMember(r, j)
      PROVE  Kept(i)
  BY <1>4 DEF RemoveMember, MemberRow
<1>5. ASSUME NEW r \in Requests, NEW j \in Ids, NEW e \in Emails,
             NEW o \in Orgs, NEW p \in Passwords,
             AddMember(r, j, e, o, p) \/ UpdateMember(r, j, e, o, p)
      PROVE  Kept(i)
  BY <1>5 DEF AddMember, UpdateMember, RowOf, MemberRow
<1>6. ASSUME NEW j \in Ids, VerifyMember(j)
      PROVE  Kept(i)
  BY <1>6 DEF VerifyMember, MemberRow
<1>7. CASE UNCHANGED vars
  BY <1>7 DEF vars
<1> QED
  BY <1>1, <1>2, <1>3, <1>4, <1>5, <1>6, <1>7 DEF Next, Arrival, AppLogin, Team

\* A handler that makes no step still knows what it knew.
LEMMA OthersStillKnow ==
    ASSUME TypeOK, [Next]_vars, NEW h, Knows(h)
    PROVE  Knows(h)'
<1>1. CASE h.pc = "idle"
  BY <1>1 DEF Knows
<1>2. CASE h.pc # "idle"
  <2>1. h.id \in Ids /\ member[h.id].state # "unused"
    BY <1>2 DEF Knows
  <2>2. Kept(h.id)
    BY <2>1, RowsAreKept
  <2> QED  BY <1>2, <2>1, <2>2 DEF Knows, Kept
<1> QED  BY <1>1, <1>2

-----------------------------------------------------------------------------
(* The handler that makes the step *)

\* After a step that sets handler r to h, every handler is one and knows its
\* part, if h is and does.
LEMMA OneHandlerMoves ==
    ASSUME AccessInv, [Next]_vars, NEW r \in Requests, NEW h,
           h \in Handler, Knows(h)', req' = [req EXCEPT ![r] = h]
    PROVE  /\ req' \in [Requests -> Handler]
           /\ \A q \in Requests : Knows(req[q])'
<1>1. \A q \in Requests : Knows(req[q])
  BY DEF AccessInv
<1>2. ASSUME NEW q \in Requests PROVE Knows(req[q])'
  <2>1. CASE q = r
    <3>1. req'[q] = h
      BY <2>1 DEF AccessInv, TypeOK
    <3> QED  BY <3>1 DEF Knows
  <2>2. CASE q # r
    <3>1. PICK g : g = req[q]
      OBVIOUS
    <3>2. Knows(g)
      BY <1>1, <3>1
    <3>3. Knows(g)'
      BY <3>2, OthersStillKnow DEF AccessInv
    <3>4. req'[q] = g
      BY <2>2, <3>1 DEF AccessInv, TypeOK
    <3> QED  BY <3>3, <3>4 DEF Knows
  <2> QED  BY <2>1, <2>2
<1>3. req' \in [Requests -> Handler]
  BY DEF AccessInv, TypeOK
<1> QED  BY <1>2, <1>3

\* A handler that ends, or never began, has nothing to know.
LEMMA AnsweringIsEasy ==
    ASSUME AccessInv, [Next]_vars, NEW r \in Requests, Answer(r)
    PROVE  /\ req' \in [Requests -> Handler]
           /\ \A q \in Requests : Knows(req[q])'
<1>1. PICK h : h = IdleHandler
  OBVIOUS
<1>2. h \in Handler /\ Knows(h)'
  BY <1>1 DEF IdleHandler, Handler, Knows
<1> QED  BY <1>1, <1>2, OneHandlerMoves DEF Answer

-----------------------------------------------------------------------------
(* The invariant *)

\* The first member's row is filled in and its password asked for.
LEMMA InitInv == Init => AccessInv
<1> SUFFICES ASSUME Init PROVE AccessInv
  OBVIOUS
<1> PICK i \in Ids, e \in Emails, o \in Orgs, p \in Passwords :
        /\ member = [j \in Ids |-> IF j = i THEN RowOf(e, o, Hash(p), TRUE)
                                            ELSE UnusedRow]
        /\ asked = [j \in Ids |-> IF j = i THEN {p} ELSE {}]
        /\ signed = {}
        /\ req = [r \in Requests |-> IdleHandler]
  BY DEF Init
<1>1. TypeOK
  BY DEF TypeOK, MemberRow, RowOf, UnusedRow, Hash, Column, Handler,
         IdleHandler
<1>2. RowsKnown /\ PasswordWasAsked
  BY DEF RowsKnown, PasswordWasAsked, Live, RowOf, UnusedRow, Hash, Column
<1>3. \A r \in Requests : Knows(req[r])
  BY DEF Knows, IdleHandler
<1> QED  BY <1>1, <1>2, <1>3 DEF AccessInv

\* The rows after a step: well-typed, filled in, and asked for their passwords.
RowsFine ==
    /\ member \in [Ids -> MemberRow]
    /\ asked \in [Ids -> SUBSET Passwords]
    /\ RowsKnown /\ PasswordWasAsked

\* A row that is replaced by a fine one leaves the table fine.
LEMMA OneRowChanges ==
    ASSUME RowsFine, NEW i \in Ids, NEW row \in MemberRow, NEW texts,
           texts \subseteq Passwords,
           row.state = "live" =>
               /\ row.email \in Emails /\ row.org \in Orgs
               /\ row.password \in Column /\ row.password.text \in texts,
           member' = [member EXCEPT ![i] = row],
           asked' = [asked EXCEPT ![i] = texts]
    PROVE  RowsFine'
<1>1. /\ member' \in [Ids -> MemberRow]
      /\ asked' \in [Ids -> SUBSET Passwords]
  BY DEF RowsFine
<1>2. ASSUME NEW j \in Ids, member'[j].state = "live"
      PROVE  /\ member'[j].email \in Emails /\ member'[j].org \in Orgs
             /\ member'[j].password \in Column
             /\ member'[j].password.text \in asked'[j]
  <2>1. CASE j = i
    BY <1>2, <2>1 DEF RowsFine
  <2>2. CASE j # i
    <3>1. member'[j] = member[j] /\ asked'[j] = asked[j]
      BY <2>2 DEF RowsFine
    <3> QED  BY <1>2, <3>1 DEF RowsFine, RowsKnown, PasswordWasAsked, Live
  <2> QED  BY <2>1, <2>2
<1> QED  BY <1>1, <1>2 DEF RowsFine, RowsKnown, PasswordWasAsked, Live

\* Both forms of the password column are columns of their text.
LEMMA ColumnsHoldTexts ==
    ASSUME NEW p \in Passwords
    PROVE  /\ Hash(p) \in Column /\ Hash(p).text = p
           /\ Text(p) \in Column /\ Text(p).text = p
  BY DEF Hash, Text, Column

\* Every step leaves the table fine, above all a reset, which writes to the row
\* that was asked for the password.
LEMMA RowsStayFine ==
    ASSUME AccessInv, [Next]_vars
    PROVE  RowsFine'
<1>1. RowsFine
  BY DEF AccessInv, TypeOK, RowsFine
<1>2. ASSUME member' = member, asked' = asked
      PROVE  RowsFine'
  BY <1>1, <1>2 DEF RowsFine, RowsKnown, PasswordWasAsked, Live
<1>3. ASSUME NEW r \in Requests, NEW i \in Ids, NEW p \in Passwords,
             Login(r, i, p)
      PROVE  RowsFine'
  BY <1>2, <1>3 DEF Login
<1>4. ASSUME NEW r \in Requests, NEW i \in Ids, NEW p \in Passwords,
             ResetPassword(r, i, p)
      PROVE  RowsFine'
  <2>1. PICK row, texts : row = member[i] /\ texts = asked[i] \cup {p}
    OBVIOUS
  <2>2. member' = [member EXCEPT ![i] = row]
    BY <1>1, <1>4, <2>1 DEF ResetPassword, RowsFine
  <2>3. asked' = [asked EXCEPT ![i] = texts]
    BY <1>1, <1>4, <2>1 DEF ResetPassword, RowsFine
  <2>4. /\ row \in MemberRow /\ texts \subseteq Passwords
        /\ row.state = "live" =>
               /\ row.email \in Emails /\ row.org \in Orgs
               /\ row.password \in Column /\ row.password.text \in texts
    BY <1>1, <2>1 DEF RowsFine, RowsKnown, PasswordWasAsked, Live
  <2> QED  BY <1>1, <2>2, <2>3, <2>4, OneRowChanges
<1>5. ASSUME NEW r \in Requests, NEW s \in signed, Authenticate(r, s)
      PROVE  RowsFine'
  BY <1>2, <1>5 DEF Authenticate
<1>6. ASSUME NEW r \in Requests, HandlerStep(r) \/ Fail(r)
      PROVE  RowsFine'
  <2>1. CASE SetPassword(r)
    <3> DEFINE i == req[r].id
    <3>1. i \in Ids /\ req[r].text \in asked[i] /\ asked[i] \subseteq Passwords
      BY <2>1 DEF SetPassword, At, AccessInv, Knows, TypeOK
    <3>2. CASE Live(i)
      <4>1. PICK row, texts : /\ row = [member[i] EXCEPT
                                           !.password = Hash(req[r].text)]
                              /\ texts = asked[i]
        OBVIOUS
      <4>2. member' = [member EXCEPT ![i] = row]
        BY <2>1, <3>2, <4>1 DEF SetPassword
      <4>3. asked' = [asked EXCEPT ![i] = texts]
        BY <1>1, <2>1, <4>1 DEF SetPassword, RowsFine
      <4>4. /\ row \in MemberRow /\ texts \subseteq Passwords
            /\ row.email \in Emails /\ row.org \in Orgs
            /\ row.password \in Column /\ row.password.text \in texts
        <5>1. PICK c : c = Hash(req[r].text)
          OBVIOUS
        <5>2. c \in Column /\ c.text \in asked[i]
          BY <3>1, <5>1, ColumnsHoldTexts
        <5>3. row = [member[i] EXCEPT !.password = c]
          BY <4>1, <5>1
        <5>4. /\ member[i] \in MemberRow
              /\ member[i].email \in Emails /\ member[i].org \in Orgs
          BY <1>1, <3>1, <3>2 DEF RowsFine, RowsKnown
        <5> QED  BY <3>1, <4>1, <5>2, <5>3, <5>4 DEF MemberRow
      <4> QED  BY <1>1, <3>1, <4>2, <4>3, <4>4, OneRowChanges
    <3>3. CASE ~Live(i)
      BY <1>2, <2>1, <3>3 DEF SetPassword
    <3> QED  BY <3>2, <3>3
  <2>2. CASE VerifyHash(r) \/ SignTokens(r) \/ GetSession(r) \/ Fail(r)
    BY <1>2, <2>2 DEF VerifyHash, SignTokens, GetSession, Fail
  <2> QED  BY <1>6, <2>1, <2>2 DEF HandlerStep
<1>7. ASSUME NEW r \in Requests, NEW i \in Ids, RemoveMember(r, i)
      PROVE  RowsFine'
  <2>1. PICK row, texts : /\ row = [member[i] EXCEPT !.state = "deleted"]
                          /\ texts = asked[i]
    OBVIOUS
  <2>2. member' = [member EXCEPT ![i] = row]
    BY <1>7, <2>1 DEF RemoveMember
  <2>3. asked' = [asked EXCEPT ![i] = texts]
    BY <1>1, <1>7, <2>1 DEF RemoveMember, RowsFine
  <2>4. /\ row \in MemberRow /\ row.state = "deleted"
        /\ texts \subseteq Passwords
    BY <1>1, <2>1 DEF RowsFine, MemberRow
  <2> QED  BY <1>1, <2>2, <2>3, <2>4, OneRowChanges
<1>8. ASSUME NEW r \in Requests, NEW i \in Ids, NEW e \in Emails,
             NEW o \in Orgs, NEW p \in Passwords,
             AddMember(r, i, e, o, p) \/ UpdateMember(r, i, e, o, p)
      PROVE  RowsFine'
  <2>1. member[i].verified \in BOOLEAN /\ asked[i] \subseteq Passwords
    BY <1>1 DEF RowsFine, MemberRow
  <2>2. PICK row, texts :
            /\ \/ row = RowOf(e, o, Hash(p), FALSE) /\ texts = {p}
               \/ /\ row = RowOf(e, o, Text(p), member[i].verified)
                  /\ texts = asked[i] \cup {p}
            /\ member' = [member EXCEPT ![i] = row]
            /\ asked' = [asked EXCEPT ![i] = texts]
    BY <1>8, <1>1 DEF AddMember, UpdateMember, RowsFine
  <2>3. /\ row \in MemberRow /\ texts \subseteq Passwords
        /\ row.email \in Emails /\ row.org \in Orgs
        /\ row.password \in Column /\ row.password.text \in texts
    <3>1. PICK c, v : /\ row = RowOf(e, o, c, v) /\ v \in BOOLEAN
                      /\ c \in Column /\ c.text = p
      BY <2>1, <2>2, ColumnsHoldTexts
    <3> QED  BY <2>1, <2>2, <3>1 DEF RowOf, MemberRow
  <2> QED  BY <1>1, <2>2, <2>3, OneRowChanges
<1>9. ASSUME NEW i \in Ids, VerifyMember(i)
      PROVE  RowsFine'
  <2>1. PICK row, texts : /\ row = [member[i] EXCEPT !.verified = TRUE]
                          /\ texts = asked[i]
    OBVIOUS
  <2>2. member' = [member EXCEPT ![i] = row]
    BY <1>9, <2>1 DEF VerifyMember
  <2>3. asked' = [asked EXCEPT ![i] = texts]
    BY <1>1, <1>9, <2>1 DEF VerifyMember, RowsFine
  <2>4. /\ row \in MemberRow /\ texts \subseteq Passwords
        /\ row.state = "live" =>
               /\ row.email \in Emails /\ row.org \in Orgs
               /\ row.password \in Column /\ row.password.text \in texts
    BY <1>1, <2>1 DEF RowsFine, RowsKnown, PasswordWasAsked, Live, MemberRow
  <2> QED  BY <1>1, <2>2, <2>3, <2>4, OneRowChanges
<1>10. CASE UNCHANGED vars
  BY <1>2, <1>10 DEF vars
<1> QED
  BY <1>3, <1>4, <1>5, <1>6, <1>7, <1>8, <1>9, <1>10
     DEF Next, Arrival, AppLogin, Team

\* Every step leaves the handlers typed and knowing what they must, and signs
\* only payloads of rows.
LEMMA HandlersStayKnowing ==
    ASSUME AccessInv, [Next]_vars
    PROVE  /\ req' \in [Requests -> Handler]
           /\ \A q \in Requests : Knows(req[q])'
           /\ signed' \subseteq Payload
<1> DEFINE Goal == /\ req' \in [Requests -> Handler]
                   /\ \A q \in Requests : Knows(req[q])'
                   /\ signed' \subseteq Payload
<1>1. /\ TypeOK /\ RowsKnown /\ PasswordWasAsked
      /\ \A r \in Requests : Knows(req[r])
  BY DEF AccessInv
<1>2. ASSUME NEW r \in Requests, Answer(r), signed' = signed
      PROVE  Goal
  BY <1>1, <1>2, AnsweringIsEasy DEF TypeOK
<1>3. ASSUME NEW r \in Requests, NEW i \in Ids, NEW p \in Passwords,
             Login(r, i, p)
      PROVE  Goal
  <2>1. PICK h : h = [IdleHandler EXCEPT
                         !.pc = "verifyHash", !.id = i,
                         !.email = member[i].email, !.org = member[i].org,
                         !.text = p, !.column = member[i].password]
    OBVIOUS
  <2>2. /\ member[i].email \in Emails /\ member[i].org \in Orgs
        /\ member[i].password \in Column
        /\ member[i].password.text \in asked[i]
        /\ member[i].state = "live" /\ member[i].verified
    BY <1>1, <1>3 DEF Login, RowsKnown, PasswordWasAsked, Live
  <2>3. h \in Handler
    BY <2>1, <2>2 DEF Handler, IdleHandler
  <2>4. Knows(h)'
    BY <1>3, <2>1, <2>2 DEF Knows, IdleHandler, Login
  <2>5. req' = [req EXCEPT ![r] = h]
    BY <1>3, <2>1 DEF Login, MemberFound
  <2> QED  BY <1>1, <1>3, <2>3, <2>4, <2>5, OneHandlerMoves DEF Login, TypeOK
<1>4. ASSUME NEW r \in Requests, NEW i \in Ids, NEW p \in Passwords,
             ResetPassword(r, i, p)
      PROVE  Goal
  <2>1. PICK h : h = [IdleHandler EXCEPT
                         !.pc = "setPassword", !.id = i,
                         !.email = member[i].email, !.text = p]
    OBVIOUS
  <2>2. member[i].email \in Emails /\ member[i].state = "live"
    BY <1>1, <1>4 DEF ResetPassword, RowsKnown, Live
  <2>3. h \in Handler
    BY <2>1, <2>2 DEF Handler, IdleHandler
  <2>4. member' = member /\ p \in asked'[i]
    BY <1>1, <1>4 DEF ResetPassword, TypeOK
  <2>5. Knows(h)'
    BY <2>1, <2>2, <2>4 DEF Knows, IdleHandler
  <2>6. req' = [req EXCEPT ![r] = h]
    BY <1>4, <2>1 DEF ResetPassword
  <2> QED
    BY <1>1, <1>4, <2>3, <2>5, <2>6, OneHandlerMoves DEF ResetPassword, TypeOK
<1>5. ASSUME NEW r \in Requests, NEW s \in signed, Authenticate(r, s)
      PROVE  Goal
  <2>1. PICK h : h = [IdleHandler EXCEPT
                         !.pc = "handle", !.id = s.id, !.org = member[s.id].org]
    OBVIOUS
  <2>2. s.id \in Ids
    BY <1>1 DEF TypeOK, Payload
  <2>3. member[s.id].org \in Orgs /\ member[s.id].state = "live"
    BY <1>1, <1>5, <2>2 DEF Authenticate, RowsKnown, Live
  <2>4. h \in Handler
    BY <2>1, <2>2, <2>3 DEF Handler, IdleHandler
  <2>5. Knows(h)'
    BY <1>5, <2>1, <2>2, <2>3 DEF Knows, IdleHandler, Authenticate
  <2>6. req' = [req EXCEPT ![r] = h]
    BY <1>5, <2>1 DEF Authenticate, AdmitAs
  <2> QED
    BY <1>1, <1>5, <2>4, <2>5, <2>6, OneHandlerMoves DEF Authenticate, TypeOK
<1>6. ASSUME NEW r \in Requests, VerifyHash(r)
      PROVE  Goal
  <2>1. CASE req[r].column = Hash(req[r].text)
    <3>1. PICK h : h = [req[r] EXCEPT !.pc = "sign", !.column = None]
      OBVIOUS
    <3>2. /\ req[r] \in Handler /\ req[r].pc = "verifyHash"
          /\ Knows(req[r])
      BY <1>1, <1>6 DEF TypeOK, VerifyHash, At
    <3>3. h \in Handler
      BY <3>1, <3>2 DEF Handler
    <3>4. req[r].column.text = req[r].text
      BY <2>1 DEF Hash
    <3>5. /\ h.pc = "sign" /\ h.id = req[r].id /\ h.email = req[r].email
          /\ h.org = req[r].org /\ h.text = req[r].text
      BY <3>1, <3>2 DEF Handler
    <3>6. member' = member /\ asked' = asked
      BY <1>6 DEF VerifyHash
    <3>7. Knows(h)'
      BY <3>2, <3>4, <3>5, <3>6 DEF Knows
    <3>8. req' = [req EXCEPT ![r] = h]
      BY <1>6, <2>1, <3>1 DEF VerifyHash
    <3> QED
      BY <1>1, <1>6, <3>3, <3>7, <3>8, OneHandlerMoves DEF VerifyHash, TypeOK
  <2>2. CASE req[r].column # Hash(req[r].text)
    BY <1>2, <1>6, <2>2 DEF VerifyHash
  <2> QED  BY <2>1, <2>2
<1>7. ASSUME NEW r \in Requests, SignTokens(r)
      PROVE  Goal
  <2>1. /\ req[r].id \in Ids /\ req[r].email \in Emails /\ req[r].org \in Orgs
    BY <1>1, <1>7 DEF SignTokens, At, Knows
  <2>2. signed' \subseteq Payload
    BY <1>1, <1>7, <2>1 DEF SignTokens, TypeOK, Payload
  <2> QED  BY <1>7, <2>2, AnsweringIsEasy DEF SignTokens
<1>8. ASSUME NEW r \in Requests, SetPassword(r) \/ GetSession(r) \/ Fail(r)
      PROVE  Goal
  BY <1>2, <1>8 DEF SetPassword, GetSession, Fail
<1>9. ASSUME NEW r \in Requests, NEW i \in Ids, RemoveMember(r, i)
      PROVE  Goal
  BY <1>2, <1>9 DEF RemoveMember
<1>10. ASSUME NEW r \in Requests, NEW i \in Ids, NEW e \in Emails,
              NEW o \in Orgs, NEW p \in Passwords,
              AddMember(r, i, e, o, p) \/ UpdateMember(r, i, e, o, p)
       PROVE  Goal
  BY <1>2, <1>10 DEF AddMember, UpdateMember
<1>11. ASSUME NEW i \in Ids, VerifyMember(i)
       PROVE  Goal
  <2>1. req' = req /\ signed' = signed
    BY <1>11 DEF VerifyMember
  <2>2. ASSUME NEW q \in Requests PROVE Knows(req[q])'
    <3>1. PICK g : g = req[q]
      OBVIOUS
    <3>2. Knows(g)
      BY <1>1, <3>1
    <3>3. Knows(g)'
      BY <1>1, <3>2, OthersStillKnow
    <3> QED  BY <2>1, <3>1, <3>3 DEF Knows
  <2> QED  BY <1>1, <2>1, <2>2 DEF TypeOK
<1>12. ASSUME UNCHANGED vars PROVE Goal
  <2>1. req' = req /\ signed' = signed /\ member' = member /\ asked' = asked
    BY <1>12 DEF vars
  <2> QED  BY <1>1, <2>1 DEF TypeOK, Knows
<1> HIDE DEF Goal
<1>13. ASSUME Arrival PROVE Goal
  BY <1>3, <1>4, <1>5, <1>13 DEF Arrival, AppLogin
<1>14. ASSUME NEW r \in Requests, HandlerStep(r) \/ Team(r) \/ Fail(r)
       PROVE  Goal
  <2>1. CASE HandlerStep(r) \/ Fail(r)
    BY <1>6, <1>7, <1>8, <2>1 DEF HandlerStep
  <2>2. CASE Team(r)
    BY <1>9, <1>10, <2>2 DEF Team
  <2> QED  BY <1>14, <2>1, <2>2
<1>15. Goal
  BY <1>11, <1>12, <1>13, <1>14 DEF Next
<1> QED  BY <1>15 DEF Goal

\* No interleaving of logins, resets, guarded requests and changes of the team
\* breaks the invariant.
THEOREM AccessInvariant == Spec => []AccessInv
<1>1. ASSUME AccessInv, [Next]_vars PROVE AccessInv'
  BY <1>1, RowsStayFine, HandlersStayKnowing DEF AccessInv, TypeOK, RowsFine
<1> QED  BY InitInv, <1>1, PTL DEF Spec

-----------------------------------------------------------------------------
(* What follows from it *)

\* Every state of the module is well-typed.
THEOREM TypeCorrect == Spec => []TypeOK
<1>1. AccessInv => TypeOK
  BY DEF AccessInv
<1> QED  BY <1>1, AccessInvariant, PTL

\* A reset changes the row it read and no other: a row's password was asked for
\* that row.
THEOREM ResetsHitTheirRow == Spec => []PasswordWasAsked
<1>1. AccessInv => PasswordWasAsked
  BY DEF AccessInv
<1> QED  BY <1>1, AccessInvariant, PTL

\* Tokens are signed for verified members whose password was given.
THEOREM TokensAreEarned == Spec => []LoginsEarned
<1>1. AccessInv => LoginsEarned
  BY DEF AccessInv, LoginsEarned, Knows, At
<1> QED  BY <1>1, AccessInvariant, PTL

\* Whoever passes the guard is the live member that the token was signed for,
\* with the organizer of now.
THEOREM GuardKnowsTheMember == Spec => ActsAsItself
<1> DEFINE Admission ==
        \A r \in Requests :
          ~At(r, "handle") /\ At(r, "handle")' =>
              \E s \in signed : /\ s.id = req'[r].id /\ Live(s.id)
                                /\ req'[r].org = member[s.id].org
<1>1. ASSUME AccessInv, [Next]_vars, NEW r \in Requests,
             ~At(r, "handle"), At(r, "handle")'
      PROVE  \E s \in signed : /\ s.id = req'[r].id /\ Live(s.id)
                               /\ req'[r].org = member[s.id].org
  <2>1. req \in [Requests -> Handler]
    BY <1>1 DEF AccessInv, TypeOK
  <2>2. req[r].pc # "handle" /\ req'[r].pc = "handle"
    BY <1>1 DEF At
  <2>3. ASSUME NEW q \in Requests, NEW h \in Handler, h.pc # "handle",
               req' = [req EXCEPT ![q] = h]
        PROVE  FALSE
    BY <2>1, <2>2, <2>3
  <2>4. ASSUME NEW q \in Requests, Answer(q) PROVE FALSE
    <3>1. IdleHandler \in Handler /\ IdleHandler.pc # "handle"
      BY DEF IdleHandler, Handler
    <3> QED  BY <2>3, <2>4, <3>1 DEF Answer
  <2>5. ASSUME req' = req PROVE FALSE
    BY <2>2, <2>5
  <2>6. ASSUME NEW q \in Requests, NEW i \in Ids, NEW p \in Passwords,
               Login(q, i, p) \/ ResetPassword(q, i, p)
        PROVE  FALSE
    <3>1. CASE Login(q, i, p)
      <4>1. PICK h : h = [IdleHandler EXCEPT
                             !.pc = "verifyHash", !.id = i,
                             !.email = member[i].email, !.org = member[i].org,
                             !.text = p, !.column = member[i].password]
        OBVIOUS
      <4>2. h.pc = "verifyHash"
        BY <4>1 DEF IdleHandler
      <4>3. req' = [req EXCEPT ![q] = h]
        BY <3>1, <4>1 DEF Login, MemberFound
      <4> QED  BY <2>1, <2>2, <4>2, <4>3
    <3>2. CASE ResetPassword(q, i, p)
      <4>1. PICK h : h = [IdleHandler EXCEPT
                             !.pc = "setPassword", !.id = i,
                             !.email = member[i].email, !.text = p]
        OBVIOUS
      <4>2. h.pc = "setPassword"
        BY <4>1 DEF IdleHandler
      <4>3. req' = [req EXCEPT ![q] = h]
        BY <3>2, <4>1 DEF ResetPassword
      <4> QED  BY <2>1, <2>2, <4>2, <4>3
    <3> QED  BY <2>6, <3>1, <3>2
  <2>7. ASSUME NEW q \in Requests, VerifyHash(q) PROVE FALSE
    <3>1. CASE Answer(q)
      BY <2>4, <3>1
    <3>2. CASE req' = [req EXCEPT ![q].pc = "sign", ![q].column = None]
      <4>1. PICK h : h = [req[q] EXCEPT !.pc = "sign", !.column = None]
        OBVIOUS
      <4>2. h.pc = "sign"
        BY <2>1, <4>1 DEF Handler
      <4>3. req' = [req EXCEPT ![q] = h]
        BY <3>2, <4>1
      <4> QED  BY <2>1, <2>2, <4>2, <4>3
    <3> QED  BY <2>7, <3>1, <3>2 DEF VerifyHash
  <2>8. ASSUME NEW q \in Requests, HandlerStep(q) \/ Team(q) \/ Fail(q)
        PROVE  FALSE
    <3>1. VerifyHash(q) \/ Answer(q)
      BY <2>8 DEF HandlerStep, Team, SignTokens, SetPassword, GetSession,
                  Fail, RemoveMember, AddMember, UpdateMember
    <3> QED  BY <2>4, <2>7, <3>1
  <2>9. PICK q \in Requests, s \in signed : Authenticate(q, s)
    <3>1. Arrival
      BY <1>1, <2>5, <2>8 DEF Next, VerifyMember, vars
    <3> QED  BY <2>6, <3>1 DEF Arrival, AppLogin
  <2>10. q = r
    BY <2>1, <2>2, <2>9 DEF Authenticate, AdmitAs
  <2> QED
    BY <2>1, <2>9, <2>10 DEF Authenticate, AdmitAs, IdleHandler
<1>2. AccessInv /\ [Next]_vars => [Admission]_vars
  BY <1>1
<1>3. ActsAsItself <=> [][Admission]_vars
  BY DEF ActsAsItself
<1> HIDE DEF Admission
<1> QED  BY <1>2, <1>3, AccessInvariant, PTL DEF Spec
================================================================================
