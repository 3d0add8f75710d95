------------------------- MODULE UserAccountsProofs -------------------------
(***************************************************************************)
(* The invariants and the action property of UserAccounts, for every value  *)
(* of the constants.                                                        *)
(***************************************************************************)
EXTENDS UserAccounts, FiniteSetTheorems, TLAPS

-----------------------------------------------------------------------------
(* Who writes what *)

AccountWriters(r) ==
    InsertUser(r) \/ CheckPassword(r) \/ UpdatePassword(r) \/ SetVerified(r)

\* The users table and the tokens are written by four steps only.
LEMMA WhoWritesAccounts ==
    ASSUME [Next]_vars
    PROVE  \/ UNCHANGED <<account, history>>
           \/ \E r \in Requests : AccountWriters(r)
<1>1. ASSUME NEW r \in Requests, HandlerStep(r) \/ Fail(r)
      PROVE  UNCHANGED <<account, history>> \/ AccountWriters(r)
  BY <1>1 DEF HandlerStep, Fail, AccountWriters, FindExisting,
              QueueVerification, FindUser, FindForReset, QueueReset, ReadReset,
              QueueChanged, FindForResend, ReadVerify, QueueWelcome
<1>2. CASE Arrival
  BY <1>2 DEF Arrival, Register, Login, ForgotPassword, ResetPassword,
              ResendVerificationEmail, VerifyEmail, Arrive
<1>3. ASSUME NEW l \in Links, DeliverVerification(l) \/ DeliverReset(l)
      PROVE  UNCHANGED <<account, history>>
  BY <1>3 DEF DeliverVerification, DeliverReset, Deliver
<1>4. ASSUME NEW e \in Emails, DeliverWelcome(e) \/ DeliverChanged(e)
      PROVE  UNCHANGED <<account, history>>
  BY <1>4 DEF DeliverWelcome, DeliverChanged, EndNotice
<1>5. CASE Tick \/ UNCHANGED vars
  BY <1>5 DEF Tick, vars, history
<1> QED  BY <1>1, <1>2, <1>3, <1>4, <1>5 DEF Next, SmoothNext

\* A link is written when its mail is queued and when the mail is delivered.
LEMMA WhoWritesLinks ==
    ASSUME [Next]_vars
    PROVE  \/ link' = link
           \/ \E r \in Requests : QueueVerification(r) \/ QueueReset(r)
           \/ \E l \in Links : Deliver(l, "verify") \/ Deliver(l, "reset")
<1>1. ASSUME NEW r \in Requests, HandlerStep(r) \/ Fail(r)
      PROVE  link' = link \/ QueueVerification(r) \/ QueueReset(r)
  BY <1>1 DEF HandlerStep, Fail, FindExisting, InsertUser, FindUser,
              CheckPassword, FindForReset, ReadReset, UpdatePassword,
              QueueChanged, FindForResend, ReadVerify, SetVerified, QueueWelcome
<1>2. CASE Arrival
  BY <1>2 DEF Arrival, Register, Login, ForgotPassword, ResetPassword,
              ResendVerificationEmail, VerifyEmail, Arrive
<1>3. ASSUME NEW e \in Emails, DeliverWelcome(e) \/ DeliverChanged(e)
      PROVE  link' = link
  BY <1>3 DEF DeliverWelcome, DeliverChanged, EndNotice
<1>4. CASE Tick \/ UNCHANGED vars
  BY <1>4 DEF Tick, vars
<1> QED
  BY <1>1, <1>2, <1>3, <1>4
     DEF Next, SmoothNext, DeliverVerification, DeliverReset

\* Two handlers and the workers write the notices.
LEMMA WhoWritesNotices ==
    ASSUME [Next]_vars
    PROVE  \/ UNCHANGED <<welcome, notice>>
           \/ \E r \in Requests : QueueWelcome(r) \/ QueueChanged(r)
           \/ \E e \in Emails :
                 EndNotice(e, "welcome") \/ EndNotice(e, "changed")
<1>1. ASSUME NEW r \in Requests, HandlerStep(r) \/ Fail(r)
      PROVE  \/ UNCHANGED <<welcome, notice>>
             \/ QueueWelcome(r) \/ QueueChanged(r)
  BY <1>1 DEF HandlerStep, Fail, FindExisting, InsertUser, QueueVerification,
              FindUser, CheckPassword, FindForReset, QueueReset, ReadReset,
              UpdatePassword, FindForResend, ReadVerify, SetVerified
<1>2. CASE Arrival
  BY <1>2 DEF Arrival, Register, Login, ForgotPassword, ResetPassword,
              ResendVerificationEmail, VerifyEmail, Arrive
<1>3. ASSUME NEW l \in Links, DeliverVerification(l) \/ DeliverReset(l)
      PROVE  UNCHANGED <<welcome, notice>>
  BY <1>3 DEF DeliverVerification, DeliverReset, Deliver
<1>4. CASE Tick \/ UNCHANGED vars
  BY <1>4 DEF Tick, vars
<1> QED
  BY <1>1, <1>2, <1>3, <1>4 DEF Next, SmoothNext, DeliverWelcome, DeliverChanged

\* Time passes only while no handler is in flight.
LEMMA HandlersTakeNoTime ==
    ASSUME [Next]_vars
    PROVE  clock' = clock \/ Tick
<1>1. ASSUME NEW r \in Requests, HandlerStep(r) \/ Fail(r)
      PROVE  clock' = clock
  BY <1>1 DEF HandlerStep, Fail, FindExisting, InsertUser, QueueVerification,
              FindUser, CheckPassword, FindForReset, QueueReset, ReadReset,
              UpdatePassword, QueueChanged, FindForResend, ReadVerify,
              SetVerified, QueueWelcome
<1>2. CASE Arrival
  BY <1>2 DEF Arrival, Register, Login, ForgotPassword, ResetPassword,
              ResendVerificationEmail, VerifyEmail, Arrive
<1>3. ASSUME NEW l \in Links, DeliverVerification(l) \/ DeliverReset(l)
      PROVE  clock' = clock
  BY <1>3 DEF DeliverVerification, DeliverReset, Deliver
<1>4. ASSUME NEW e \in Emails, DeliverWelcome(e) \/ DeliverChanged(e)
      PROVE  clock' = clock
  BY <1>4 DEF DeliverWelcome, DeliverChanged, EndNotice
<1>5. CASE UNCHANGED vars
  BY <1>5 DEF vars
<1> QED  BY <1>1, <1>2, <1>3, <1>4, <1>5 DEF Next, SmoothNext

-----------------------------------------------------------------------------
(* What every step keeps *)

\* A delivered link stays as it is, and usable as often as one likes.
LEMMA LinksStayOpened ==
    ASSUME TypeOK, [Next]_vars, NEW l \in Links, link[l].state = "delivered"
    PROVE  link'[l] = link[l]
<1>1. ASSUME NEW r \in Requests, NEW kind, Queue(r, kind)
      PROVE  link'[l] = link[l]
  BY <1>1 DEF Queue, TypeOK
<1>2. ASSUME NEW k \in Links, NEW kind, Deliver(k, kind)
      PROVE  link'[l] = link[l]
  BY <1>2 DEF Deliver, TypeOK
<1> QED  BY <1>1, <1>2, WhoWritesLinks DEF QueueVerification, QueueReset

\* Passwords once had stay known, and an address once verified stays verified.
LEMMA AccountsAreKept ==
    ASSUME TypeOK, [Next]_vars, NEW e \in Emails
    PROVE  /\ known[e] \subseteq known'[e]
           /\ Exists(e) => Exists(e)'
           /\ account[e].state = "verified" => account'[e].state = "verified"
<1> USE DEF TypeOK, Exists
<1>1. CASE UNCHANGED <<account, history>>
  BY <1>1 DEF history
<1>2. ASSUME NEW r \in Requests, InsertUser(r)
      PROVE  /\ known[e] \subseteq known'[e]
             /\ Exists(e) => Exists(e)'
             /\ account[e].state = "verified" => account'[e].state = "verified"
  BY <1>2 DEF InsertUser, history
<1>3. ASSUME NEW r \in Requests,
             CheckPassword(r) \/ UpdatePassword(r) \/ SetVerified(r)
      PROVE  /\ known[e] \subseteq known'[e]
             /\ Exists(e) => Exists(e)'
             /\ account[e].state = "verified" => account'[e].state = "verified"
  BY <1>3 DEF CheckPassword, UpdatePassword, SetVerified, Account, history
<1> QED  BY <1>1, <1>2, <1>3, WhoWritesAccounts DEF AccountWriters

\* A handler that makes no step still knows what it knew.
LEMMA OthersStillKnow ==
    ASSUME TypeOK, [Next]_vars, NEW q \in Requests, NEW h, h = req[q], Knows(h)
    PROVE  Knows(h)'
<1>1. CASE h.pc = "idle"
  BY <1>1 DEF Knows, PasswordSteps, ResettingSteps, VerifyingSteps
<1>2. CASE h.pc # "idle"
  <2>1. h.email \in Emails
    BY <1>2 DEF Knows
  <2>2. clock' = clock
    BY <1>2, HandlersTakeNoTime DEF Tick, At
  <2>3. /\ known[h.email] \subseteq known'[h.email]
        /\ Exists(h.email) => Exists(h.email)'
        /\ account[h.email].state = "verified" =>
              account'[h.email].state = "verified"
    BY <2>1, AccountsAreKept
  <2>4. ASSUME h.pc \in ResettingSteps \cup VerifyingSteps
        PROVE  link'[h.link] = link[h.link]
    BY <2>4, LinksStayOpened DEF Knows, Opened
  <2>5. h.pc = "updatePassword" => h.pc \in ResettingSteps
    BY DEF ResettingSteps
  <2> QED  BY <2>1, <2>2, <2>3, <2>4, <2>5 DEF Knows, Opened, Usable
<1> QED  BY <1>1, <1>2

-----------------------------------------------------------------------------
(* The handler that makes the step *)

\* After a step that sets handler r to h, every handler is one and knows its
\* part, if h is and does.
LEMMA OneHandlerMoves ==
    ASSUME AccountsInv, [Next]_vars, NEW r \in Requests, NEW h,
           h \in Handler, Knows(h)', req' = [req EXCEPT ![r] = h]
    PROVE  /\ req' \in [Requests -> Handler]
           /\ \A q \in Requests : Knows(req[q])'
<1>1. ASSUME NEW q \in Requests PROVE Knows(req[q])'
  <2>1. CASE q = r
    <3>1. req'[q] = h
      BY <2>1 DEF AccountsInv, TypeOK
    <3> QED  BY <3>1 DEF Knows
  <2>2. CASE q # r
    <3>1. PICK g : g = req[q]
      OBVIOUS
    <3>2. Knows(g)
      BY <3>1 DEF AccountsInv
    <3>3. Knows(g)'
      BY <3>1, <3>2, OthersStillKnow DEF AccountsInv
    <3>4. req'[q] = g
      BY <2>2, <3>1 DEF AccountsInv, TypeOK
    <3> QED  BY <3>3, <3>4 DEF Knows
  <2> QED  BY <2>1, <2>2
<1>2. req' \in [Requests -> Handler]
  BY DEF AccountsInv, TypeOK
<1> QED  BY <1>1, <1>2

\* A handler that ends has nothing to know.
LEMMA AnsweringIsEasy ==
    ASSUME AccountsInv, [Next]_vars, NEW r \in Requests, Answer(r)
    PROVE  /\ req' \in [Requests -> Handler]
           /\ \A q \in Requests : Knows(req[q])'
<1>1. PICK h : h = IdleHandler
  OBVIOUS
<1>2. h \in Handler /\ Knows(h)'
  BY <1>1 DEF IdleHandler, Handler, Knows, PasswordSteps, ResettingSteps,
              VerifyingSteps
<1> QED  BY <1>1, <1>2, OneHandlerMoves DEF Answer

\* A step of no handler leaves them all knowing.
LEMMA NobodyMoves ==
    ASSUME AccountsInv, [Next]_vars, req' = req
    PROVE  /\ req' \in [Requests -> Handler]
           /\ \A q \in Requests : Knows(req[q])'
<1>1. ASSUME NEW q \in Requests PROVE Knows(req[q])'
  <2>1. PICK g : g = req[q]
    OBVIOUS
  <2>2. Knows(g)'
    BY <2>1, OthersStillKnow DEF AccountsInv
  <2> QED  BY <2>1, <2>2 DEF Knows
<1> QED  BY <1>1 DEF AccountsInv, TypeOK

\* A request that arrives knows what its link says.
LEMMA ArrivingIsKnowing ==
    ASSUME AccountsInv, [Next]_vars, NEW r \in Requests,
           NEW pc \in Steps \ {"checkPassword", "updatePassword", "setVerified",
                            "queueWelcome"},
           NEW e \in Emails, NEW pw \in Passwords \cup {None},
           NEW l \in Links \cup {None}, Arrive(r, pc, e, pw, l),
           pc \in PasswordSteps => pw \in Passwords,
           pc \in ResettingSteps =>
               l \in Links /\ Opened(l, "reset") /\ link[l].email = e,
           pc \in VerifyingSteps =>
               l \in Links /\ Opened(l, "verify") /\ link[l].email = e
    PROVE  /\ req' \in [Requests -> Handler]
           /\ \A q \in Requests : Knows(req[q])'
<1>1. PICK h : h = [IdleHandler EXCEPT !.pc = pc, !.email = e,
                                       !.password = pw, !.link = l]
  OBVIOUS
<1>2. /\ h.pc = pc /\ h.email = e /\ h.password = pw /\ h.link = l
      /\ h \in Handler
  BY <1>1 DEF IdleHandler, Handler
<1>3. link' = link
  BY DEF Arrive
<1>4. Knows(h)'
  BY <1>2, <1>3 DEF Knows, Opened
<1> QED  BY <1>1, <1>2, <1>4, OneHandlerMoves DEF Arrive

-----------------------------------------------------------------------------
(* The users table and the tokens *)

TablesFine ==
    /\ account \in [Emails -> Account]
    /\ known \in [Emails -> SUBSET Passwords]
    /\ registered \in [Emails -> Nat]
    /\ sessions \subseteq Emails \X Passwords
    /\ PasswordsKnown /\ InsertsCounted /\ OneRegistration /\ SessionsEarned

\* Tokens for a password that was the account's leave the tables fine.
LEMMA EarnedTokensAreFine ==
    ASSUME TablesFine, NEW e \in Emails, NEW pw \in known[e],
           sessions' = GenerateTokens(e, pw),
           UNCHANGED <<account, known, registered>>
    PROVE  TablesFine'
<1>1. sessions' \subseteq Emails \X Passwords
  BY DEF TablesFine, GenerateTokens
<1>2. \A s \in sessions' : s[2] \in known[s[1]]
  BY DEF TablesFine, SessionsEarned, GenerateTokens
<1> QED
  BY <1>1, <1>2 DEF TablesFine, PasswordsKnown, InsertsCounted, OneRegistration,
                    SessionsEarned, Exists

\* The insert of an account that is absent leaves the tables fine.
LEMMA OneInsertIsFine ==
    ASSUME TablesFine, NEW e \in Emails, NEW pw \in Passwords, ~Exists(e),
           account' = [account EXCEPT ![e] =
                          [state |-> "unverified", password |-> pw]],
           known' = [known EXCEPT ![e] = @ \cup {pw}],
           registered' = [registered EXCEPT ![e] = @ + 1],
           sessions' = GenerateTokens(e, pw)
    PROVE  TablesFine'
<1> USE DEF TablesFine
<1>1. /\ account' \in [Emails -> Account]
      /\ known' \in [Emails -> SUBSET Passwords]
      /\ registered' \in [Emails -> Nat]
      /\ sessions' \subseteq Emails \X Passwords
  BY DEF Account, GenerateTokens
<1>2. PasswordsKnown'
  BY DEF PasswordsKnown, Exists
<1>3. InsertsCounted' /\ OneRegistration'
  <2>1. registered[e] = 0
    BY DEF InsertsCounted
  <2> QED  BY <2>1 DEF InsertsCounted, OneRegistration, Exists
<1>4. SessionsEarned'
  <2>1. ASSUME NEW s \in sessions PROVE s[2] \in known'[s[1]]
    BY DEF SessionsEarned
  <2>2. pw \in known'[e]
    OBVIOUS
  <2> QED  BY <2>1, <2>2 DEF SessionsEarned, GenerateTokens
<1> QED  BY <1>1, <1>2, <1>3, <1>4

\* A new password of an account, the old ones still known, leaves them fine.
LEMMA OneUpdateIsFine ==
    ASSUME TablesFine, NEW e \in Emails, NEW pw \in Passwords,
           account' = [account EXCEPT ![e].password = pw],
           known' = [known EXCEPT ![e] = @ \cup {pw}],
           UNCHANGED <<registered, sessions>>
    PROVE  TablesFine'
<1> USE DEF TablesFine
<1>1. /\ account' \in [Emails -> Account]
      /\ known' \in [Emails -> SUBSET Passwords]
  BY DEF Account
<1>2. \A x \in Emails : Exists(x)' <=> Exists(x)
  BY DEF Exists, Account
<1>3. PasswordsKnown'
  BY <1>2 DEF PasswordsKnown, Account, Exists
<1>4. InsertsCounted' /\ OneRegistration'
  BY <1>2 DEF InsertsCounted, OneRegistration
<1>5. SessionsEarned'
  BY DEF SessionsEarned
<1> QED  BY <1>1, <1>3, <1>4, <1>5

\* Every step leaves the tables fine.
LEMMA TablesStayFine ==
    ASSUME AccountsInv, [Next]_vars
    PROVE  TablesFine'
<1>1. TablesFine
  BY DEF AccountsInv, TypeOK, TablesFine
<1>2. CASE UNCHANGED <<account, history>>
  BY <1>1, <1>2 DEF TablesFine, PasswordsKnown, InsertsCounted, OneRegistration,
                    SessionsEarned, Exists, history
<1>3. ASSUME NEW r \in Requests, InsertUser(r)
      PROVE  TablesFine'
  <2>1. req[r].email \in Emails /\ req[r].password \in Passwords
    BY <1>3 DEF AccountsInv, Knows, InsertUser, At, PasswordSteps
  <2>2. CASE Exists(req[r].email)
    BY <1>2, <1>3, <2>2 DEF InsertUser
  <2>3. CASE ~Exists(req[r].email)
    BY <1>1, <1>3, <2>1, <2>3, OneInsertIsFine DEF InsertUser
  <2> QED  BY <2>2, <2>3
<1>4. ASSUME NEW r \in Requests, CheckPassword(r)
      PROVE  TablesFine'
  <2>1. req[r].email \in Emails /\ req[r].saw \in known[req[r].email]
    BY <1>4 DEF AccountsInv, Knows, CheckPassword, At
  <2>2. CASE req[r].saw = req[r].password
    BY <1>1, <1>4, <2>1, <2>2, EarnedTokensAreFine DEF CheckPassword
  <2>3. CASE req[r].saw # req[r].password
    BY <1>2, <1>4, <2>3 DEF CheckPassword, history
  <2> QED  BY <2>2, <2>3
<1>5. ASSUME NEW r \in Requests, UpdatePassword(r)
      PROVE  TablesFine'
  <2>1. req[r].email \in Emails /\ req[r].password \in Passwords
    BY <1>5 DEF AccountsInv, Knows, UpdatePassword, At, PasswordSteps,
                ResettingSteps
  <2> QED  BY <1>1, <1>5, <2>1, OneUpdateIsFine DEF UpdatePassword
<1>6. ASSUME NEW r \in Requests, SetVerified(r)
      PROVE  TablesFine'
  <2>1. PICK e \in Emails : e = req[r].email /\ Exists(e)
    BY <1>6 DEF AccountsInv, Knows, SetVerified, At
  <2>2. /\ account' = [account EXCEPT ![e].state = "verified"]
        /\ UNCHANGED history
    BY <1>6, <2>1 DEF SetVerified
  <2>3. account' \in [Emails -> Account]
    BY <1>1, <2>2 DEF TablesFine, Account
  <2>4. ASSUME NEW x \in Emails
        PROVE  /\ account'[x].password = account[x].password
               /\ Exists(x)' <=> Exists(x)
    BY <1>1, <2>1, <2>2 DEF TablesFine, Account, Exists
  <2> QED
    BY <1>1, <2>2, <2>3, <2>4 DEF TablesFine, PasswordsKnown, InsertsCounted,
                                  OneRegistration, SessionsEarned, history
<1> QED  BY <1>2, <1>3, <1>4, <1>5, <1>6, WhoWritesAccounts DEF AccountWriters

-----------------------------------------------------------------------------
(* The mails *)

\* A queue.add fills in a link that was not used, with the handler's address.
LEMMA LinksStayFine ==
    ASSUME AccountsInv, [Next]_vars
    PROVE  link' \in [Links -> LinkMail] /\ MailsAddressed'
<1> USE DEF MailsAddressed
<1>1. link \in [Links -> LinkMail] /\ MailsAddressed
  BY DEF AccountsInv, TypeOK
<1>2. ASSUME NEW r \in Requests, NEW kind \in {"verify", "reset"},
             Queue(r, kind), ~At(r, "idle")
      PROVE  link' \in [Links -> LinkMail] /\ MailsAddressed'
  <2>1. req[r].email \in Emails /\ req[r].signedAt \in Nat
    BY <1>2 DEF AccountsInv, Knows, At, TypeOK, Handler
  <2> QED  BY <1>1, <1>2, <2>1 DEF Queue, LinkMail
<1>3. ASSUME NEW l \in Links, NEW kind, Deliver(l, kind)
      PROVE  link' \in [Links -> LinkMail] /\ MailsAddressed'
  BY <1>1, <1>3 DEF Deliver, LinkMail
<1> QED
  BY <1>1, <1>2, <1>3, WhoWritesLinks DEF QueueVerification, QueueReset, At

\* The notices after a step are counts, and each was led to by a link.
LEMMA NoticesStayLed ==
    ASSUME AccountsInv, [Next]_vars
    PROVE  /\ welcome' \in [Emails -> Nat]
           /\ notice' \in [Emails -> [welcome : Nat, changed : Nat]]
           /\ LedByMail'
<1> DEFINE Led(e, kind) == \E l \in Links : Opened(l, kind) /\ link[l].email = e
           Tally == [welcome : Nat, changed : Nat]
           Typed == /\ welcome' \in [Emails -> Nat]
                    /\ notice' \in [Emails -> Tally]
<1>1. /\ TypeOK
      /\ welcome \in [Emails -> Nat] /\ notice \in [Emails -> Tally]
  BY DEF AccountsInv, TypeOK
<1>2. ASSUME NEW e \in Emails, NEW kind, Led(e, kind)
      PROVE  Led(e, kind)'
  BY <1>1, <1>2, LinksStayOpened DEF Opened
<1>3. ASSUME NEW r \in Requests, SetVerified(r) \/ QueueWelcome(r)
      PROVE  Led(req[r].email, "verify")
  BY <1>3 DEF AccountsInv, Knows, SetVerified, QueueWelcome, At, VerifyingSteps
<1>4. ASSUME NEW r \in Requests, QueueChanged(r)
      PROVE  Led(req[r].email, "reset")
  BY <1>4 DEF AccountsInv, Knows, QueueChanged, At, ResettingSteps
<1>5. ASSUME NEW e \in Emails, account'[e].state = "verified"
      PROVE  Led(e, "verify")'
  <2>1. CASE account[e].state = "verified"
    <3>1. Led(e, "verify")
      BY <2>1 DEF AccountsInv, LedByMail
    <3> QED  BY <1>2, <3>1
  <2>2. CASE account[e].state # "verified"
    <3>1. PICK r \in Requests : SetVerified(r) /\ req[r].email = e
      <4>1. ASSUME NEW r \in Requests, InsertUser(r) PROVE FALSE
        BY <1>1, <1>5, <2>2, <4>1 DEF InsertUser, TypeOK
      <4>2. ASSUME NEW r \in Requests, CheckPassword(r) \/ UpdatePassword(r)
            PROVE  FALSE
        BY <1>1, <1>5, <2>2, <4>2
           DEF CheckPassword, UpdatePassword, TypeOK, Account
      <4>3. PICK r \in Requests : SetVerified(r)
        BY <1>5, <2>2, <4>1, <4>2, WhoWritesAccounts DEF AccountWriters
      <4> QED
        BY <1>1, <1>5, <2>2, <4>3 DEF SetVerified, TypeOK, Account
    <3>2. Led(e, "verify")
      BY <1>3, <3>1
    <3> QED  BY <1>2, <3>2
  <2> QED  BY <2>1, <2>2
<1>6. ASSUME NEW r \in Requests, QueueWelcome(r)
      PROVE  /\ Typed
             /\ account'[req[r].email].state = "verified"
             /\ \A e \in Emails :
                   /\ notice'[e].changed = notice[e].changed
                   /\ e # req[r].email =>
                         notice'[e].welcome = notice[e].welcome
  <2>1. PICK x \in Emails : x = req[r].email /\ account[x].state = "verified"
    BY <1>6 DEF AccountsInv, Knows, QueueWelcome, At
  <2>2. /\ welcome' = [welcome EXCEPT ![x] = @ + 1]
        /\ notice' = [notice EXCEPT ![x].welcome = @ + 1]
        /\ account' = account
    BY <1>6, <2>1 DEF QueueWelcome
  <2> QED  BY <1>1, <2>1, <2>2
<1>7. ASSUME NEW r \in Requests, QueueChanged(r)
      PROVE  /\ Typed
             /\ \A e \in Emails :
                   /\ notice'[e].welcome = notice[e].welcome
                   /\ e # req[r].email =>
                         notice'[e].changed = notice[e].changed
  <2>1. PICK x \in Emails : x = req[r].email
    BY <1>7 DEF AccountsInv, Knows, QueueChanged, At
  <2>2. /\ notice' = [notice EXCEPT ![x].changed = @ + 1]
        /\ welcome' = welcome
    BY <1>7, <2>1 DEF QueueChanged
  <2> QED  BY <1>1, <2>1, <2>2
<1>8. ASSUME NEW x \in Emails, EndNotice(x, "welcome") \/ EndNotice(x, "changed")
      PROVE  /\ Typed
             /\ \A e \in Emails : /\ notice'[e].welcome <= notice[e].welcome
                                  /\ notice'[e].changed <= notice[e].changed
  BY <1>1, <1>8 DEF EndNotice
<1>9. Typed
  BY <1>1, <1>6, <1>7, <1>8, WhoWritesNotices
<1>10. ASSUME NEW e \in Emails, notice'[e].welcome > 0
       PROVE  account'[e].state = "verified"
  <2>1. CASE notice[e].welcome > 0
    BY <1>1, <2>1, AccountsAreKept DEF AccountsInv, LedByMail
  <2>2. CASE ~(notice[e].welcome > 0)
    <3>1. notice[e].welcome = 0
      BY <1>1, <2>2
    <3>2. ASSUME NEW r \in Requests, QueueChanged(r) PROVE FALSE
      BY <1>7, <1>10, <2>2, <3>2
    <3>3. ASSUME NEW x \in Emails,
                 EndNotice(x, "welcome") \/ EndNotice(x, "changed")
          PROVE  FALSE
      BY <1>8, <1>9, <1>10, <3>1, <3>3
    <3>4. PICK r \in Requests : QueueWelcome(r)
      BY <1>10, <2>2, <3>2, <3>3, WhoWritesNotices
    <3>5. e = req[r].email
      BY <1>6, <1>10, <2>2, <3>4
    <3> QED  BY <1>6, <3>4, <3>5
  <2> QED  BY <2>1, <2>2
<1>11. ASSUME NEW e \in Emails, notice'[e].changed > 0
       PROVE  Led(e, "reset")'
  <2>1. CASE notice[e].changed > 0
    <3>1. Led(e, "reset")
      BY <2>1 DEF AccountsInv, LedByMail
    <3> QED  BY <1>2, <3>1
  <2>2. CASE ~(notice[e].changed > 0)
    <3>1. notice[e].changed = 0
      BY <1>1, <2>2
    <3>2. ASSUME NEW r \in Requests, QueueWelcome(r) PROVE FALSE
      BY <1>6, <1>11, <2>2, <3>2
    <3>3. ASSUME NEW x \in Emails,
                 EndNotice(x, "welcome") \/ EndNotice(x, "changed")
          PROVE  FALSE
      BY <1>8, <1>9, <1>11, <3>1, <3>3
    <3>4. PICK r \in Requests : QueueChanged(r)
      BY <1>11, <2>2, <3>2, <3>3, WhoWritesNotices
    <3>5. e = req[r].email
      BY <1>7, <1>11, <2>2, <3>4
    <3>6. Led(e, "reset")
      BY <1>4, <3>4, <3>5
    <3> QED  BY <1>2, <3>6
  <2> QED  BY <2>1, <2>2
<1>12. LedByMail'
  BY <1>5, <1>10, <1>11 DEF LedByMail
<1> QED  BY <1>9, <1>12

-----------------------------------------------------------------------------
(* The handlers *)

AllKnow == /\ req' \in [Requests -> Handler]
           /\ \A q \in Requests : Knows(req[q])'

\* A handler that goes on to a step that needs no more than it knows.
LEMMA GoingOnIsKnowing ==
    ASSUME AccountsInv, [Next]_vars, NEW r \in Requests,
           NEW h \in Handler, req' = [req EXCEPT ![r] = h],
           req[r].pc # "idle", h.pc # "idle",
           h.email = req[r].email, h.link = req[r].link,
           h.pc \in PasswordSteps =>
               h.password = req[r].password /\ req[r].pc \in PasswordSteps,
           h.pc = "checkPassword" => h.saw \in known'[h.email],
           h.pc \in ResettingSteps => req[r].pc \in ResettingSteps,
           h.pc = "updatePassword" => Usable(h.link, ResetTTL),
           h.pc \in VerifyingSteps => req[r].pc \in VerifyingSteps,
           h.pc = "setVerified" => Exists(h.email),
           h.pc = "queueWelcome" => account'[h.email].state = "verified"
    PROVE  AllKnow
<1>1. TypeOK /\ Knows(req[r])
  BY DEF AccountsInv
<1>2. clock' = clock
  BY HandlersTakeNoTime DEF Tick, At
<1>3. ASSUME h.pc \in ResettingSteps \cup VerifyingSteps
      PROVE  link'[h.link] = link[h.link]
  BY <1>1, <1>3, LinksStayOpened DEF Knows, Opened
<1>4. h.email \in Emails
  BY <1>1 DEF Knows
<1>5. h.pc = "setVerified" => Exists(h.email)'
  BY <1>1, <1>4, AccountsAreKept
<1>6. h.pc = "updatePassword" => h.pc \in ResettingSteps
  BY DEF ResettingSteps
<1>7. Knows(h)'
  BY <1>1, <1>2, <1>3, <1>4, <1>5, <1>6 DEF Knows, Opened, Usable
<1> QED  BY <1>7, OneHandlerMoves DEF AllKnow

\* Every step leaves the handlers typed and knowing what they must.
LEMMA HandlersStayKnowing ==
    ASSUME AccountsInv, [Next]_vars
    PROVE  AllKnow
<1> USE DEF PasswordSteps, ResettingSteps, VerifyingSteps
<1>1. /\ TypeOK /\ \A r \in Requests : Knows(req[r])
      /\ req \in [Requests -> Handler]
  BY DEF AccountsInv, TypeOK
<1>2. ASSUME NEW r \in Requests, Answer(r) PROVE AllKnow
  BY <1>2, AnsweringIsEasy DEF AllKnow
<1>3. ASSUME req' = req PROVE AllKnow
  BY <1>3, NobodyMoves DEF AllKnow
<1>4. ASSUME NEW r \in Requests, NEW e \in Emails, NEW pw \in Passwords,
             Register(r, e, pw) \/ Login(r, e, pw)
      PROVE  AllKnow
  BY <1>4, ArrivingIsKnowing DEF Register, Login, AllKnow, Steps
<1>5. ASSUME NEW r \in Requests, NEW e \in Emails,
             ForgotPassword(r, e) \/ ResendVerificationEmail(r, e)
      PROVE  AllKnow
  BY <1>5, ArrivingIsKnowing
     DEF ForgotPassword, ResendVerificationEmail, AllKnow, Steps
<1>6. ASSUME NEW r \in Requests, NEW l \in Links, VerifyEmail(r, l)
      PROVE  AllKnow
  <2>1. link[l].email \in Emails
    BY <1>6 DEF VerifyEmail, Opened, AccountsInv, MailsAddressed
  <2> QED
    BY <1>6, <2>1, ArrivingIsKnowing DEF VerifyEmail, AllKnow, Steps
<1>7. ASSUME NEW r \in Requests, NEW l \in Links, NEW pw \in Passwords,
             ResetPassword(r, l, pw)
      PROVE  AllKnow
  <2>1. link[l].email \in Emails
    BY <1>7 DEF ResetPassword, Opened, AccountsInv, MailsAddressed
  <2> QED
    BY <1>7, <2>1, ArrivingIsKnowing DEF ResetPassword, AllKnow, Steps
<1>8. ASSUME NEW r \in Requests, FindExisting(r) PROVE AllKnow
  <2>1. CASE Answer(r)
    BY <1>2, <2>1
  <2>2. CASE Goto(r, "insertUser")
    <3>1. PICK h : h = [req[r] EXCEPT !.pc = "insertUser"]
      OBVIOUS
    <3>2. h \in Handler /\ req' = [req EXCEPT ![r] = h]
      BY <1>1, <2>2, <3>1 DEF Handler, Steps, Goto
    <3> QED
      BY <1>1, <1>8, <3>1, <3>2, GoingOnIsKnowing DEF FindExisting, At, Handler
  <2> QED  BY <1>8, <2>1, <2>2 DEF FindExisting
<1>9. ASSUME NEW r \in Requests, InsertUser(r) \/ FindForReset(r)
                                     \/ FindForResend(r)
      PROVE  AllKnow
  <2>1. CASE Answer(r)
    BY <1>2, <2>1
  <2>2. ASSUME NEW pc \in {"queueVerification", "queueReset"},
               req' = [req EXCEPT ![r].pc = pc, ![r].signedAt = clock]
        PROVE  AllKnow
    <3>1. PICK h : h = [req[r] EXCEPT !.pc = pc, !.signedAt = clock]
      OBVIOUS
    <3>2. clock \in Nat
      BY <1>1, LifetimesAreNatural DEF TypeOK
    <3>3. h \in Handler /\ req' = [req EXCEPT ![r] = h]
      BY <1>1, <2>2, <3>1, <3>2 DEF Handler, Steps
    <3>4. /\ h.pc = pc /\ h.email = req[r].email /\ h.link = req[r].link
          /\ req[r].pc # "idle"
      BY <1>1, <1>9, <3>1
         DEF InsertUser, FindForReset, FindForResend, At, Handler
    <3> QED  BY <3>3, <3>4, GoingOnIsKnowing
  <2> QED  BY <1>9, <2>1, <2>2 DEF InsertUser, FindForReset, FindForResend
<1>10. ASSUME NEW r \in Requests, FindUser(r) PROVE AllKnow
  <2>1. CASE ~Exists(req[r].email)
    BY <1>2, <1>10, <2>1 DEF FindUser
  <2>2. CASE Exists(req[r].email)
    <3>1. PICK e, pw : /\ e \in Emails /\ e = req[r].email
                       /\ pw = account[e].password
      BY <1>1, <1>10 DEF FindUser, At, Knows
    <3>2. pw \in known[e] /\ pw \in Passwords /\ known' = known
      BY <1>1, <1>10, <2>2, <3>1
         DEF AccountsInv, PasswordsKnown, TypeOK, FindUser, history
    <3>3. PICK h : h = [req[r] EXCEPT !.pc = "checkPassword", !.saw = pw]
      OBVIOUS
    <3>4. h \in Handler /\ req' = [req EXCEPT ![r] = h]
      <4>1. req' = [req EXCEPT ![r].pc = "checkPassword", ![r].saw = pw]
        BY <1>10, <2>2, <3>1 DEF FindUser
      <4> QED  BY <1>1, <3>2, <3>3, <4>1 DEF Handler, Steps
    <3>5. /\ h.pc = "checkPassword" /\ h.email = e /\ h.saw = pw
          /\ h.link = req[r].link /\ h.password = req[r].password
          /\ req[r].pc = "findUser"
      BY <1>1, <1>10, <3>1, <3>3 DEF FindUser, At, Handler
    <3> QED  BY <3>1, <3>2, <3>4, <3>5, GoingOnIsKnowing
  <2> QED  BY <2>1, <2>2
<1>11. ASSUME NEW r \in Requests, ReadReset(r) PROVE AllKnow
  <2>1. CASE Answer(r)
    BY <1>2, <2>1
  <2>2. CASE Usable(req[r].link, ResetTTL) /\ Goto(r, "updatePassword")
    <3>1. PICK h : h = [req[r] EXCEPT !.pc = "updatePassword"]
      OBVIOUS
    <3>2. h \in Handler /\ req' = [req EXCEPT ![r] = h]
      BY <1>1, <2>2, <3>1 DEF Handler, Steps, Goto
    <3>3. /\ h.pc = "updatePassword" /\ h.email = req[r].email
          /\ h.link = req[r].link /\ h.password = req[r].password
          /\ req[r].pc = "readReset"
      BY <1>1, <1>11, <3>1 DEF ReadReset, At, Handler
    <3> QED  BY <2>2, <3>2, <3>3, GoingOnIsKnowing
  <2> QED  BY <1>11, <2>1, <2>2 DEF ReadReset
<1>12. ASSUME NEW r \in Requests, UpdatePassword(r) PROVE AllKnow
  <2>1. PICK h : h = [req[r] EXCEPT !.pc = "queueChanged"]
    OBVIOUS
  <2>2. h \in Handler /\ req' = [req EXCEPT ![r] = h]
    BY <1>1, <1>12, <2>1 DEF Handler, Steps, UpdatePassword, Goto
  <2>3. /\ h.pc = "queueChanged" /\ h.email = req[r].email
        /\ h.link = req[r].link /\ h.password = req[r].password
        /\ req[r].pc = "updatePassword"
    BY <1>1, <1>12, <2>1 DEF UpdatePassword, At, Handler
  <2> QED  BY <2>2, <2>3, GoingOnIsKnowing
<1>13. ASSUME NEW r \in Requests, ReadVerify(r) PROVE AllKnow
  <2>1. CASE Answer(r)
    BY <1>2, <2>1
  <2>2. CASE Exists(req[r].email) /\ Goto(r, "setVerified")
    <3>1. PICK h : h = [req[r] EXCEPT !.pc = "setVerified"]
      OBVIOUS
    <3>2. h \in Handler /\ req' = [req EXCEPT ![r] = h]
      BY <1>1, <2>2, <3>1 DEF Handler, Steps, Goto
    <3>3. /\ h.pc = "setVerified" /\ h.email = req[r].email
          /\ h.link = req[r].link /\ req[r].pc = "readVerify"
      BY <1>1, <1>13, <3>1 DEF ReadVerify, At, Handler
    <3> QED  BY <2>2, <3>2, <3>3, GoingOnIsKnowing
  <2> QED  BY <1>13, <2>1, <2>2 DEF ReadVerify, Exists
<1>14. ASSUME NEW r \in Requests, SetVerified(r) PROVE AllKnow
  <2>1. PICK h : h = [req[r] EXCEPT !.pc = "queueWelcome"]
    OBVIOUS
  <2>2. h \in Handler /\ req' = [req EXCEPT ![r] = h]
    BY <1>1, <1>14, <2>1 DEF Handler, Steps, SetVerified, Goto
  <2>3. /\ h.pc = "queueWelcome" /\ h.email = req[r].email
        /\ h.link = req[r].link /\ req[r].pc = "setVerified"
    BY <1>1, <1>14, <2>1 DEF SetVerified, At, Handler
  <2>4. account'[h.email].state = "verified"
    <3>1. PICK e \in Emails : e = req[r].email
      BY <1>1, <2>3 DEF Knows
    <3> QED  BY <1>1, <1>14, <2>3, <3>1 DEF SetVerified, TypeOK, Account
  <2> QED  BY <2>2, <2>3, <2>4, GoingOnIsKnowing
<1> HIDE DEF PasswordSteps, ResettingSteps, VerifyingSteps
<1>15. ASSUME NEW r \in Requests, HandlerStep(r) \/ Fail(r) PROVE AllKnow
  <2>1. CASE QueueVerification(r) \/ CheckPassword(r) \/ QueueReset(r)
                \/ QueueChanged(r) \/ QueueWelcome(r) \/ Fail(r)
    BY <1>2, <2>1 DEF QueueVerification, CheckPassword, QueueReset,
                      QueueChanged, QueueWelcome, Fail
  <2> QED
    BY <1>8, <1>9, <1>10, <1>11, <1>12, <1>13, <1>14, <1>15, <2>1
       DEF HandlerStep
<1>16. CASE Arrival
  BY <1>4, <1>5, <1>6, <1>7, <1>16 DEF Arrival
<1>17. CASE \/ \E l \in Links : DeliverVerification(l) \/ DeliverReset(l)
            \/ \E e \in Emails : DeliverWelcome(e) \/ DeliverChanged(e)
            \/ Tick \/ UNCHANGED vars
  BY <1>3, <1>17 DEF DeliverVerification, DeliverReset, Deliver, DeliverWelcome,
                     DeliverChanged, EndNotice, Tick, vars
<1> QED  BY <1>15, <1>16, <1>17 DEF Next, SmoothNext

-----------------------------------------------------------------------------
(* The invariant *)

\* At first there is neither an account nor a handler.
LEMMA InitInv == Init => AccountsInv
<1> SUFFICES ASSUME Init PROVE AccountsInv
  OBVIOUS
<1>1. TypeOK
  BY LifetimesAreNatural
     DEF Init, TypeOK, Account, LinkMail, Handler, IdleHandler
<1>2. /\ PasswordsKnown /\ InsertsCounted /\ MailsAddressed
      /\ OneRegistration /\ SessionsEarned
  BY DEF Init, PasswordsKnown, InsertsCounted, MailsAddressed, OneRegistration,
         SessionsEarned, Exists
<1>3. LedByMail
  BY DEF Init, LedByMail
<1>4. \A r \in Requests : Knows(req[r])
  BY DEF Init, Knows, IdleHandler, PasswordSteps, ResettingSteps, VerifyingSteps
<1> QED  BY <1>1, <1>2, <1>3, <1>4 DEF AccountsInv

\* No interleaving of registrations, logins, resets, verifications, mails and
\* failures breaks the invariant.
THEOREM AccountsInvariant == Spec => []AccountsInv
<1>1. ASSUME AccountsInv, [Next]_vars PROVE AccountsInv'
  <2>1. clock \in 0..MaxTime /\ MaxTime \in Nat
    BY <1>1, LifetimesAreNatural DEF AccountsInv, TypeOK
  <2>2. clock' \in 0..MaxTime
    BY <1>1, <2>1, HandlersTakeNoTime DEF Tick
  <2> QED
    BY <1>1, <2>2, TablesStayFine, LinksStayFine, NoticesStayLed,
       HandlersStayKnowing
       DEF AccountsInv, TypeOK, TablesFine, AllKnow
<1> QED  BY InitInv, <1>1, PTL DEF Spec

-----------------------------------------------------------------------------
(* What follows from it *)

\* Every state of the module is well-typed.
THEOREM TypeCorrect == Spec => []TypeOK
<1>1. AccountsInv => TypeOK
  BY DEF AccountsInv
<1> QED  BY <1>1, AccountsInvariant, PTL

\* However many registrations of an address race, one inserts its account.
THEOREM RegisteredOnce == Spec => []OneRegistration
<1>1. AccountsInv => OneRegistration
  BY DEF AccountsInv
<1> QED  BY <1>1, AccountsInvariant, PTL

\* Tokens go only to who gave a password that was the account's.
THEOREM TokensAreEarned == Spec => []SessionsEarned
<1>1. AccountsInv => SessionsEarned
  BY DEF AccountsInv
<1> QED  BY <1>1, AccountsInvariant, PTL

\* No address is verified, welcomed or told of a new password without the link
\* of a mail that reached it.
THEOREM LinksLeadTheWay == Spec => []LedByMail
<1>1. AccountsInv => LedByMail
  BY DEF AccountsInv
<1> QED  BY <1>1, AccountsInvariant, PTL

\* Passwords change only while a reset link of the address lives: the one that
\* the handler read, since handlers take no time.
THEOREM ResetsAreTimely == Spec => ResetLivesADay
<1> DEFINE Timely ==
        \A e \in Emails :
          Exists(e) /\ account'[e].password # account[e].password =>
              \E l \in Links : /\ Opened(l, "reset") /\ link[l].email = e
                               /\ clock <= link[l].signedAt + ResetTTL
<1>1. ASSUME AccountsInv, [Next]_vars, NEW e \in Emails, Exists(e),
             account'[e].password # account[e].password
      PROVE  \E l \in Links : /\ Opened(l, "reset") /\ link[l].email = e
                              /\ clock <= link[l].signedAt + ResetTTL
  <2>1. account \in [Emails -> Account] /\ link \in [Links -> LinkMail]
    BY <1>1 DEF AccountsInv, TypeOK
  <2>2. ASSUME NEW r \in Requests, InsertUser(r) PROVE FALSE
    BY <1>1, <2>1, <2>2 DEF InsertUser, Exists
  <2>3. ASSUME NEW r \in Requests, CheckPassword(r) \/ SetVerified(r)
        PROVE  FALSE
    BY <1>1, <2>1, <2>3 DEF CheckPassword, SetVerified, Account
  <2>4. PICK r \in Requests : UpdatePassword(r)
    BY <1>1, <2>2, <2>3, WhoWritesAccounts DEF AccountWriters
  <2>5. req[r].email = e
    BY <1>1, <2>1, <2>4 DEF UpdatePassword, Account
  <2>6. PICK l \in Links : /\ l = req[r].link /\ Opened(l, "reset")
                           /\ link[l].email = e /\ Usable(l, ResetTTL)
    BY <1>1, <2>4, <2>5
       DEF AccountsInv, Knows, UpdatePassword, At, ResettingSteps
  <2>7. clock \in Nat /\ link[l].signedAt \in Nat /\ ResetTTL \in Nat
    BY <1>1, <2>1, LifetimesAreNatural DEF AccountsInv, TypeOK, LinkMail
  <2> QED  BY <2>6, <2>7 DEF Usable
<1>2. AccountsInv /\ [Next]_vars => [Timely]_vars
  BY <1>1
<1>3. ResetLivesADay <=> [][Timely]_vars
  BY DEF ResetLivesADay
<1> HIDE DEF Timely
<1> QED  BY <1>2, <1>3, AccountsInvariant, PTL DEF Spec

-----------------------------------------------------------------------------
(* The welcomes *)

\* The verifications of an address that are under way are finitely many.
LEMMA WelcomersAreFew ==
    ASSUME NEW e \in Emails
    PROVE  /\ IsFiniteSet(Welcomers(e)) /\ Cardinality(Welcomers(e)) \in Nat
           /\ Cardinality(Welcomers(e)) <= Cardinality(Requests)
           /\ Welcomers(e)' \subseteq Requests
           /\ IsFiniteSet(Welcomers(e)') /\ Cardinality(Welcomers(e)') \in Nat
           /\ Cardinality(Welcomers(e)') <= Cardinality(Requests)
           /\ Cardinality(Requests) \in Nat
<1>1. Welcomers(e) \subseteq Requests /\ Welcomers(e)' \subseteq Requests
  BY DEF Welcomers
<1> QED  BY <1>1, FewRequests, FS_Subset, FS_CardinalityType

\* Only a handler that reads its account unverified sets out to verify it, and
\* only that one comes to welcome.
LEMMA WhoSetsOut ==
    ASSUME TypeOK, [Next]_vars, NEW q \in Requests,
           req'[q].pc \in {"setVerified", "queueWelcome"}
    PROVE  \/ req'[q] = req[q]
           \/ /\ SetVerified(q) \/ ReadVerify(q)
              /\ req'[q].email = req[q].email
              /\ ReadVerify(q) => account[req[q].email].state = "unverified"
<1> DEFINE Stays == req'[q] = req[q]
           Early(h) == h.pc \notin {"setVerified", "queueWelcome"}
<1>1. req \in [Requests -> Handler]
  BY DEF TypeOK
<1>2. ASSUME NEW r \in Requests, NEW h, Early(h), req' = [req EXCEPT ![r] = h]
      PROVE  Stays
  BY <1>1, <1>2
<1>3. ASSUME NEW r \in Requests, Answer(r) PROVE Stays
  BY <1>2, <1>3 DEF Answer, IdleHandler
<1>4. ASSUME NEW r \in Requests, NEW pc, Goto(r, pc),
             pc \notin {"setVerified", "queueWelcome"}
      PROVE  Stays
  <2>1. PICK h : h = [req[r] EXCEPT !.pc = pc]
    OBVIOUS
  <2>2. h.pc = pc /\ req' = [req EXCEPT ![r] = h]
    BY <1>1, <1>4, <2>1 DEF Goto, Handler
  <2> QED  BY <1>2, <1>4, <2>2
<1>5. ASSUME NEW r \in Requests, NEW pc, NEW e, NEW pw, NEW l,
             Arrive(r, pc, e, pw, l), pc \notin {"setVerified", "queueWelcome"}
      PROVE  Stays
  <2>1. PICK h : h = [IdleHandler EXCEPT !.pc = pc, !.email = e,
                                         !.password = pw, !.link = l]
    OBVIOUS
  <2>2. h.pc = pc /\ req' = [req EXCEPT ![r] = h]
    BY <1>5, <2>1 DEF Arrive, IdleHandler
  <2> QED  BY <1>2, <1>5, <2>2
<1>6. ASSUME NEW r \in Requests, NEW pc,
             pc \notin {"setVerified", "queueWelcome"},
             req' = [req EXCEPT ![r].pc = pc, ![r].signedAt = clock]
      PROVE  Stays
  <2>1. PICK h : h = [req[r] EXCEPT !.pc = pc, !.signedAt = clock]
    OBVIOUS
  <2>2. h.pc = pc /\ req' = [req EXCEPT ![r] = h]
    BY <1>1, <1>6, <2>1 DEF Handler
  <2> QED  BY <1>2, <1>6, <2>2
<1>7. ASSUME NEW r \in Requests, FindUser(r) PROVE Stays
  <2>1. CASE Answer(r)
    BY <1>3, <2>1
  <2>2. CASE req' = [req EXCEPT ![r].pc = "checkPassword",
                                ![r].saw = account[req[r].email].password]
    <3>1. PICK h : h = [req[r] EXCEPT !.pc = "checkPassword",
                           !.saw = account[req[r].email].password]
      OBVIOUS
    <3>2. h.pc = "checkPassword" /\ req' = [req EXCEPT ![r] = h]
      BY <1>1, <2>2, <3>1 DEF Handler
    <3> QED  BY <1>2, <3>2
  <2> QED  BY <1>7, <2>1, <2>2 DEF FindUser
<1>8. ASSUME NEW r \in Requests, ReadVerify(r) \/ SetVerified(r)
      PROVE  \/ Stays
             \/ /\ SetVerified(q) \/ ReadVerify(q)
                /\ req'[q].email = req[q].email
                /\ ReadVerify(q) => account[req[q].email].state = "unverified"
  <2>1. CASE q # r
    BY <1>1, <1>8, <2>1 DEF ReadVerify, SetVerified, Answer, Goto
  <2>2. CASE q = r /\ Answer(r)
    BY <1>3, <2>2
  <2>3. ASSUME q = r, ~Answer(r),
               Goto(r, "setVerified") \/ Goto(r, "queueWelcome")
        PROVE  req'[q].email = req[q].email
    BY <1>1, <2>3 DEF Goto, Handler
  <2> QED  BY <1>8, <2>1, <2>2, <2>3 DEF ReadVerify, SetVerified, At
<1>9. ASSUME NEW r \in Requests, HandlerStep(r) \/ Fail(r),
             ~ReadVerify(r), ~SetVerified(r)
      PROVE  Stays
  <2>1. CASE QueueVerification(r) \/ CheckPassword(r) \/ QueueReset(r)
                \/ QueueChanged(r) \/ QueueWelcome(r) \/ Fail(r)
    BY <1>3, <2>1 DEF QueueVerification, CheckPassword, QueueReset,
                      QueueChanged, QueueWelcome, Fail
  <2>2. CASE FindExisting(r) \/ ReadReset(r) \/ UpdatePassword(r)
    BY <1>3, <1>4, <2>2 DEF FindExisting, ReadReset, UpdatePassword
  <2>3. CASE InsertUser(r) \/ FindForReset(r) \/ FindForResend(r)
    BY <1>3, <1>6, <2>3 DEF InsertUser, FindForReset, FindForResend
  <2> QED  BY <1>7, <1>9, <2>1, <2>2, <2>3 DEF HandlerStep
<1>10. CASE Arrival
  BY <1>5, <1>10 DEF Arrival, Register, Login, ForgotPassword, ResetPassword,
                     ResendVerificationEmail, VerifyEmail
<1>11. CASE \/ \E l \in Links : DeliverVerification(l) \/ DeliverReset(l)
            \/ \E e \in Emails : DeliverWelcome(e) \/ DeliverChanged(e)
            \/ Tick \/ UNCHANGED vars
  BY <1>11 DEF DeliverVerification, DeliverReset, Deliver, DeliverWelcome,
               DeliverChanged, EndNotice, Tick, vars
<1> QED  BY <1>8, <1>9, <1>10, <1>11 DEF Next, SmoothNext

\* Once an address is verified nobody sets out any more.
LEMMA NoNewWelcomers ==
    ASSUME TypeOK, [Next]_vars, NEW e \in Emails,
           account[e].state = "verified"
    PROVE  Welcomers(e)' \subseteq Welcomers(e)
<1>1. ASSUME NEW q \in Requests, req'[q].email = e,
             req'[q].pc \in {"setVerified", "queueWelcome"}
      PROVE  q \in Welcomers(e)
  <2>1. CASE req'[q] = req[q]
    BY <1>1, <2>1 DEF Welcomers
  <2>2. CASE SetVerified(q) /\ req'[q].email = req[q].email
    BY <1>1, <2>2 DEF SetVerified, At, Welcomers
  <2> QED  BY <1>1, <2>1, <2>2, WhoSetsOut
<1> QED  BY <1>1 DEF Welcomers

\* A welcome is sent by one of them, who is then through, to a verified address.
LEMMA WelcomingIsLeaving ==
    ASSUME AccountsInv, [Next]_vars, NEW e \in Emails,
           welcome'[e] # welcome[e]
    PROVE  /\ account[e].state = "verified"
           /\ welcome'[e] = welcome[e] + 1
           /\ \E r \in Welcomers(e) : Welcomers(e)' \subseteq Welcomers(e) \ {r}
<1>1. TypeOK /\ welcome \in [Emails -> Nat] /\ req \in [Requests -> Handler]
  BY DEF AccountsInv, TypeOK
<1>2. PICK r \in Requests : QueueWelcome(r)
  BY <1>1, WhoWritesNotices DEF QueueChanged, EndNotice
<1>3. req[r].email = e /\ welcome'[e] = welcome[e] + 1
  BY <1>1, <1>2 DEF QueueWelcome
<1>4. account[e].state = "verified"
  BY <1>2, <1>3 DEF AccountsInv, Knows, QueueWelcome, At
<1>5. r \in Welcomers(e)
  BY <1>2, <1>3 DEF QueueWelcome, At, Welcomers
<1>6. r \notin Welcomers(e)'
  BY <1>1, <1>2 DEF QueueWelcome, Answer, IdleHandler, Welcomers
<1> QED  BY <1>1, <1>3, <1>4, <1>5, <1>6, NoNewWelcomers

\* Every step counts the welcomes right.
LEMMA WelcomesStayCounted ==
    ASSUME AccountsInv, WelcomesCounted, [Next]_vars
    PROVE  WelcomesCounted'
<1>1. TypeOK /\ welcome \in [Emails -> Nat]
  BY DEF AccountsInv, TypeOK
<1>2. ASSUME NEW e \in Emails
      PROVE  /\ account'[e].state # "verified" => welcome'[e] = 0
             /\ welcome'[e] + Cardinality(Welcomers(e)')
                    <= Cardinality(Requests)
  <2>1. PICK n, W, V : /\ n = Cardinality(Requests)
                       /\ W = Welcomers(e) /\ V = Welcomers(e)'
    OBVIOUS
  <2>2. /\ IsFiniteSet(W) /\ IsFiniteSet(V) /\ Cardinality(W) \in Nat
        /\ Cardinality(V) \in Nat /\ n \in Nat
        /\ Cardinality(W) <= n /\ Cardinality(V) <= n
    BY <2>1, WelcomersAreFew
  <2>3. /\ account[e].state # "verified" => welcome[e] = 0
        /\ welcome[e] + Cardinality(W) <= n
    BY <2>1 DEF WelcomesCounted
  <2>4. CASE account[e].state # "verified"
    <3>1. welcome'[e] = 0
      BY <2>3, <2>4, WelcomingIsLeaving
    <3> QED  BY <2>1, <2>2, <3>1
  <2>5. CASE account[e].state = "verified" /\ welcome'[e] = welcome[e]
    <3>1. V \subseteq W
      BY <1>1, <2>1, <2>5, NoNewWelcomers
    <3>2. Cardinality(V) <= Cardinality(W)
      BY <2>2, <3>1, FS_Subset
    <3>3. account'[e].state = "verified"
      BY <1>1, <2>5, AccountsAreKept
    <3> QED  BY <1>1, <2>1, <2>2, <2>3, <2>5, <3>2, <3>3
  <2>6. CASE welcome'[e] # welcome[e]
    <3>1. PICK r \in W : V \subseteq W \ {r}
      BY <2>1, <2>6, WelcomingIsLeaving
    <3>2. IsFiniteSet(W \ {r}) /\ Cardinality(W \ {r}) = Cardinality(W) - 1
      BY <2>2, <3>1, FS_RemoveElement
    <3>3. Cardinality(V) <= Cardinality(W) - 1
      BY <3>1, <3>2, FS_Subset
    <3>4. welcome'[e] = welcome[e] + 1 /\ account[e].state = "verified"
      BY <2>6, WelcomingIsLeaving
    <3>5. account'[e].state = "verified"
      BY <1>1, <3>4, AccountsAreKept
    <3> QED  BY <1>1, <2>1, <2>2, <2>3, <3>3, <3>4, <3>5
  <2> QED  BY <2>4, <2>5, <2>6
<1> QED  BY <1>2 DEF WelcomesCounted

\* However verifications of an address overlap, and however often its link is
\* opened again later, those that welcome are never more than the handlers that
\* can be in flight at once.
THEOREM OnlyOverlapsWelcome == Spec => []WelcomesOverlap
<1>1. Init => WelcomesCounted
  <2> SUFFICES ASSUME Init PROVE WelcomesCounted
    OBVIOUS
  <2>1. ASSUME NEW e \in Emails PROVE welcome[e] = 0
    BY DEF Init
  <2>2. ASSUME NEW e \in Emails
        PROVE  /\ Cardinality(Welcomers(e)) \in Nat
               /\ Cardinality(Welcomers(e)) <= Cardinality(Requests)
    BY WelcomersAreFew
  <2> QED  BY <2>1, <2>2 DEF WelcomesCounted
<1>2. AccountsInv /\ WelcomesCounted /\ [Next]_vars => WelcomesCounted'
  BY WelcomesStayCounted
<1>3. AccountsInv /\ WelcomesCounted => WelcomesOverlap
  <2> SUFFICES ASSUME AccountsInv, WelcomesCounted, NEW e \in Emails
               PROVE  welcome[e] + Cardinality({r \in Requests :
                              req[r].email = e /\ At(r, "queueWelcome")})
                          <= Cardinality(Requests)
    BY DEF WelcomesOverlap
  <2>1. PICK Q : Q = {r \in Requests :
                         req[r].email = e /\ At(r, "queueWelcome")}
    OBVIOUS
  <2>2. Q \subseteq Welcomers(e)
    BY <2>1 DEF Welcomers, At
  <2>3. Cardinality(Q) \in Nat /\ Cardinality(Q) <= Cardinality(Welcomers(e))
    BY <2>2, WelcomersAreFew, FS_Subset, FS_CardinalityType
  <2>4. welcome[e] \in Nat
    BY DEF AccountsInv, TypeOK
  <2>5. welcome[e] + Cardinality(Welcomers(e)) <= Cardinality(Requests)
    BY DEF WelcomesCounted
  <2> QED  BY <2>1, <2>3, <2>4, <2>5, WelcomersAreFew
<1> QED  BY <1>1, <1>2, <1>3, AccountsInvariant, PTL DEF Spec
=============================================================================
