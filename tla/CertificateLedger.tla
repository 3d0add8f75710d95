--------------------------- MODULE CertificateLedger ---------------------------
(***************************************************************************)
(* What issuing promises, however requests overlap: a certificate is given  *)
(* once to each attendee of an event that is over, it is never given to     *)
(* another, it goes only when it is withdrawn or with its whole event, and  *)
(* mails are sent only of certificates that were given.                     *)
(***************************************************************************)
EXTENDS Naturals

CONSTANTS Users, Events, CertIds

VARIABLES
    attends,   \* pairs <<user, event>> of those who hold a seat
    over,      \* events that have been completed
    given,     \* triples <<certificate, user, event>>: what is given to whom
    spent,     \* identifiers that were given at some time
    letters    \* certificate -> how many mails of it were taken

ledger == <<attends, over, given, spent, letters>>

Init ==
    /\ attends = {} /\ over = {} /\ given = {} /\ spent = {}
    /\ letters = [c \in CertIds |-> 0]

Attend(u, e) ==
    /\ attends' = attends \cup {<<u, e>>}
    /\ UNCHANGED <<over, given, spent, letters>>

Complete(e) ==
    /\ over' = over \cup {e}
    /\ UNCHANGED <<attends, given, spent, letters>>

Give(c, u, e) ==
    /\ c \notin spent
    /\ e \in over /\ <<u, e>> \in attends
    /\ \A g \in given : <<g[2], g[3]>> # <<u, e>>
    /\ given' = given \cup {<<c, u, e>>}
    /\ spent' = spent \cup {c}
    /\ UNCHANGED <<attends, over, letters>>

Withdraw(c) ==
    /\ given' = {g \in given : g[1] # c}
    /\ UNCHANGED <<attends, over, spent, letters>>

\* The event goes, with its attendees and all its certificates.
Erase(e) ==
    /\ attends' = {p \in attends : p[2] # e}
    /\ over' = over \ {e}
    /\ given' = {g \in given : g[3] # e}
    /\ UNCHANGED <<spent, letters>>

Deliver(c) ==
    /\ c \in spent
    /\ letters' = [letters EXCEPT ![c] = @ + 1]
    /\ UNCHANGED <<attends, over, given, spent>>

Next ==
    \/ \E e \in Events : Complete(e) \/ Erase(e)
    \/ \E u \in Users, e \in Events :
          Attend(u, e) \/ \E c \in CertIds : Give(c, u, e)
    \/ \E c \in CertIds : Withdraw(c) \/ Deliver(c)

Spec == Init /\ [][Next]_ledger
=============================================================================
