------------------------------ MODULE SeatLedger ------------------------------
(***************************************************************************)
(* What enrolling promises, whatever the handlers do in between: a seat is  *)
(* granted only to someone entitled to it, because the event was free to    *)
(* join or because this user's money was taken for this event. A seat goes  *)
(* only with its whole event.                                               *)
(***************************************************************************)
CONSTANTS Users, Events, SeatIds, None

VARIABLES
    held,      \* seat -> the user and event it is held for, or None
    charged,   \* pairs <<user, event>> a payment was taken for
    free       \* events that have been free to join

ledger == <<held, charged, free>>

Init ==
    /\ held = [s \in SeatIds |-> None]
    /\ charged = {}
    /\ free = {}

Charge(u, e) ==
    /\ charged' = charged \cup {<<u, e>>}
    /\ UNCHANGED <<held, free>>

OpenForFree(e) ==
    /\ free' = free \cup {e}
    /\ UNCHANGED <<held, charged>>

Grant(s, u, e) ==
    /\ held[s] = None
    /\ e \in free \/ <<u, e>> \in charged
    /\ held' = [held EXCEPT ![s] = <<u, e>>]
    /\ UNCHANGED <<charged, free>>

Withdraw(e) ==
    /\ held' = [s \in SeatIds |->
                   IF \E u \in Users : held[s] = <<u, e>> THEN None ELSE held[s]]
    /\ UNCHANGED <<charged, free>>

Next ==
    \/ \E u \in Users, e \in Events :
          \/ Charge(u, e)
          \/ \E s \in SeatIds : Grant(s, u, e)
    \/ \E e \in Events : OpenForFree(e) \/ Withdraw(e)

Spec == Init /\ [][Next]_ledger
=============================================================================
