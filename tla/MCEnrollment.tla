----------------------------- MODULE MCEnrollment -----------------------------
(* Small instances of Enrollment for TLC. *)
EXTENDS Enrollment, TLC

\* Ids, users and slots are interchangeable; safety runs only.
Symmetry == Permutations(Users) \cup Permutations(Requests)
                \cup Permutations(PaymentIds) \cup Permutations(SeatIds)
=============================================================================
