---------------------------- MODULE MCUserAccounts ----------------------------
(* Small instances of UserAccounts for TLC. *)
EXTENDS UserAccounts, TLC

\* Names and slots are interchangeable; safety runs only.
Symmetry == Permutations(Emails) \cup Permutations(Requests)
                \cup Permutations(Links) \cup Permutations(Passwords)
=============================================================================
