--------------------------- MODULE MCOrganizerAccess ---------------------------
(* Small instances of OrganizerAccess for TLC. *)
EXTENDS OrganizerAccess, TLC

\* Names and slots are interchangeable; safety runs only.
Symmetry == Permutations(Ids) \cup Permutations(Emails)
                \cup Permutations(Orgs) \cup Permutations(Passwords)
                \cup Permutations(Requests)
================================================================================
