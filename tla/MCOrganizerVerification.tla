----------------------- MODULE MCOrganizerVerification -----------------------
(* Small instances of OrganizerVerification for TLC. *)
EXTENDS OrganizerVerification, TLC

\* Names and slots are interchangeable; safety runs only.
Symmetry == Permutations(Members) \cup Permutations(Requests)
                \cup Permutations(Links) \cup Permutations(Orgs)
=============================================================================
