---------------------------- MODULE MCCertificates ----------------------------
(* Small instances of Certificates for TLC. *)
EXTENDS Certificates, TLC

\* Ids, users and slots are interchangeable; safety runs only.
Symmetry == Permutations(Users) \cup Permutations(Requests)
                \cup Permutations(CertIds) \cup Permutations(SeatIds)
=============================================================================
