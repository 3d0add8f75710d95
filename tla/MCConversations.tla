---------------------------- MODULE MCConversations ----------------------------
(* Small instances of Conversations for TLC. *)
EXTENDS Conversations, TLC

\* Names and slots are interchangeable; safety runs only.
Symmetry == Permutations(Users) \cup Permutations(Members)
                \cup Permutations(Events) \cup Permutations(Seats)
                \cup Permutations(Sockets) \cup Permutations(Messages)
                \cup Permutations(Requests)
===============================================================================
