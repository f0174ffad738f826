------------------------------ MODULE MCTeams ------------------------------
(* Users, ids and requests are interchangeable. *)
EXTENDS Teams, TLC

Symmetry == Permutations(Users) \cup Permutations(Teams) \cup Permutations(Requests)

=============================================================================
