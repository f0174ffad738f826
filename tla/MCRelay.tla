------------------------------ MODULE MCRelay ------------------------------
(* Instances of Relay for TLC. *)
EXTENDS Relay, TLC

\* Codes and downloads are interchangeable: used by the safety runs only.
Symmetry == Permutations(Codes) \cup Permutations(Downloads)
=============================================================================
