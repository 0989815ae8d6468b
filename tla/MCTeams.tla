------------------------------- MODULE MCTeams -------------------------------
(* Small instances of Teams for TLC. *)
EXTENDS Teams, TLC

\* A user is its address.
Own == [u \in Users |-> u]

Symmetry == Permutations(Users)
=============================================================================
