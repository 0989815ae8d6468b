------------------------------ MODULE MCBilling ------------------------------
(* Small instances of Billing for TLC. *)
EXTENDS Billing, TLC

Symmetry == Permutations(Customers) \cup Permutations(Subs) \cup Permutations(Paid)
=============================================================================
