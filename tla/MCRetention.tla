---------------------------- MODULE MCRetention ----------------------------
(* A small instance of Retention for TLC. *)
EXTENDS Retention

CONSTANTS t1

OneTenant == [m \in Monitors |-> t1]
=============================================================================
