---------------------------- MODULE MCCertificates ----------------------------
(* A small instance of Certificates for TLC. *)
EXTENDS Certificates

CONSTANTS t1

OneTenant == [m \in Monitors |-> t1]
=============================================================================
