---------------------------- MODULE MCMonitoring ----------------------------
(* Small instances of Monitoring for TLC. *)
EXTENDS Monitoring, TLC

CONSTANTS t1, m1

OneTenant == [x \in Monitors \cup Channels \cup Windows |-> t1]
=============================================================================
