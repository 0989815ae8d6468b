----------------------------- MODULE MCAlerting -----------------------------
(* Small instances of Alerting for TLC. *)
EXTENDS Alerting, TLC

CONSTANTS t1, t2, c3

OneTenant == [x \in Monitors \cup Channels \cup Windows |-> t1]

\* The channel c3 belongs to the second tenant.
TwoTenants == [OneTenant EXCEPT ![c3] = t2]

IncidentSymmetry == Permutations(IncidentIds)
=============================================================================
