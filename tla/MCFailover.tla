----------------------------- MODULE MCFailover -----------------------------
(* Both hosts.  With one message a database is up to date or it is behind, *)
(* before and after a handover in either direction.                        *)
EXTENDS Failover
=============================================================================
