----------------------------- MODULE MCVcLease -----------------------------
(* One host, two instants of the clock, tokens that expire now, later, not  *)
(* readably, or belong to another role.                                    *)
EXTENDS VcLease
=============================================================================
