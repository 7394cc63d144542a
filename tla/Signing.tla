------------------------------ MODULE Signing ------------------------------
(***************************************************************************)
(* What the two validator hosts promise together, without their gates,     *)
(* tokens, markers and procedures: at most one validator client runs; it   *)
(* knows everything that was ever signed from the moment it starts; and it *)
(* starts at the host that signed last, or after that host was released by *)
(* a hard fence.                                                           *)
(***************************************************************************)
EXTENDS Naturals

CONSTANTS Hosts, First

VARIABLES
  clients,   \* by host where a validator client runs: the last message it knows
  signed,    \* messages the validator has signed
  last,      \* the host that started signing last
  released   \* that host was powered off since

svars == <<clients, signed, last, released>>

Nobody == [h \in {} |-> 0]

Init == clients = Nobody /\ signed = 0 /\ last = First /\ released = FALSE

Take(h) ==
  /\ clients = Nobody
  /\ h = last \/ released
  /\ clients' = [g \in {h} |-> signed]
  /\ last' = h /\ released' = FALSE
  /\ UNCHANGED signed

Sign(h) ==
  /\ DOMAIN clients = {h}
  /\ signed' = signed + 1
  /\ clients' = [clients EXCEPT ![h] = signed + 1]
  /\ UNCHANGED <<last, released>>

Leave == clients' = Nobody /\ UNCHANGED <<signed, last, released>>

Release ==
  /\ clients = Nobody
  /\ released' = TRUE
  /\ UNCHANGED <<clients, signed, last>>

Next == (\E h \in Hosts : Take(h) \/ Sign(h)) \/ Leave \/ Release

Spec == Init /\ [][Next]_svars
=============================================================================
