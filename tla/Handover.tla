------------------------------ MODULE Handover ------------------------------
(***************************************************************************)
(* What the Active-Standby transition authority promises, without its      *)
(* gates, modes and leases: one site at a time has signing authority,      *)
(* authority changes sides only through a moment at which nobody has it,   *)
(* nobody gets it before the whole checklist of that direction is on       *)
(* record, a handover whose retry window closed is not completed, and one  *)
(* that was abandoned leaves nobody in charge for good.                    *)
(***************************************************************************)
EXTENDS Integers

CONSTANTS
  Items,       \* names of evidence
  Checklist,   \* per site, the evidence its authority rests on
  Window,      \* longest retry window
  None

VARIABLES
  holder,      \* the site that has signing authority, or None
  done,        \* names of the evidence on record
  abandoned,   \* a no-go was recorded
  opened,      \* when the current retry window opened, or None
  now

hvars == <<holder, done, abandoned, opened, now>>

Sites == DOMAIN Checklist

Init ==
  /\ holder = "primary" /\ done = {} /\ abandoned = FALSE /\ opened = None /\ now = 0

\* Evidence is added, never taken away.
Record == done' \in SUBSET Items /\ done \subseteq done'

Collect == Record /\ UNCHANGED <<holder, abandoned, opened, now>>

Withdraw ==
  /\ holder # None /\ ~abandoned
  /\ holder' = None
  /\ Record
  /\ UNCHANGED <<abandoned, opened, now>>

OpenWindow ==
  /\ holder = None /\ ~abandoned /\ opened = None
  /\ opened' = now
  /\ Record
  /\ UNCHANGED <<holder, abandoned, now>>

Grant(site) ==
  /\ holder = None /\ ~abandoned
  /\ opened # None => now < opened + Window
  /\ Record /\ Checklist[site] \subseteq done'
  /\ holder' = site
  /\ opened' = None
  /\ UNCHANGED <<abandoned, now>>

Abandon ==
  /\ holder = None /\ opened # None
  /\ abandoned' = TRUE
  /\ Record
  /\ UNCHANGED <<holder, opened, now>>

Tick == now' = now + 1 /\ UNCHANGED <<holder, done, abandoned, opened>>

Next == Collect \/ Withdraw \/ OpenWindow \/ (\E site \in Sites : Grant(site)) \/ Abandon \/ Tick

Spec == Init /\ [][Next]_hvars
=============================================================================
