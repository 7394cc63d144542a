-------------------------- MODULE MCObserveAbsence --------------------------
(* One run of the observer on a chain of seven epochs.                     *)
EXTENDS ObserveAbsence
=============================================================================
