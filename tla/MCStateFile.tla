---------------------------- MODULE MCStateFile ----------------------------
(* Three runs of the transition authority: one that wins, one that loses   *)
(* the version, one that builds on what the others left.                   *)
EXTENDS StateFile, TLC

MCSymmetry == Permutations(Runs)
=============================================================================
