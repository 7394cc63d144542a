-------------------------- MODULE MCEvidenceStore --------------------------
(* Two collectors and one gate: enough for evidence to be published, read, *)
(* discarded by a later run and read again, with a crash at any point.     *)
EXTENDS EvidenceStore
CONSTANTS c1, c2, g1
MCCollectors == {c1, c2}
MCGates == {g1}
=============================================================================
