---------------------------- MODULE KeyCeremony ----------------------------
(***************************************************************************)
(* The operator's workstation: lab.env is edited, and keystores are sealed *)
(* under the recovery key whose ARN it holds.  The ARN is an argument of   *)
(* the seal, which is all the two have in common: an edit while a seal is  *)
(* at work is not seen by it.                                              *)
(***************************************************************************)
EXTENDS LabEnv, SealKeystores

ASSUME NoneAssumption == NoArn = None

vars == <<labVars, sealVars>>

\* Bound: seals are explored from files with nothing but a recovery key, or without it,
\* that editing leaves before the first node.
Settled ==
    /\ Instances \subseteq fresh /\ \A r \in Runs : at[r] = "idle"
    /\ \A k \in SyncKeys : Text(env)[k] = None
Editing == seal.number = 0

(* seal-keystores.sh seal, with --kms-key-arn "$RECOVERY_KEY_ARN" or without *)
Ceremony ==
    \E root \in BOOLEAN, arn \in {None, Text(env)["RECOVERY_KEY_ARN"]} : BeginSeal(arn, root)

Init == LabInit /\ SealInit
EditStep == Editing /\ ((\E r \in Runs : Edit(r)) \/ Provision) /\ UNCHANGED sealVars
CeremonyStep == Settled /\ (Ceremony \/ SealStep \/ UnsealStep) /\ UNCHANGED labVars
Step == EditStep \/ CeremonyStep
Spec == Init /\ [][Step]_vars

TypeOK == LabTypeOK /\ SealTypeOK
=============================================================================
