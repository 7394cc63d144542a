--------------------------- MODULE MCWorkstation ---------------------------
(* The programs of the operator's workstation.  The key ceremony and the   *)
(* client upgrade share no variable, and no property speaks of both: a     *)
(* behaviour is one of the one or one of the other, with the other's       *)
(* initial state.  Instances and addresses are alike, so they are made in  *)
(* one order, and another address only when the first one was in use.      *)
EXTENDS KeyCeremony, MCClientUpgrade

VARIABLE part

FirstRecord == CHOOSE r \in Records : TRUE
FirstAddress == CHOOSE a \in Addresses : TRUE
FirstInstance == CHOOSE i \in Instances : TRUE
InOrder ==
    /\ FirstInstance \in fresh => Instances \subseteq fresh
    /\ held = {} => address = FirstAddress

WorkstationInit ==
    /\ Init /\ UpgradeInit /\ address = FirstAddress
    /\ part \in {"ceremony", "upgrade"} /\ (part = "ceremony" => record = FirstRecord)
WorkstationNext ==
    \/ part = "ceremony" /\ Step /\ InOrder' /\ UNCHANGED <<part, upgradeVars>>
    \/ part = "upgrade" /\ UpgradeNext /\ UNCHANGED <<part, vars>>
WorkstationSpec == WorkstationInit /\ [][WorkstationNext]_<<part, vars, upgradeVars>>

WorkstationSymmetry == Symmetric \cup Permutations(Runs)
=============================================================================
