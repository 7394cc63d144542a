--------------------------- MODULE SealKeystores ---------------------------
(***************************************************************************)
(* shared/scripts/seal-keystores.sh: one directory, sealed again and       *)
(* again, by root or not, each seal dying where it may, and opened by      *)
(* anybody at any time, through the KMS key or the passphrase.             *)
(*                                                                         *)
(* A seal has a number, which stands for its data key, its keystores and   *)
(* whatever is made of them alone.  A file that was cut off is Torn: no    *)
(* key opens it.  What a cipher does is assumed of it: a wrong key opens   *)
(* nothing, and nobody makes a MAC without the data key.                   *)
(***************************************************************************)
EXTENDS Integers

CONSTANTS
  MaxSeals,      \* bound: seals
  NoArn          \* no --kms-key-arn

ASSUME SealsAssumption == MaxSeals \in Nat

VARIABLES
  enc,           \* keystores.enc: the seal it is of
  off,           \* dek.offline.enc
  kms,           \* dek.kms.b64
  sums,          \* manifest.sha256: the files it lists, as they were
  json,          \* manifest.json: the seal, and its key ARN
  mac,           \* envelope.hmac: the seal whose key made it, and what it covers
  locked,        \* envelope.hmac has mode 0400
  seal,          \* the seal at work: its step, number, ARN, and whether it is root's
  unseal,        \* an unseal at work: its step, its way to the key, the key it has
  sealed,        \* the last seal if it said SEAL=OK, else 0 (history)
  authentic,     \* the seals that wrote their MAC (history)
  opened         \* the seal whose keystores the last UNSEAL=OK gave, or 0 (history)

dir == <<enc, off, kms, sums, json, mac, locked>>
sealVars == <<dir, seal, unseal, sealed, authentic, opened>>

Absent == 0
Torn == -1
Seals == 1..MaxSeals
Files == Seals \cup {Absent, Torn}
Listed == [enc |-> enc, off |-> off, kms |-> kms]
NoSums == [enc |-> Absent, off |-> Absent, kms |-> Absent]
NoJson == [seal |-> Absent, arn |-> NoArn]
Covered == [listed |-> Listed, sums |-> sums, json |-> json]
NoMac == [key |-> Absent, over |-> [listed |-> NoSums, sums |-> NoSums, json |-> NoJson]]

Onward(s) == seal' = [seal EXCEPT !.step = s]
Untouched == UNCHANGED <<unseal, opened>>
\* A step of a seal ends the seal, or puts a cut-off file in the place of f, or does its work.
Dies == seal' = [seal EXCEPT !.step = "idle"]

---------------------------------------------------------------------------
(* do_seal() *)
BeginSeal(arn, root) ==
    /\ seal.step = "idle" /\ seal.number < MaxSeals
    /\ seal' = [step |-> "payload", number |-> seal.number + 1, arn |-> arn, root |-> root]
    /\ UNCHANGED <<dir, sealed, authentic>> /\ Untouched

Payload ==
    /\ seal.step = "payload" /\ sealed' = 0
    /\ \/ enc' = seal.number /\ Onward("offline")
       \/ enc' = Torn /\ Dies
    /\ UNCHANGED <<off, kms, sums, json, mac, locked, authentic>> /\ Untouched
WrapOffline ==
    /\ seal.step = "offline"
    /\ \/ off' = seal.number /\ Onward("kms")
       \/ off' = Torn /\ Dies
    /\ UNCHANGED <<enc, kms, sums, json, mac, locked, sealed, authentic>> /\ Untouched
(* Fault variant: a wrap that is there is taken for this seal's. *)
WrapKmsOnce ==
    /\ seal.step = "kms"
    /\ \/ (seal.arn = NoArn \/ kms \in Seals) /\ kms' = kms /\ Onward("sums")
       \/ seal.arn # NoArn /\ kms \notin Seals /\ kms' = seal.number /\ Onward("sums")
       \/ seal.arn # NoArn /\ kms' = Torn /\ Dies
    /\ UNCHANGED <<enc, off, sums, json, mac, locked, sealed, authentic>> /\ Untouched
(* Without an ARN the wrap of an earlier seal stays where it is. *)
WrapKms ==
    /\ seal.step = "kms"
    /\ \/ seal.arn = NoArn /\ kms' = kms /\ Onward("sums")
       \/ seal.arn # NoArn /\ kms' = seal.number /\ Onward("sums")
       \/ seal.arn # NoArn /\ kms' = Torn /\ Dies
    /\ UNCHANGED <<enc, off, sums, json, mac, locked, sealed, authentic>> /\ Untouched
ListFiles ==
    /\ seal.step = "sums"
    /\ \/ sums' = Listed /\ Onward("json")
       \/ sums' \in {NoSums, [NoSums EXCEPT !.enc = enc]} /\ Dies
    /\ UNCHANGED <<enc, off, kms, json, mac, locked, sealed, authentic>> /\ Untouched
Manifest ==
    /\ seal.step = "json"
    /\ \/ json' = [seal |-> seal.number, arn |-> seal.arn] /\ Onward("mac")
       \/ json' = NoJson /\ Dies
    /\ UNCHANGED <<enc, off, kms, sums, mac, locked, sealed, authentic>> /\ Untouched
(* The MAC of an earlier seal is read-only, also for its owner. *)
Authenticate ==
    /\ seal.step = "mac" /\ (locked => seal.root)
    /\ \/ /\ mac' = [key |-> seal.number, over |-> Covered] /\ Onward("finish")
          /\ authentic' = authentic \cup {seal.number}
       \/ mac' = NoMac /\ Dies /\ UNCHANGED authentic
    /\ UNCHANGED <<enc, off, kms, sums, json, locked, sealed>> /\ Untouched
(* chmod, shred, SEAL=OK *)
Finish ==
    /\ seal.step = "finish" /\ locked' = TRUE /\ sealed' = seal.number /\ Dies
    /\ UNCHANGED <<enc, off, kms, sums, json, mac, authentic>> /\ Untouched
SealFails ==
    /\ seal.step # "idle" /\ Dies
    /\ UNCHANGED <<dir, sealed, authentic>> /\ Untouched

---------------------------------------------------------------------------
(* do_unseal() *)
Matches == sums # NoSums /\ \A f \in {"enc", "off", "kms"} :
               sums[f] = Absent \/ sums[f] = Listed[f]     \* sha256sum -c
\* The data key a way gives: that of a seal, or none.
Unwrapped(via) ==
    IF via = "kms" THEN (IF json.arn = NoArn THEN Absent ELSE kms) ELSE off
(* Fault variant: a missing MAC is no reason to stop. *)
AuthenticIfAny(key) == mac = NoMac \/ mac = [key |-> key, over |-> Covered]
Authentic(key) == mac = [key |-> key, over |-> Covered]

Nothing == [step |-> "idle", via |-> "pass", key |-> Absent]
Closes == unseal' = Nothing
Reading == UNCHANGED <<dir, seal, sealed, authentic>>

BeginUnseal(via) ==
    /\ unseal.step = "idle" /\ Matches
    /\ unseal' = [step |-> "unwrap", via |-> via, key |-> Absent]
    /\ UNCHANGED opened /\ Reading
(* Fault variant: what the unwrapping call leaves is taken for a key. *)
UnwrapAny ==
    /\ unseal.step = "unwrap"
    /\ unseal' = [unseal EXCEPT !.step = "mac", !.key = Unwrapped(unseal.via)]
    /\ UNCHANGED opened /\ Reading
Unwrap ==
    /\ unseal.step = "unwrap"
    /\ IF Unwrapped(unseal.via) \in Seals
       THEN unseal' = [unseal EXCEPT !.step = "mac", !.key = Unwrapped(unseal.via)] ELSE Closes
    /\ UNCHANGED opened /\ Reading
CheckMac ==
    /\ unseal.step = "mac"
    /\ IF Authentic(unseal.key) THEN unseal' = [unseal EXCEPT !.step = "decrypt"] ELSE Closes
    /\ UNCHANGED opened /\ Reading
Decrypt ==
    /\ unseal.step = "decrypt"
    /\ IF enc = unseal.key THEN unseal' = [unseal EXCEPT !.step = "digest"] ELSE Closes
    /\ UNCHANGED opened /\ Reading
Digest ==
    /\ unseal.step = "digest" /\ Closes
    /\ opened' = IF json.seal = unseal.key THEN unseal.key ELSE opened
    /\ Reading
UnsealFails == unseal.step # "idle" /\ Closes /\ UNCHANGED opened /\ Reading

SealStep ==
    \/ Payload \/ WrapOffline \/ WrapKms \/ ListFiles \/ Manifest \/ Authenticate
    \/ Finish \/ SealFails
UnsealStep ==
    \/ \E via \in {"pass", "kms"} : BeginUnseal(via)
    \/ Unwrap \/ CheckMac \/ Decrypt \/ Digest \/ UnsealFails

SealInit ==
    /\ enc = Absent /\ off = Absent /\ kms = Absent
    /\ sums = NoSums /\ json = NoJson /\ mac = NoMac /\ locked = FALSE
    /\ seal = [step |-> "idle", number |-> 0, arn |-> NoArn, root |-> FALSE]
    /\ unseal = Nothing /\ sealed = 0 /\ authentic = {} /\ opened = 0

---------------------------------------------------------------------------
SealTypeOK ==
    /\ {enc, off, kms} \cup {sums.enc, sums.off, sums.kms} \subseteq Files
    /\ json.seal \in Seals \cup {0} /\ mac.key \in Seals \cup {0} /\ locked \in BOOLEAN
    /\ seal.step \in {"idle", "payload", "offline", "kms", "sums", "json", "mac", "finish"}
    /\ seal.number \in 0..MaxSeals /\ seal.root \in BOOLEAN
    /\ unseal.step \in {"idle", "unwrap", "mac", "decrypt", "digest"}
    /\ unseal.key \in Seals \cup {Absent} /\ unseal.via \in {"pass", "kms"}
    /\ {sealed, opened} \subseteq 0..MaxSeals /\ authentic \subseteq Seals

\* The seal an undisturbed unseal would give, or 0.
Opens(via) ==
    LET key == Unwrapped(via) IN
    IF Matches /\ key \in Seals /\ Authentic(key) /\ enc = key /\ json.seal = key
    THEN key ELSE 0

(* Wherever seals died and whatever they left of one another: UNSEAL=OK    *)
(* gives the keystores of a seal that authenticated its whole envelope;    *)
(* and from SEAL=OK until the next seal writes, the passphrase opens that  *)
(* seal, and so does the KMS key if one was named, also with the wrap of   *)
(* an earlier seal lying beside it.                                        *)
EnvelopeSound ==
    /\ opened # 0 => opened \in authentic
    /\ sealed # 0 =>
         /\ Opens("pass") = sealed
         /\ json.arn # NoArn => Opens("kms") = sealed
=============================================================================
