--------------------------- MODULE FailoverProofs ---------------------------
(***************************************************************************)
(* Why the planned handovers never give two signers or two histories, for  *)
(* any number of messages.  The argument rests on four things only: the    *)
(* token is removed before the unit is looked at, so that a source seen    *)
(* inactive stays unable to start; the export is taken after that look;    *)
(* the source is powered off before the target gets its token; and the     *)
(* gate compares the database with the hash the operators approved.        *)
(***************************************************************************)
EXTENDS Failover, FiniteSetTheorems, TLAPS

\* What it takes to sign sooner or later without a further approval.
Capable(h) == token[h] = "valid" \/ pinned[h] # None \/ vc[h] \in {"cleared", "signing"}

Fenced   == {"powered off", "verified", "imported"}
Carrying == {"exported"} \cup Fenced
Checked  == {"checked"} \cup Carrying
Revoked  == {"revoked", "sealed"} \cup Checked

\* At most one host can come to sign.
OneCapable == \A h \in Hosts : Capable(h) => ~Capable(Other(h))

\* What the procedure has achieved at the source.
SourceStopped ==
  /\ step \in Revoked => token[Source] = "none"
  /\ step \in Checked => ~Capable(Source)

\* Who is able to sign signed last or was made able after a hard fence.
Entitled ==
  /\ \A h \in Hosts : Capable(h) => h = last \/ wasOff
  /\ \A h \in Hosts : vc[h] = "signing" => h = last
  /\ step \in Fenced => target = last \/ wasOff

\* The last signer knows everything that was signed, and so does the export
\* taken from it.
HistoryCarried ==
  /\ db[last] = signed /\ \A h \in Hosts : db[h] <= signed
  /\ step \in Carrying => carried \in 0..signed /\ (last = Source => carried = signed)

\* A host that did not sign last is let through only with the whole history.
HistoryApproved ==
  \A h \in Hosts :
    /\ pinned[h] # None => scope[h] = "full"
    /\ h # last =>
         /\ token[h] = "valid" => scope[h] = "full" /\ marker[h] = signed
         /\ pinned[h] # None => pinned[h] = signed
         /\ vc[h] = "cleared" => db[h] = signed

IInv == TypeOK /\ OneCapable /\ SourceStopped /\ Entitled /\ HistoryCarried /\ HistoryApproved

USE HostAssumption, NoneAssumption
USE DEF Hosts, Other, Set, gateVars, procVars, pastVars, InGate, Up, Steps

\* What the databases know are numbers of messages.
LEMMA KnownIsNat == ASSUME TypeOK PROVE signed \in Nat /\ \A g \in Hosts : db[g] \in Nat
<1>1. \A n \in 0..MaxSigned : n \in Nat
  OBVIOUS
<1>2. signed \in 0..MaxSigned /\ db \in [Hosts -> 0..MaxSigned]
  BY DEF TypeOK
<1> QED BY <1>1, <1>2

---------------------------------------------------------------------------
(* Every step preserves the inductive invariant: one lemma per action, one  *)
(* step per conjunct.                                                      *)

LEMMA StartStep == ASSUME IInv, NEW h \in Hosts, Start(h) PROVE IInv'
<1>1. TypeOK'
  BY DEF IInv, Start, TypeOK
<1>2. OneCapable'
  BY DEF IInv, Start, TypeOK, OneCapable, Capable
<1>3. SourceStopped'
  BY DEF IInv, Start, TypeOK, SourceStopped, Source, Capable, Revoked, Checked,
         Carrying, Fenced
<1>4. Entitled'
  BY DEF IInv, Start, TypeOK, Entitled, Capable, Fenced
<1>5. HistoryCarried'
  BY DEF IInv, Start, TypeOK, HistoryCarried, Source, Carrying, Fenced
<1>6. HistoryApproved'
  BY DEF IInv, Start, TypeOK, HistoryApproved
<1> QED BY <1>1, <1>2, <1>3, <1>4, <1>5, <1>6 DEF IInv

LEMMA StopStep == ASSUME IInv, NEW h \in Hosts, Stop(h) PROVE IInv'
<1>1. TypeOK'
  BY DEF IInv, Stop, TypeOK
<1>2. OneCapable'
  BY DEF IInv, Stop, TypeOK, OneCapable, Capable
<1>3. SourceStopped'
  BY DEF IInv, Stop, TypeOK, SourceStopped, Source, Capable, Revoked, Checked,
         Carrying, Fenced
<1>4. Entitled'
  BY DEF IInv, Stop, TypeOK, Entitled, Capable, Fenced
<1>5. HistoryCarried'
  BY DEF IInv, Stop, TypeOK, HistoryCarried, Source, Carrying, Fenced
<1>6. HistoryApproved'
  BY DEF IInv, Stop, TypeOK, HistoryApproved
<1> QED BY <1>1, <1>2, <1>3, <1>4, <1>5, <1>6 DEF IInv

LEMMA InitialGateStep == ASSUME IInv, NEW h \in Hosts, InitialGate(h) PROVE IInv'
<1>1. TypeOK'
  <2>1. CASE vc[h] = "reading"
    BY <2>1 DEF IInv, TypeOK, InitialGate
  <2>2. CASE vc[h] = "ending"
    <3>1. pinned[h] = None
      BY <2>2 DEF IInv, TypeOK, HistoryApproved, InitialGate
    <3> QED BY <2>2, <3>1 DEF IInv, TypeOK, InitialGate
  <2> QED BY <2>1, <2>2 DEF InitialGate
<1>2. OneCapable'
  BY DEF IInv, InitialGate, TypeOK, OneCapable, Capable
<1>3. SourceStopped'
  BY DEF IInv, InitialGate, TypeOK, SourceStopped, Source, Capable, Revoked,
         Checked, Carrying, Fenced
<1>4. Entitled'
  BY DEF IInv, InitialGate, TypeOK, Entitled, Capable, Fenced
<1>5. HistoryCarried'
  BY DEF IInv, InitialGate, TypeOK, HistoryCarried, Source, Carrying, Fenced
<1>6. HistoryApproved'
  BY DEF IInv, InitialGate, TypeOK, HistoryApproved
<1> QED BY <1>1, <1>2, <1>3, <1>4, <1>5, <1>6 DEF IInv

LEMMA GateReadsStep == ASSUME IInv, NEW h \in Hosts, GateReads(h) PROVE IInv'
<1>1. TypeOK'
  BY DEF IInv, GateReads, Approved, TypeOK
<1>2. OneCapable'
  BY DEF IInv, GateReads, Approved, TypeOK, OneCapable, Capable
<1>3. SourceStopped'
  BY DEF IInv, GateReads, Approved, TypeOK, SourceStopped, Source, Capable,
         Revoked, Checked, Carrying, Fenced
<1>4. Entitled'
  BY DEF IInv, GateReads, Approved, TypeOK, Entitled, Capable, Fenced
<1>5. HistoryCarried'
  BY DEF IInv, GateReads, Approved, TypeOK, HistoryCarried, Source, Carrying,
         Fenced
<1>6. HistoryApproved'
  BY DEF IInv, GateReads, Approved, TypeOK, HistoryApproved
<1> QED BY <1>1, <1>2, <1>3, <1>4, <1>5, <1>6 DEF IInv

LEMMA GateEndsStep == ASSUME IInv, NEW h \in Hosts, GateEnds(h) PROVE IInv'
<1>1. TypeOK'
  BY DEF IInv, GateEnds, TypeOK
<1>2. OneCapable'
  BY DEF IInv, GateEnds, TypeOK, OneCapable, Capable
<1>3. SourceStopped'
  BY DEF IInv, GateEnds, TypeOK, SourceStopped, Source, Capable, Revoked,
         Checked, Carrying, Fenced
<1>4. Entitled'
  BY DEF IInv, GateEnds, TypeOK, Entitled, Capable, Fenced
<1>5. HistoryCarried'
  BY DEF IInv, GateEnds, TypeOK, HistoryCarried, Source, Carrying, Fenced
<1>6. HistoryApproved'
  BY DEF IInv, GateEnds, TypeOK, HistoryApproved
<1> QED BY <1>1, <1>2, <1>3, <1>4, <1>5, <1>6 DEF IInv

LEMMA ExecStep == ASSUME IInv, NEW h \in Hosts, Exec(h) PROVE IInv'
<1>1. TypeOK'
  BY DEF IInv, Exec, TypeOK
<1>2. OneCapable'
  BY DEF IInv, Exec, TypeOK, OneCapable, Capable
<1>3. SourceStopped'
  BY DEF IInv, Exec, TypeOK, SourceStopped, Source, Capable, Revoked, Checked,
         Carrying, Fenced
<1>4. Entitled'
  <2>1. \A g \in Hosts : Capable(g)' => g = last'
    <3>1. ~Capable(Other(h))
      BY DEF IInv, OneCapable, Capable, Exec
    <3>2. vc'[Other(h)] = vc[Other(h)] /\ UNCHANGED <<token, pinned>> /\ last' = h
      BY DEF IInv, TypeOK, Exec
    <3> QED BY <3>1, <3>2 DEF Capable
  <2>2. step \in Fenced => target = h
    <3>1. Capable(h)
      BY DEF Capable, Exec
    <3>2. step \in Fenced => ~Capable(Source) /\ target \in Hosts
      BY DEF IInv, TypeOK, SourceStopped, Checked, Carrying, Fenced
    <3> QED BY <3>1, <3>2 DEF Source
  <2> QED BY <2>1, <2>2 DEF Entitled, Capable, Fenced, Exec
<1>5. HistoryCarried'
  BY DEF IInv, Exec, TypeOK, OneCapable, Capable, SourceStopped, Source,
         Revoked, Checked, Carrying, Fenced, Entitled, HistoryCarried,
         HistoryApproved
<1>6. HistoryApproved'
  BY DEF IInv, Exec, TypeOK, OneCapable, Capable, HistoryApproved
<1> QED BY <1>1, <1>2, <1>3, <1>4, <1>5, <1>6 DEF IInv

LEMMA SignStep == ASSUME IInv, NEW h \in Hosts, Sign(h) PROVE IInv'
<1>a. signed \in Nat /\ \A g \in Hosts : db[g] \in Nat
  BY KnownIsNat DEF IInv
<1>b. signed' = signed + 1 /\ \A g \in Hosts : db'[g] = IF g = h THEN signed + 1 ELSE db[g]
  BY DEF IInv, TypeOK, Sign
<1>c. h = last
  BY DEF IInv, Entitled, Sign
<1>1. TypeOK'
  <2>1. signed' \in 0..MaxSigned
    BY <1>a, <1>b DEF Sign
  <2>2. db' \in [Hosts -> 0..MaxSigned]
    BY <1>b, <2>1 DEF IInv, TypeOK, Sign
  <2> QED BY <2>1, <2>2 DEF IInv, TypeOK, Sign
<1>2. OneCapable'
  BY DEF IInv, Sign, TypeOK, OneCapable, Capable
<1>3. SourceStopped'
  BY DEF IInv, Sign, TypeOK, SourceStopped, Source, Capable, Revoked, Checked,
         Carrying, Fenced
<1>4. Entitled'
  BY DEF IInv, Sign, TypeOK, Entitled, Capable, Fenced
<1>5. HistoryCarried'
  <2>1. db'[last'] = signed' /\ \A g \in Hosts : db'[g] <= signed'
    BY <1>a, <1>b, <1>c DEF IInv, HistoryCarried, Sign
  <2>2. step \in Carrying => last # Source
    BY <1>c DEF IInv, SourceStopped, Capable, Checked, Sign
  <2>3. step \in Carrying => carried \in 0..signed'
    BY <1>a, <1>b DEF IInv, HistoryCarried
  <2> QED BY <2>1, <2>2, <2>3 DEF HistoryCarried, Source, Sign
<1>6. HistoryApproved'
  BY DEF IInv, Sign, TypeOK, OneCapable, Capable, Entitled, Fenced,
         HistoryApproved
<1> QED BY <1>1, <1>2, <1>3, <1>4, <1>5, <1>6 DEF IInv

\* A fence, however much of it fails, makes no host more able to sign.
LEMMA LeaseFenceStep == ASSUME IInv, NEW h \in Hosts, LeaseFence(h) PROVE IInv'
<1> PICK stop \in BOOLEAN, seal \in BOOLEAN, remove \in BOOLEAN :
      /\ vc' = IF stop THEN Set(vc, h, "down") ELSE vc
      /\ pinned' = IF stop THEN Set(pinned, h, None) ELSE pinned
      /\ sealed' = IF seal THEN Set(sealed, h, TRUE) ELSE sealed
      /\ token' = IF remove THEN Set(token, h, "none") ELSE token
  BY DEF LeaseFence
<1> UNCHANGED <<scope, fence, marker, db, signed, step, target, carried, last, wasOff>>
  BY DEF LeaseFence
<1>a. /\ vc' \in [Hosts -> Up \cup {"off"}] /\ pinned' \in [Hosts -> Nat \cup {None}]
      /\ \A g \in Hosts : \/ vc'[g] = vc[g] /\ pinned'[g] = pinned[g]
                          \/ vc'[g] = "down" /\ pinned'[g] = None
  BY DEF IInv, TypeOK
<1>b. sealed' \in [Hosts -> BOOLEAN]
  BY DEF IInv, TypeOK
<1>c. /\ token' \in [Hosts -> {"none", "valid", "expired"}]
      /\ \A g \in Hosts : token'[g] \in {token[g], "none"}
  BY DEF IInv, TypeOK
<1>1. TypeOK'
  BY <1>a, <1>b, <1>c DEF IInv, TypeOK
<1>2. OneCapable'
  BY <1>a, <1>c DEF IInv, OneCapable, Capable
<1>3. SourceStopped'
  BY <1>a, <1>c DEF IInv, TypeOK, SourceStopped, Source, Capable, Revoked, Checked, Carrying, Fenced
<1>4. Entitled'
  BY <1>a, <1>c DEF IInv, Entitled, Capable, Fenced
<1>5. HistoryCarried'
  BY DEF IInv, HistoryCarried, Source, Carrying, Fenced
<1>6. HistoryApproved'
  BY <1>a, <1>c DEF IInv, HistoryApproved
<1> QED BY <1>1, <1>2, <1>3, <1>4, <1>5, <1>6 DEF IInv

LEMMA ExpireStep == ASSUME IInv, NEW h \in Hosts, Expire(h) PROVE IInv'
<1>1. TypeOK'
  BY DEF IInv, Expire, TypeOK
<1>2. OneCapable'
  BY DEF IInv, Expire, TypeOK, OneCapable, Capable
<1>3. SourceStopped'
  BY DEF IInv, Expire, TypeOK, SourceStopped, Source, Capable, Revoked, Checked,
         Carrying, Fenced
<1>4. Entitled'
  BY DEF IInv, Expire, TypeOK, Entitled, Capable, Fenced
<1>5. HistoryCarried'
  BY DEF IInv, Expire, TypeOK, HistoryCarried, Source, Carrying, Fenced
<1>6. HistoryApproved'
  BY DEF IInv, Expire, TypeOK, HistoryApproved
<1> QED BY <1>1, <1>2, <1>3, <1>4, <1>5, <1>6 DEF IInv

LEMMA AgeStep == ASSUME IInv, NEW h \in Hosts, Age(h) PROVE IInv'
<1>1. TypeOK'
  BY DEF IInv, Age, TypeOK
<1>2. OneCapable'
  BY DEF IInv, Age, TypeOK, OneCapable, Capable
<1>3. SourceStopped'
  BY DEF IInv, Age, TypeOK, SourceStopped, Source, Capable, Revoked, Checked,
         Carrying, Fenced
<1>4. Entitled'
  BY DEF IInv, Age, TypeOK, Entitled, Capable, Fenced
<1>5. HistoryCarried'
  BY DEF IInv, Age, TypeOK, HistoryCarried, Source, Carrying, Fenced
<1>6. HistoryApproved'
  BY DEF IInv, Age, TypeOK, HistoryApproved
<1> QED BY <1>1, <1>2, <1>3, <1>4, <1>5, <1>6 DEF IInv

LEMMA PowerOnStep == ASSUME IInv, NEW h \in Hosts, PowerOn(h) PROVE IInv'
<1>1. TypeOK'
  BY DEF IInv, PowerOn, TypeOK
<1>2. OneCapable'
  BY DEF IInv, PowerOn, TypeOK, OneCapable, Capable
<1>3. SourceStopped'
  BY DEF IInv, PowerOn, TypeOK, SourceStopped, Source, Capable, Revoked,
         Checked, Carrying, Fenced
<1>4. Entitled'
  BY DEF IInv, PowerOn, TypeOK, Entitled, Capable, Fenced
<1>5. HistoryCarried'
  BY DEF IInv, PowerOn, TypeOK, HistoryCarried, Source, Carrying, Fenced
<1>6. HistoryApproved'
  BY DEF IInv, PowerOn, TypeOK, HistoryApproved
<1> QED BY <1>1, <1>2, <1>3, <1>4, <1>5, <1>6 DEF IInv

LEMMA UnsealStep == ASSUME IInv, NEW h \in Hosts, Unseal(h) PROVE IInv'
<1>1. TypeOK'
  BY DEF IInv, Unseal, TypeOK
<1>2. OneCapable'
  BY DEF IInv, Unseal, TypeOK, OneCapable, Capable
<1>3. SourceStopped'
  BY DEF IInv, Unseal, TypeOK, SourceStopped, Source, Capable, Revoked, Checked,
         Carrying, Fenced
<1>4. Entitled'
  BY DEF IInv, Unseal, TypeOK, Entitled, Capable, Fenced
<1>5. HistoryCarried'
  BY DEF IInv, Unseal, TypeOK, HistoryCarried, Source, Carrying, Fenced
<1>6. HistoryApproved'
  BY DEF IInv, Unseal, TypeOK, HistoryApproved
<1> QED BY <1>1, <1>2, <1>3, <1>4, <1>5, <1>6 DEF IInv

LEMMA RenewStep == ASSUME IInv, NEW h \in Hosts, Renew(h) PROVE IInv'
<1>1. TypeOK'
  BY DEF IInv, Renew, TypeOK
<1>2. OneCapable'
  BY DEF IInv, Renew, TypeOK, OneCapable, Capable
<1>3. SourceStopped'
  BY DEF IInv, Renew, TypeOK, SourceStopped, Source, Capable, Revoked, Checked,
         Carrying, Fenced
<1>4. Entitled'
  BY DEF IInv, Renew, TypeOK, Entitled, Capable, Fenced
<1>5. HistoryCarried'
  BY DEF IInv, Renew, TypeOK, HistoryCarried, Source, Carrying, Fenced
<1>6. HistoryApproved'
  BY DEF IInv, Renew, TypeOK, Entitled, Capable, Fenced, HistoryApproved
<1> QED BY <1>1, <1>2, <1>3, <1>4, <1>5, <1>6 DEF IInv

LEMMA RestoreBackupStep == ASSUME IInv, NEW h \in Hosts, RestoreBackup(h) PROVE IInv'
<1>1. TypeOK'
  <2>1. db' \in [Hosts -> 0..MaxSigned]
    BY DEF IInv, TypeOK, RestoreBackup
  <2> QED BY <2>1 DEF IInv, TypeOK, RestoreBackup
<1>2. OneCapable'
  BY DEF IInv, RestoreBackup, TypeOK, OneCapable, Capable
<1>3. SourceStopped'
  BY DEF IInv, RestoreBackup, TypeOK, SourceStopped, Source, Capable, Revoked,
         Checked, Carrying, Fenced
<1>4. Entitled'
  BY DEF IInv, RestoreBackup, TypeOK, Entitled, Capable, Fenced
<1>5. HistoryCarried'
  <2>1. PICK old \in 0..MaxSigned : old < db[h] /\ db' = Set(db, h, old)
    BY DEF RestoreBackup
  <2>2. h # last /\ \A g \in Hosts : db'[g] = IF g = h THEN old ELSE db[g]
    BY <2>1 DEF IInv, TypeOK, RestoreBackup
  <2>3. signed \in Nat /\ last \in Hosts /\ \A g \in Hosts : db[g] \in Nat
    BY KnownIsNat DEF IInv, TypeOK
  <2>5. db[last] = signed /\ \A g \in Hosts : db[g] <= signed
    BY DEF IInv, HistoryCarried
  <2>4. db'[last] = signed /\ \A g \in Hosts : db'[g] <= signed
    BY <2>1, <2>2, <2>3, <2>5
  <2> QED BY <2>4 DEF IInv, HistoryCarried, Source, Carrying, Fenced, RestoreBackup
<1>6. HistoryApproved'
  BY DEF IInv, RestoreBackup, TypeOK, HistoryApproved
<1> QED BY <1>1, <1>2, <1>3, <1>4, <1>5, <1>6 DEF IInv

LEMMA BeginStep == ASSUME IInv, NEW h \in Hosts, Begin(h) PROVE IInv'
<1>1. TypeOK'
  BY DEF IInv, Begin, TypeOK
<1>2. OneCapable'
  BY DEF IInv, Begin, TypeOK, OneCapable, Capable
<1>3. SourceStopped'
  BY DEF IInv, Begin, TypeOK, SourceStopped, Source, Capable, Revoked, Checked,
         Carrying, Fenced
<1>4. Entitled'
  BY DEF IInv, Begin, TypeOK, Entitled, Capable, Fenced
<1>5. HistoryCarried'
  BY DEF IInv, Begin, TypeOK, HistoryCarried, Source, Carrying, Fenced
<1>6. HistoryApproved'
  BY DEF IInv, Begin, TypeOK, HistoryApproved
<1> QED BY <1>1, <1>2, <1>3, <1>4, <1>5, <1>6 DEF IInv

LEMMA StopSourceStep == ASSUME IInv, StopSource PROVE IInv'
<1>1. TypeOK'
  BY DEF IInv, StopSource, Source, TypeOK
<1>2. OneCapable'
  BY DEF IInv, StopSource, Source, TypeOK, OneCapable, Capable
<1>3. SourceStopped'
  BY DEF IInv, StopSource, TypeOK, SourceStopped, Source, Capable, Revoked,
         Checked, Carrying, Fenced
<1>4. Entitled'
  BY DEF IInv, StopSource, Source, TypeOK, Entitled, Capable, Fenced
<1>5. HistoryCarried'
  BY DEF IInv, StopSource, TypeOK, HistoryCarried, Source, Carrying, Fenced
<1>6. HistoryApproved'
  BY DEF IInv, StopSource, Source, TypeOK, HistoryApproved
<1> QED BY <1>1, <1>2, <1>3, <1>4, <1>5, <1>6 DEF IInv

LEMMA RevokeStep == ASSUME IInv, Revoke PROVE IInv'
<1>1. TypeOK'
  BY DEF IInv, Revoke, Source, TypeOK
<1>2. OneCapable'
  BY DEF IInv, Revoke, Source, TypeOK, OneCapable, Capable
<1>3. SourceStopped'
  BY DEF IInv, Revoke, TypeOK, SourceStopped, Source, Capable, Revoked, Checked,
         Carrying, Fenced
<1>4. Entitled'
  BY DEF IInv, Revoke, Source, TypeOK, Entitled, Capable, Fenced
<1>5. HistoryCarried'
  BY DEF IInv, Revoke, TypeOK, HistoryCarried, Source, Carrying, Fenced
<1>6. HistoryApproved'
  BY DEF IInv, Revoke, Source, TypeOK, HistoryApproved
<1> QED BY <1>1, <1>2, <1>3, <1>4, <1>5, <1>6 DEF IInv

LEMMA SealStep == ASSUME IInv, Seal PROVE IInv'
<1>1. TypeOK'
  BY DEF IInv, Seal, Source, TypeOK
<1>2. OneCapable'
  BY DEF IInv, Seal, Source, TypeOK, OneCapable, Capable
<1>3. SourceStopped'
  BY DEF IInv, Seal, TypeOK, SourceStopped, Source, Capable, Revoked, Checked,
         Carrying, Fenced
<1>4. Entitled'
  BY DEF IInv, Seal, Source, TypeOK, Entitled, Capable, Fenced
<1>5. HistoryCarried'
  BY DEF IInv, Seal, TypeOK, HistoryCarried, Source, Carrying, Fenced
<1>6. HistoryApproved'
  BY DEF IInv, Seal, Source, TypeOK, HistoryApproved
<1> QED BY <1>1, <1>2, <1>3, <1>4, <1>5, <1>6 DEF IInv

LEMMA CheckSourceStep == ASSUME IInv, CheckSource PROVE IInv'
<1>1. TypeOK'
  BY DEF IInv, CheckSource, Source, TypeOK
<1>2. OneCapable'
  BY DEF IInv, CheckSource, Source, TypeOK, OneCapable, Capable
<1>3. SourceStopped'
  BY DEF IInv, CheckSource, TypeOK, SourceStopped, Source, Capable, Revoked,
         Checked, Carrying, Fenced
<1>4. Entitled'
  BY DEF IInv, CheckSource, Source, TypeOK, Entitled, Capable, Fenced
<1>5. HistoryCarried'
  BY DEF IInv, CheckSource, TypeOK, HistoryCarried, Source, Carrying, Fenced
<1>6. HistoryApproved'
  BY DEF IInv, CheckSource, Source, TypeOK, HistoryApproved
<1> QED BY <1>1, <1>2, <1>3, <1>4, <1>5, <1>6 DEF IInv

LEMMA ExportStep == ASSUME IInv, Export PROVE IInv'
<1>1. TypeOK'
  BY DEF IInv, Export, Source, TypeOK
<1>2. OneCapable'
  BY DEF IInv, Export, Source, TypeOK, OneCapable, Capable
<1>3. SourceStopped'
  BY DEF IInv, Export, TypeOK, SourceStopped, Source, Capable, Revoked, Checked,
         Carrying, Fenced
<1>4. Entitled'
  BY DEF IInv, Export, Source, TypeOK, Entitled, Capable, Fenced
<1>5. HistoryCarried'
  BY DEF IInv, Export, TypeOK, HistoryCarried, Source, Carrying, Fenced
<1>6. HistoryApproved'
  BY DEF IInv, Export, Source, TypeOK, HistoryApproved
<1> QED BY <1>1, <1>2, <1>3, <1>4, <1>5, <1>6 DEF IInv

LEMMA HardFenceStep == ASSUME IInv, HardFence PROVE IInv'
<1>1. TypeOK'
  BY DEF IInv, HardFence, Source, TypeOK
<1>2. OneCapable'
  BY DEF IInv, HardFence, Source, TypeOK, OneCapable, Capable
<1>3. SourceStopped'
  BY DEF IInv, HardFence, TypeOK, SourceStopped, Source, Capable, Revoked,
         Checked, Carrying, Fenced
<1>4. Entitled'
  BY DEF IInv, HardFence, Source, TypeOK, Entitled, Capable, Fenced
<1>5. HistoryCarried'
  BY DEF IInv, HardFence, TypeOK, HistoryCarried, Source, Carrying, Fenced
<1>6. HistoryApproved'
  BY DEF IInv, HardFence, Source, TypeOK, HistoryApproved
<1> QED BY <1>1, <1>2, <1>3, <1>4, <1>5, <1>6 DEF IInv

LEMMA VerifyFenceStep == ASSUME IInv, VerifyFence PROVE IInv'
<1>1. TypeOK'
  BY DEF IInv, VerifyFence, TypeOK
<1>2. OneCapable'
  BY DEF IInv, VerifyFence, TypeOK, OneCapable, Capable
<1>3. SourceStopped'
  BY DEF IInv, VerifyFence, TypeOK, SourceStopped, Source, Capable, Revoked,
         Checked, Carrying, Fenced
<1>4. Entitled'
  BY DEF IInv, VerifyFence, TypeOK, Entitled, Capable, Fenced
<1>5. HistoryCarried'
  BY DEF IInv, VerifyFence, TypeOK, HistoryCarried, Source, Carrying, Fenced
<1>6. HistoryApproved'
  BY DEF IInv, VerifyFence, TypeOK, HistoryApproved
<1> QED BY <1>1, <1>2, <1>3, <1>4, <1>5, <1>6 DEF IInv

LEMMA ImportStep == ASSUME IInv, Import PROVE IInv'
<1>1. TypeOK'
  BY DEF IInv, Import, TypeOK, HistoryCarried, Source, Carrying, Fenced
<1>2. OneCapable'
  BY DEF IInv, Import, TypeOK, OneCapable, Capable
<1>3. SourceStopped'
  BY DEF IInv, Import, TypeOK, SourceStopped, Source, Capable, Revoked, Checked,
         Carrying, Fenced
<1>4. Entitled'
  BY DEF IInv, Import, TypeOK, Entitled, Capable, Fenced
<1>5. HistoryCarried'
  BY DEF IInv, Import, TypeOK, HistoryCarried, Source, Carrying, Fenced
<1>6. HistoryApproved'
  BY DEF IInv, Import, TypeOK, HistoryApproved
<1> QED BY <1>1, <1>2, <1>3, <1>4, <1>5, <1>6 DEF IInv

LEMMA ApproveStep == ASSUME IInv, Approve PROVE IInv'
<1>1. TypeOK'
  BY DEF IInv, Approve, TypeOK
<1>2. OneCapable'
  BY DEF IInv, Approve, TypeOK, OneCapable, Capable, SourceStopped, Source,
         Revoked, Checked, Carrying, Fenced
<1>3. SourceStopped'
  BY DEF IInv, Approve, TypeOK, SourceStopped, Source, Capable, Revoked,
         Checked, Carrying, Fenced
<1>4. Entitled'
  BY DEF IInv, Approve, TypeOK, Entitled, Capable, Fenced
<1>5. HistoryCarried'
  BY DEF IInv, Approve, TypeOK, HistoryCarried, Source, Carrying, Fenced
<1>6. HistoryApproved'
  BY DEF IInv, Approve, TypeOK, HistoryCarried, Source, Carrying, Fenced,
         HistoryApproved
<1> QED BY <1>1, <1>2, <1>3, <1>4, <1>5, <1>6 DEF IInv

LEMMA AbandonStep == ASSUME IInv, Abandon PROVE IInv'
<1>1. TypeOK'
  BY DEF IInv, Abandon, TypeOK
<1>2. OneCapable'
  BY DEF IInv, Abandon, TypeOK, OneCapable, Capable
<1>3. SourceStopped'
  BY DEF IInv, Abandon, TypeOK, SourceStopped, Source, Capable, Revoked,
         Checked, Carrying, Fenced
<1>4. Entitled'
  BY DEF IInv, Abandon, TypeOK, Entitled, Capable, Fenced
<1>5. HistoryCarried'
  BY DEF IInv, Abandon, TypeOK, HistoryCarried, Source, Carrying, Fenced
<1>6. HistoryApproved'
  BY DEF IInv, Abandon, TypeOK, HistoryApproved
<1> QED BY <1>1, <1>2, <1>3, <1>4, <1>5, <1>6 DEF IInv

---------------------------------------------------------------------------
\* The initial state satisfies the inductive invariant.
LEMMA InitIInv == ASSUME Init PROVE IInv
<1>1. TypeOK
  <2>1. 0 \in 0..MaxSigned
    OBVIOUS
  <2>2. vc \in [Hosts -> Up \cup {"off"}] /\ \A h \in Hosts : pinned[h] = None
    BY DEF Init
  <2>3. /\ sealed \in [Hosts -> BOOLEAN] /\ fence \in [Hosts -> BOOLEAN]
        /\ token \in [Hosts -> {"none", "valid", "expired"}]
        /\ scope \in [Hosts -> {"initial", "full"}]
    BY DEF Init
  <2>4. /\ marker \in [Hosts -> Nat \cup {None}] /\ pinned \in [Hosts -> Nat \cup {None}]
        /\ db \in [Hosts -> 0..MaxSigned] /\ signed \in 0..MaxSigned
    BY <2>1 DEF Init
  <2>5. /\ step \in Steps /\ (step # "idle" => target \in Hosts) /\ carried \in Nat \cup {None}
        /\ last \in Hosts /\ wasOff \in BOOLEAN
    BY DEF Init
  <2> QED BY <2>2, <2>3, <2>4, <2>5 DEF TypeOK
<1> QED
  BY <1>1 DEF Init, IInv, OneCapable, SourceStopped, Entitled, HistoryCarried, HistoryApproved,
              Capable, Revoked, Checked, Carrying, Fenced

\* The steps together.
LEMMA NextIInv == ASSUME IInv, [Next]_vars PROVE IInv'
<1>1. ASSUME NEW h \in Hosts, Start(h) PROVE IInv'
  BY <1>1, StartStep
<1>2. ASSUME NEW h \in Hosts, Stop(h) PROVE IInv'
  BY <1>2, StopStep
<1>3. ASSUME NEW h \in Hosts, InitialGate(h) PROVE IInv'
  BY <1>3, InitialGateStep
<1>4. ASSUME NEW h \in Hosts, GateReads(h) PROVE IInv'
  BY <1>4, GateReadsStep
<1>5. ASSUME NEW h \in Hosts, GateEnds(h) PROVE IInv'
  BY <1>5, GateEndsStep
<1>6. ASSUME NEW h \in Hosts, Exec(h) PROVE IInv'
  BY <1>6, ExecStep
<1>7. ASSUME NEW h \in Hosts, Sign(h) PROVE IInv'
  BY <1>7, SignStep
<1>8. ASSUME NEW h \in Hosts, LeaseFence(h) PROVE IInv'
  BY <1>8, LeaseFenceStep
<1>9. ASSUME NEW h \in Hosts, Expire(h) PROVE IInv'
  BY <1>9, ExpireStep
<1>10. ASSUME NEW h \in Hosts, Age(h) PROVE IInv'
  BY <1>10, AgeStep
<1>11. ASSUME NEW h \in Hosts, PowerOn(h) PROVE IInv'
  BY <1>11, PowerOnStep
<1>12. ASSUME NEW h \in Hosts, Unseal(h) PROVE IInv'
  BY <1>12, UnsealStep
<1>13. ASSUME NEW h \in Hosts, Renew(h) PROVE IInv'
  BY <1>13, RenewStep
<1>14. ASSUME NEW h \in Hosts, RestoreBackup(h) PROVE IInv'
  BY <1>14, RestoreBackupStep
<1>15. ASSUME NEW h \in Hosts, Begin(h) PROVE IInv'
  BY <1>15, BeginStep
<1>16. CASE StopSource
  BY <1>16, StopSourceStep
<1>17. CASE Revoke
  BY <1>17, RevokeStep
<1>18. CASE Seal
  BY <1>18, SealStep
<1>19. CASE CheckSource
  BY <1>19, CheckSourceStep
<1>20. CASE Export
  BY <1>20, ExportStep
<1>21. CASE HardFence
  BY <1>21, HardFenceStep
<1>22. CASE VerifyFence
  BY <1>22, VerifyFenceStep
<1>23. CASE Import
  BY <1>23, ImportStep
<1>24. CASE Approve
  BY <1>24, ApproveStep
<1>25. CASE Abandon
  BY <1>25, AbandonStep
<1>26. CASE UNCHANGED vars
  <2> USE <1>26 DEF vars
  <2>1. TypeOK'
    BY DEF IInv, TypeOK
  <2>2. OneCapable'
    BY DEF IInv, OneCapable, Capable
  <2>3. SourceStopped'
    BY DEF IInv, SourceStopped, Source, Capable, Revoked, Checked, Carrying, Fenced
  <2>4. Entitled'
    BY DEF IInv, Entitled, Capable, Fenced
  <2>5. HistoryCarried'
    BY DEF IInv, HistoryCarried, Source, Carrying, Fenced
  <2>6. HistoryApproved'
    BY DEF IInv, HistoryApproved
  <2> QED BY <2>1, <2>2, <2>3, <2>4, <2>5, <2>6 DEF IInv
<1> QED
  BY <1>1, <1>2, <1>3, <1>4, <1>5, <1>6, <1>7, <1>8, <1>9, <1>10, <1>11, <1>12, <1>13,
     <1>14, <1>15, <1>16, <1>17, <1>18, <1>19, <1>20, <1>21, <1>22, <1>23, <1>24, <1>25,
     <1>26 DEF Next, Host, People, Procedure

\* Only the exec after a passed gate makes a host sign.
LEMMA OnlyExecSigns ==
  ASSUME TypeOK, [Next]_vars, NEW g \in Hosts, vc[g] # "signing", vc'[g] = "signing"
  PROVE  Exec(g)
<1>1. ASSUME NEW h \in Hosts, Start(h) PROVE FALSE
  BY <1>1 DEF Start, TypeOK
<1>2. ASSUME NEW h \in Hosts, Stop(h) PROVE FALSE
  BY <1>2 DEF Stop, TypeOK
<1>3. ASSUME NEW h \in Hosts, InitialGate(h) PROVE FALSE
  BY <1>3 DEF InitialGate, TypeOK
<1>4. ASSUME NEW h \in Hosts, GateReads(h) PROVE FALSE
  BY <1>4 DEF GateReads, TypeOK
<1>5. ASSUME NEW h \in Hosts, GateEnds(h) PROVE FALSE
  BY <1>5 DEF GateEnds, TypeOK
<1>6. ASSUME NEW h \in Hosts, Exec(h) PROVE h = g
  BY <1>6 DEF Exec, TypeOK
<1>7. ASSUME NEW h \in Hosts, Sign(h) PROVE FALSE
  BY <1>7 DEF Sign, TypeOK
<1>8. ASSUME NEW h \in Hosts, LeaseFence(h) PROVE FALSE
  BY <1>8 DEF LeaseFence, TypeOK
<1>9. ASSUME NEW h \in Hosts, Expire(h) PROVE FALSE
  BY <1>9 DEF Expire, TypeOK
<1>10. ASSUME NEW h \in Hosts, Age(h) PROVE FALSE
  BY <1>10 DEF Age, TypeOK
<1>11. ASSUME NEW h \in Hosts, PowerOn(h) PROVE FALSE
  BY <1>11 DEF PowerOn, TypeOK
<1>12. ASSUME NEW h \in Hosts, Unseal(h) PROVE FALSE
  BY <1>12 DEF Unseal, TypeOK
<1>13. ASSUME NEW h \in Hosts, Renew(h) PROVE FALSE
  BY <1>13 DEF Renew, TypeOK
<1>14. ASSUME NEW h \in Hosts, RestoreBackup(h) PROVE FALSE
  BY <1>14 DEF RestoreBackup, TypeOK
<1>15. ASSUME NEW h \in Hosts, Begin(h) PROVE FALSE
  BY <1>15 DEF Begin, TypeOK
<1>16. CASE StopSource
  BY <1>16 DEF StopSource, Source, TypeOK
<1>17. CASE Revoke
  BY <1>17 DEF Revoke, TypeOK
<1>18. CASE Seal
  BY <1>18 DEF Seal, TypeOK
<1>19. CASE CheckSource
  BY <1>19 DEF CheckSource, TypeOK
<1>20. CASE Export
  BY <1>20 DEF Export, TypeOK
<1>21. CASE HardFence
  BY <1>21 DEF HardFence, Source, TypeOK
<1>22. CASE VerifyFence
  BY <1>22 DEF VerifyFence, TypeOK
<1>23. CASE Import
  BY <1>23 DEF Import, TypeOK
<1>24. CASE Approve
  BY <1>24 DEF Approve, TypeOK
<1>25. CASE Abandon
  BY <1>25 DEF Abandon, TypeOK
<1>26. CASE UNCHANGED vars
  BY <1>26 DEF vars
<1> QED
  BY <1>1, <1>2, <1>3, <1>4, <1>5, <1>6, <1>7, <1>8, <1>9, <1>10, <1>11, <1>12, <1>13,
     <1>14, <1>15, <1>16, <1>17, <1>18, <1>19, <1>20, <1>21, <1>22, <1>23, <1>24, <1>25,
     <1>26 DEF Next, Host, People, Procedure

\* Whoever signs signed last, so there is one of them and it knows everything.
LEMMA SignersKnow == ASSUME IInv PROVE AtMostOneSigner /\ HistoryNeverForks
<1>1. {h \in Hosts : vc[h] = "signing"} \in {{}, {last}}
  <2>1. \A h \in Hosts : vc[h] = "signing" => h = last
    BY DEF IInv, Entitled
  <2> QED BY <2>1
<1>2. Cardinality({}) = 0 /\ Cardinality({last}) = 1
  BY FS_EmptySet, FS_Singleton
<1>3. AtMostOneSigner
  BY <1>1, <1>2 DEF AtMostOneSigner
<1>4. HistoryNeverForks
  BY DEF IInv, Entitled, HistoryCarried, HistoryNeverForks
<1> QED BY <1>3, <1>4

---------------------------------------------------------------------------
\* The inductive invariant holds throughout: at most one host is able to sign
\* without a further approval, and it has, or can only start with, the whole
\* history (RB-01, RB-02, vc-gate.sh, vc-initial-gate.sh, vc-lease.sh).
THEOREM Invariance == Spec => []IInv
<1> QED BY InitIInv, NextIInv, PTL DEF Spec

\* Types of the model, for every number of messages.
THEOREM TypeCorrect == Spec => []TypeOK
<1>1. IInv => TypeOK
  BY DEF IInv
<1> QED BY <1>1, Invariance, PTL

\* Two validator clients never sign at the same time: the promise of README.md,
\* whoever starts, unseals or powers on what, and wherever a handover stops.
THEOREM AtMostOneSignerAlways == Spec => []AtMostOneSigner
<1> QED BY SignersKnow, Invariance, PTL

\* The running client's slashing-protection database knows every message the
\* validator ever signed, on either host.
THEOREM HistoryNeverForksAlways == Spec => []HistoryNeverForks
<1> QED BY SignersKnow, Invariance, PTL

\* A host that did not sign last starts signing only after the last signer
\* was powered off (the hard fence of RB-01 and RB-02).
THEOREM HandoverThroughFenceAlways == Spec => HandoverThroughFence
<1> DEFINE Entrusted == \A h \in Hosts : vc[h] # "signing" /\ vc'[h] = "signing" => h = last \/ wasOff
<1>1. ASSUME IInv, [Next]_vars PROVE [Entrusted]_vars
  <2>1. ASSUME NEW h \in Hosts, vc[h] # "signing", vc'[h] = "signing" PROVE h = last \/ wasOff
    <3>1. Exec(h)
      BY <1>1, <2>1, OnlyExecSigns DEF IInv
    <3> QED BY <1>1, <3>1 DEF Exec, IInv, Entitled, Capable
  <2> QED BY <2>1
<1> QED BY <1>1, Invariance, PTL DEF Spec, HandoverThroughFence

---------------------------------------------------------------------------
(* The refinement: who signs, and what that client knows, follow from the   *)
(* inductive invariant, so that only what a step does to the messages, the  *)
(* last signer and its release has to be looked at.                         *)

\* One client with the whole history, at the last signer, or none.
Known == Clients = IF vc[last] = "signing" THEN [h \in {last} |-> signed] ELSE Pair!Nobody

LEMMA ClientsKnown == ASSUME IInv PROVE Known
<1>1. last \in Hosts /\ \A h \in Hosts : vc[h] = "signing" => h = last
  BY DEF IInv, TypeOK, Entitled
<1>2. db[last] = signed
  BY DEF IInv, HistoryCarried
<1>3. CASE vc[last] = "signing"
  <2>1. {g \in Hosts : vc[g] = "signing"} = {last}
    BY <1>1, <1>3
  <2> QED BY <1>2, <1>3, <2>1 DEF Clients, Known
<1>4. CASE vc[last] # "signing"
  <2>1. {g \in Hosts : vc[g] = "signing"} = {}
    BY <1>1, <1>4
  <2> QED BY <1>4, <2>1 DEF Clients, Known, Pair!Nobody
<1> QED BY <1>3, <1>4

\* No step but these three changes the messages, the last signer or its release.
LEMMA PastSteps ==
  ASSUME [Next]_vars
  PROVE  \/ \E h \in Hosts : Exec(h) \/ Sign(h)
         \/ HardFence
         \/ UNCHANGED <<signed, last, wasOff>>
<1>1. ASSUME NEW h \in Hosts, Host(h), ~Exec(h), ~Sign(h) PROVE UNCHANGED <<signed, last, wasOff>>
  BY <1>1 DEF Host, Start, Stop, InitialGate, GateReads, GateEnds, LeaseFence, Expire, Age
<1>2. ASSUME NEW h \in Hosts, People(h) PROVE UNCHANGED <<signed, last, wasOff>>
  BY <1>2 DEF People, PowerOn, Unseal, Renew, RestoreBackup
<1>3. ASSUME Procedure, ~HardFence PROVE UNCHANGED <<signed, last, wasOff>>
  BY <1>3 DEF Procedure, Begin, StopSource, Revoke, Seal, CheckSource, Export, VerifyFence,
              Import, Approve, Abandon
<1>4. CASE UNCHANGED vars
  BY <1>4 DEF vars
<1> QED BY <1>1, <1>2, <1>3, <1>4 DEF Next

LEMMA InitSigning == ASSUME Init PROVE Pair!Init
<1>1. Clients = Pair!Nobody
  BY ClientsKnown, InitIInv DEF Init, Known
<1> QED BY <1>1 DEF Init, Pair!Init

\* A start takes over from nobody, with the whole history, as Signing allows.
LEMMA ExecTakes ==
  ASSUME IInv, Known, Known', NEW h \in Hosts, Exec(h) PROVE Pair!Take(h)
<1>1. Capable(h) /\ ~Capable(Other(h)) /\ last' = h /\ wasOff' = FALSE /\ signed' = signed
  BY DEF IInv, OneCapable, Capable, Exec
<1>2. vc[last] # "signing" /\ vc'[h] = "signing"
  BY <1>1 DEF IInv, TypeOK, Capable, Exec
<1>3. h = last \/ wasOff
  BY <1>1 DEF IInv, Entitled
<1> QED BY <1>1, <1>2, <1>3 DEF Known, Pair!Take

LEMMA SignSigns ==
  ASSUME IInv, Known, Known', NEW h \in Hosts, Sign(h) PROVE Pair!Sign(h)
<1>1. h = last /\ vc[h] = "signing"
  BY DEF IInv, Entitled, Sign
<1>2. Clients = [g \in {h} |-> signed] /\ Clients' = [g \in {h} |-> signed + 1]
  BY <1>1 DEF Known, Sign
<1>3. Clients' = [Clients EXCEPT ![h] = signed + 1] /\ DOMAIN Clients = {h}
  BY <1>2
<1> QED BY <1>3 DEF Sign, Pair!Sign

\* A hard fence of the last signer finds no client at work.
LEMMA FenceReleases ==
  ASSUME IInv, Known, Known', HardFence PROVE Pair!Release \/ UNCHANGED Pair!svars
<1>1. vc[Source] # "signing" /\ Source \in Hosts
  BY DEF IInv, TypeOK, SourceStopped, Capable, Checked, Carrying, HardFence, Source
<1>2. vc'[last] = "signing" <=> vc[last] = "signing"
  BY <1>1 DEF IInv, TypeOK, HardFence
<1>3. Clients' = Clients
  BY <1>2 DEF HardFence, Known, Pair!Nobody
<1>4. CASE last = Source
  BY <1>1, <1>3, <1>4 DEF HardFence, Known, Pair!Release
<1>5. CASE last # Source
  BY <1>3, <1>5 DEF IInv, TypeOK, HardFence, Pair!svars
<1> QED BY <1>4, <1>5

LEMMA StepSigning ==
  ASSUME IInv, Known, Known', [Next]_vars PROVE [Pair!Next]_Pair!svars
<1>1. ASSUME NEW h \in Hosts, Exec(h) PROVE Pair!Next
  BY <1>1, ExecTakes DEF Pair!Next
<1>2. ASSUME NEW h \in Hosts, Sign(h) PROVE Pair!Next
  BY <1>2, SignSigns DEF Pair!Next
<1>3. CASE HardFence
  BY <1>3, FenceReleases DEF Pair!Next
<1>4. CASE UNCHANGED <<signed, last, wasOff>> /\ ~\E h \in Hosts : Exec(h)
  <2>1. vc'[last] = "signing" => vc[last] = "signing"
    BY <1>4, OnlyExecSigns DEF IInv, TypeOK
  <2>2. CASE vc'[last] = "signing"
    BY <1>4, <2>1, <2>2 DEF Known, Pair!svars
  <2>3. CASE vc'[last] # "signing"
    BY <1>4, <2>3 DEF Known, Pair!Next, Pair!Leave, Pair!Nobody
  <2> QED BY <2>2, <2>3
<1> QED BY <1>1, <1>2, <1>3, <1>4, PastSteps

\* The procedures, the gates and everybody around them implement Signing, for any number of
\* messages: every start takes over from nobody, at the last signer or after its hard
\* fence, and with the whole history; whatever else happens is a client that stops, a
\* release, or nothing that Signing speaks of (RB-01, RB-02, vc-gate.sh, vc-initial-gate.sh).
THEOREM ImplementsSigningAlways == Spec => ImplementsSigning
<1>1. Init => Pair!Init
  BY InitSigning
<1>2. IInv => Known
  BY ClientsKnown
<1>3. IInv /\ Known /\ Known' /\ [Next]_vars => [Pair!Next]_Pair!svars
  BY StepSigning
<1> QED BY <1>1, <1>2, <1>3, Invariance, PTL DEF Spec, ImplementsSigning, Pair!Spec
=============================================================================
