------------------------------ MODULE Failover ------------------------------
(***************************************************************************)
(* Handovers of signing authority between the two validator hosts: the     *)
(* planned procedures RB-01 (Primary to Standby) and RB-02 (back), the     *)
(* gates they must pass (vc-gate.sh, vc-initial-gate.sh), the lease        *)
(* (vc-lease.sh) and everybody else who can touch a host.                  *)
(*                                                                         *)
(* Two operators carry out one procedure at a time, in the order of the    *)
(* runbook, and may abandon it anywhere.  Besides them, at any moment and  *)
(* on either host: a person starts or stops the unit, removes the SEALED   *)
(* marker or powers the host on, the host reboots, a token expires, fence  *)
(* evidence grows stale, the lease fences, and somebody loads an old       *)
(* backup into a slashing-protection database.                             *)
(*                                                                         *)
(* Masking and enabling the unit are not state: whoever starts it may have *)
(* unmasked it, and a boot may start it.  What is shown does not rest on   *)
(* them.  Time is what it does: a token expires, evidence becomes stale.   *)
(***************************************************************************)
EXTENDS Integers, FiniteSets

CONSTANTS
  Primary, Standby,
  MaxSigned,  \* bound: messages signed
  None

ASSUME HostAssumption == Primary # Standby
ASSUME NoneAssumption == None \notin Nat \cup {Primary, Standby} /\ MaxSigned \in Nat

VARIABLES
  vc,       \* per host: power, unit and gate
  sealed,   \* per host, the SEALED marker
  token,    \* per host, approval.token
  scope,    \* per host, EXPECTED_SCOPE of gate.env
  fence,    \* per host, source-fence.json in force: the other host was seen stopped
  marker,   \* per host, the database hash in sp-import-approved, or None
  pinned,   \* per host, the marker a gate pinned when all its checks passed, or None
  db,       \* per host, the last message its slashing-protection database knows
  signed,   \* messages the validator has signed
  step,     \* where the procedure stands
  target,   \* the host the procedure hands the authority to, None between procedures
  carried,  \* the history it carries: the export, then the hash noted after the import
  last,     \* the host that started signing last
  wasOff    \* that host has been powered off since

gateVars == <<sealed, token, scope, fence, marker>>
procVars == <<step, target, carried>>
pastVars == <<last, wasOff>>
vars == <<vc, gateVars, pinned, db, signed, procVars, pastVars>>

Hosts    == {Primary, Standby}
Other(h) == IF h = Primary THEN Standby ELSE Primary

InGate == {"reading", "ending"}
Up     == {"down", "cleared", "signing"} \cup InGate

\* The procedure, in the order of the runbook.
Steps == {"idle", "begun", "stopped", "revoked", "sealed", "checked", "exported", "powered off",
          "verified", "imported"}

Set(f, h, v) == [f EXCEPT ![h] = v]

Init ==
  /\ vc = [h \in Hosts |-> "down"]
  /\ sealed = [h \in Hosts |-> h = Standby]
  /\ token = [h \in Hosts |-> IF h = Primary THEN "valid" ELSE "none"]
  /\ scope = [h \in Hosts |-> IF h = Primary THEN "initial" ELSE "full"]
  /\ fence = [h \in Hosts |-> FALSE]
  /\ marker = [h \in Hosts |-> None] /\ pinned = [h \in Hosts |-> None]
  /\ db = [h \in Hosts |-> 0] /\ signed = 0
  /\ step = "idle" /\ target = None /\ carried = None
  /\ last = Primary /\ wasOff = FALSE

---------------------------------------------------------------------------
(* A host: unit, gates, validator client.                                  *)

\* systemctl start, by a person or at boot, after unmasking if need be.
Start(h) ==
  /\ vc[h] = "down"
  /\ vc' = Set(vc, h, "reading")
  /\ UNCHANGED <<gateVars, pinned, db, signed, procVars, pastVars>>

\* Fault variant: what a gate pinned outlives the gate.
StopLeavesPinned(h) ==
  /\ vc[h] \in Up \ {"down"}
  /\ vc' = Set(vc, h, "down")
  /\ UNCHANGED <<gateVars, pinned, db, signed, procVars, pastVars>>

\* The unit stops: by hand, by a failing check of its gate, with the process,
\* or because the host reboots (Restart=no).
Stop(h) ==
  /\ vc[h] \in Up \ {"down"}
  /\ vc' = Set(vc, h, "down") /\ pinned' = Set(pinned, h, None)
  /\ UNCHANGED <<gateVars, db, signed, procVars, pastVars>>

\* vc-initial-gate looks at the marker, then at the token, at nothing else
\* that concerns the other host.
InitialGate(h) ==
  /\ scope[h] = "initial"
  /\ \/ vc[h] = "reading" /\ ~sealed[h] /\ vc' = Set(vc, h, "ending")
     \/ vc[h] = "ending" /\ token[h] = "valid" /\ vc' = Set(vc, h, "cleared")
  /\ UNCHANGED <<gateVars, pinned, db, signed, procVars, pastVars>>

\* The checks on the pinned inputs: token, marker of the host, fence evidence
\* of the other one, and the database against the hash in sp-import-approved.
Approved(h) ==
  token[h] = "valid" /\ ~sealed[h] /\ fence[h] /\ marker[h] = db[h]

\* vc-gate reads its inputs.  A failure counts, the gate goes on to its end.
GateReads(h) ==
  /\ vc[h] = "reading" /\ scope[h] = "full"
  /\ vc' = Set(vc, h, "ending")
  /\ pinned' = Set(pinned, h, IF Approved(h) THEN marker[h] ELSE None)
  /\ UNCHANGED <<gateVars, db, signed, procVars, pastVars>>

\* Fault variant: the end of the gate looks at the clock and at SEALED only.
GateEndsUnhashed(h) ==
  /\ vc[h] = "ending" /\ scope[h] = "full"
  /\ pinned[h] # None
  /\ token[h] # "expired" /\ fence[h] /\ ~sealed[h]
  /\ vc' = Set(vc, h, "cleared") /\ pinned' = Set(pinned, h, None)
  /\ UNCHANGED <<gateVars, db, signed, procVars, pastVars>>

\* The final re-check: times against the clock, the bytes of the marker and of
\* the database against what was pinned, SEALED.  The token is not read again.
GateEnds(h) ==
  /\ vc[h] = "ending" /\ scope[h] = "full"
  /\ pinned[h] # None
  /\ token[h] # "expired" /\ fence[h] /\ ~sealed[h]
  /\ marker[h] = pinned[h] /\ db[h] = pinned[h]
  /\ vc' = Set(vc, h, "cleared") /\ pinned' = Set(pinned, h, None)
  /\ UNCHANGED <<gateVars, db, signed, procVars, pastVars>>

Exec(h) ==
  /\ vc[h] = "cleared"
  /\ vc' = Set(vc, h, "signing")
  /\ last' = h /\ wasOff' = FALSE
  /\ UNCHANGED <<gateVars, pinned, db, signed, procVars>>

\* The validator client records in its own database what it signs.
Sign(h) ==
  /\ vc[h] = "signing" /\ signed < MaxSigned
  /\ signed' = signed + 1 /\ db' = Set(db, h, signed + 1)
  /\ UNCHANGED <<vc, gateVars, pinned, procVars, pastVars>>

\* fence() of the lease: each of its commands may fail.  It acts on what a
\* check saw, so it may reach a unit that stopped or a token renewed since.
LeaseFence(h) ==
  /\ vc[h] # "off"
  /\ \E stop, seal, remove \in BOOLEAN :
       /\ vc' = IF stop THEN Set(vc, h, "down") ELSE vc
       /\ pinned' = IF stop THEN Set(pinned, h, None) ELSE pinned
       /\ sealed' = IF seal THEN Set(sealed, h, TRUE) ELSE sealed
       /\ token' = IF remove THEN Set(token, h, "none") ELSE token
  /\ UNCHANGED <<scope, fence, marker, db, signed, procVars, pastVars>>

Expire(h) ==
  /\ token[h] = "valid" /\ token' = Set(token, h, "expired")
  /\ UNCHANGED <<vc, sealed, scope, fence, marker, pinned, db, signed, procVars, pastVars>>

\* FENCE_MAX_AGE_MIN passes.
Age(h) ==
  /\ fence[h] /\ fence' = Set(fence, h, FALSE)
  /\ UNCHANGED <<vc, sealed, token, scope, marker, pinned, db, signed, procVars, pastVars>>

---------------------------------------------------------------------------
(* People outside the procedure.                                           *)

PowerOn(h) ==
  /\ vc[h] = "off" /\ vc' = Set(vc, h, "down")
  /\ UNCHANGED <<gateVars, pinned, db, signed, procVars, pastVars>>

Unseal(h) ==
  /\ vc[h] # "off" /\ sealed[h] /\ sealed' = Set(sealed, h, FALSE)
  /\ UNCHANGED <<vc, token, scope, fence, marker, pinned, db, signed, procVars, pastVars>>

\* The operators renew the token of the running signer.
Renew(h) ==
  /\ step = "idle" /\ vc[h] = "signing" /\ token[h] # "valid"
  /\ token' = Set(token, h, "valid")
  /\ UNCHANGED <<vc, sealed, scope, fence, marker, pinned, db, signed, procVars, pastVars>>

\* An old backup replaces the database of a host that is not the last signer,
\* not later than the end of its gate.
RestoreBackup(h) ==
  /\ h # last /\ vc[h] \in {"down"} \cup InGate /\ scope[h] = "full"
  /\ \E old \in 0..MaxSigned : old < db[h] /\ db' = Set(db, h, old)
  /\ UNCHANGED <<vc, gateVars, pinned, signed, procVars, pastVars>>

---------------------------------------------------------------------------
(* The procedure RB-01 or RB-02, source to target.                         *)

Source == Other(target)

Begin(h) ==
  /\ step = "idle" /\ vc[h] = "down" /\ vc[Other(h)] # "off"
  /\ step' = "begun" /\ target' = h /\ carried' = None
  /\ UNCHANGED <<vc, gateVars, pinned, db, signed, pastVars>>

\* systemctl stop (and disable, and mask).
StopSource ==
  /\ step = "begun" /\ vc[Source] # "off" /\ step' = "stopped"
  /\ vc' = Set(vc, Source, "down") /\ pinned' = Set(pinned, Source, None)
  /\ UNCHANGED <<gateVars, db, signed, target, carried, pastVars>>

\* Fault variant: the token stays where it is.
RevokeForgotten ==
  /\ step = "stopped" /\ vc[Source] # "off" /\ step' = "revoked"
  /\ UNCHANGED <<vc, gateVars, pinned, db, signed, target, carried, pastVars>>

Revoke ==
  /\ step = "stopped" /\ vc[Source] # "off" /\ step' = "revoked"
  /\ token' = Set(token, Source, "none")
  /\ UNCHANGED <<vc, sealed, scope, fence, marker, pinned, db, signed, target, carried, pastVars>>

Seal ==
  /\ step = "revoked" /\ vc[Source] # "off" /\ step' = "sealed"
  /\ sealed' = Set(sealed, Source, TRUE)
  /\ UNCHANGED <<vc, token, scope, fence, marker, pinned, db, signed, target, carried, pastVars>>

\* is-active must print inactive; otherwise the operators begin again.
CheckSource ==
  /\ step = "sealed" /\ vc[Source] # "off"
  /\ step' = IF vc[Source] = "down" THEN "checked" ELSE "begun"
  /\ UNCHANGED <<vc, gateVars, pinned, db, signed, target, carried, pastVars>>

Export ==
  /\ step = "checked" /\ vc[Source] # "off" /\ step' = "exported"
  /\ carried' = db[Source]
  /\ UNCHANGED <<vc, gateVars, pinned, db, signed, target, pastVars>>

\* stop-instances and the wait for "stopped".
HardFence ==
  /\ step = "exported" /\ step' = "powered off"
  /\ vc' = Set(vc, Source, "off") /\ pinned' = Set(pinned, Source, None)
  /\ wasOff' = (wasOff \/ last = Source)
  /\ UNCHANGED <<gateVars, db, signed, target, carried, last>>

\* Operator 2 reads the provider's state; source-fence.json is written.
VerifyFence ==
  /\ step = "powered off" /\ vc[Source] = "off" /\ step' = "verified"
  /\ fence' = Set(fence, target, TRUE)
  /\ UNCHANGED <<vc, sealed, token, scope, marker, pinned, db, signed, target, carried, pastVars>>

\* Lighthouse merges the export into the database of the stopped target.
Import ==
  /\ step = "verified" /\ vc[target] = "down" /\ step' = "imported"
  /\ db' = [db EXCEPT ![target] = IF carried > @ THEN carried ELSE @]
  /\ carried' = db'[target]
  /\ UNCHANGED <<vc, gateVars, pinned, signed, target, pastVars>>

\* sp-import-approved and approval.token are placed.  The rest of the
\* procedure is what anybody may do: remove SEALED, start the unit.
Approve ==
  /\ step = "imported" /\ vc[target] # "off"
  /\ step' = "idle" /\ target' = None /\ carried' = None
  /\ marker' = Set(marker, target, carried)
  /\ token' = Set(token, target, "valid")
  /\ scope' = Set(scope, target, "full")
  /\ UNCHANGED <<vc, sealed, fence, pinned, db, signed, pastVars>>

Abandon ==
  /\ step # "idle"
  /\ step' = "idle" /\ target' = None /\ carried' = None
  /\ UNCHANGED <<vc, gateVars, pinned, db, signed, pastVars>>

---------------------------------------------------------------------------
Host(h) ==
  \/ Start(h) \/ Stop(h) \/ InitialGate(h) \/ GateReads(h) \/ GateEnds(h) \/ Exec(h)
  \/ Sign(h) \/ LeaseFence(h) \/ Expire(h) \/ Age(h)

People(h) == PowerOn(h) \/ Unseal(h) \/ Renew(h) \/ RestoreBackup(h)

Procedure ==
  \/ \E h \in Hosts : Begin(h)
  \/ StopSource \/ Revoke \/ Seal \/ CheckSource \/ Export \/ HardFence \/ VerifyFence
  \/ Import \/ Approve \/ Abandon

Next == (\E h \in Hosts : Host(h) \/ People(h)) \/ Procedure

Spec == Init /\ [][Next]_vars

---------------------------------------------------------------------------
(* Properties.                                                             *)

\* Types; a gate that pinned its inputs is still running.
TypeOK ==
  /\ vc \in [Hosts -> Up \cup {"off"}]
  /\ sealed \in [Hosts -> BOOLEAN] /\ fence \in [Hosts -> BOOLEAN]
  /\ token \in [Hosts -> {"none", "valid", "expired"}]
  /\ scope \in [Hosts -> {"initial", "full"}]
  /\ marker \in [Hosts -> Nat \cup {None}] /\ pinned \in [Hosts -> Nat \cup {None}]
  /\ \A h \in Hosts : pinned[h] # None => vc[h] = "ending"
  /\ db \in [Hosts -> 0..MaxSigned] /\ signed \in 0..MaxSigned
  /\ step \in Steps /\ (step # "idle" => target \in Hosts) /\ carried \in Nat \cup {None}
  /\ last \in Hosts /\ wasOff \in BOOLEAN

\* The promise of the repository: two validator clients never sign at the same
\* time, whoever starts, unseals, reboots or powers on what.
AtMostOneSigner == Cardinality({h \in Hosts : vc[h] = "signing"}) <= 1

\* NO_SIGNING_WITHOUT_FRESH_AUTHENTIC_HISTORY: the client that runs knows every
\* message the validator has ever signed, on either host.
HistoryNeverForks == \A h \in Hosts : vc[h] = "signing" => db[h] = signed

\* Authority changes hosts only through a hard fence: a host starts signing
\* only if it signed last, or the one that did was powered off since.
HandoverThroughFence ==
  [][\A h \in Hosts : vc[h] # "signing" /\ vc'[h] = "signing" => h = last \/ wasOff]_vars

\* Both hosts, whatever the procedures, people and failures do, are one signer
\* with one history that changes hosts only through a hard fence: what Signing
\* promises, with every step of theirs one of its steps or none.
Clients == [h \in {g \in Hosts : vc[g] = "signing"} |-> db[h]]
Pair == INSTANCE Signing WITH First <- Primary, clients <- Clients, released <- wasOff
ImplementsSigning == Pair!Spec
=============================================================================
