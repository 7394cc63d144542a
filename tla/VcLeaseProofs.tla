--------------------------- MODULE VcLeaseProofs ---------------------------
(***************************************************************************)
(* Proofs about VcLease for every horizon and every grace period.          *)
(***************************************************************************)
EXTENDS VcLease, TLAPS

\* FenceHolds alone is not inductive: a gate past its last look at the marker
\* still starts the client.  While a proven fence stands there is none.
NoneCleared == fenced => sealed /\ unit \notin {"active"} \cup PastMarker

IInv == TypeOK /\ NoneCleared

USE DEF UnitState, Gating, PastMarker, FencePCs, Scopes

LEMMA InitInv == Init => IInv
<1> SUFFICES ASSUME Init PROVE IInv
  OBVIOUS
<1>1. now \in 0..Horizon
  BY ClockAssumption DEF Init
<1>2. TypeOK
  BY <1>1 DEF Init, TypeOK
<1>3. NoneCleared
  BY DEF Init, NoneCleared
<1>q. QED BY <1>2, <1>3 DEF IInv

\* The people's steps.  Starting or unmasking never undoes the marker, and
\* removing it ends the fence.
LEMMA PeopleInv ==
  ASSUME IInv, People
  PROVE  IInv'
<1> USE DEF IInv, NoneCleared, check
<1>1. CASE InstallToken
  BY <1>1 DEF InstallToken, TypeOK
<1>2. CASE Unseal
  <2>1. sealed' \in BOOLEAN /\ fenced' = FALSE
    BY <1>2 DEF Unseal
  <2>2. UNCHANGED <<now, config, unit, pinned, enabled, masked, token, pc, clean, exit, partial>>
    BY <1>2 DEF Unseal
  <2>3. TypeOK'
    <3> HIDE DEF IInv, NoneCleared
    <3>1. TypeOK
      BY DEF IInv
    <3>2. sealed' \in BOOLEAN /\ fenced' \in BOOLEAN
      BY <2>1
    <3>q. QED BY <2>2, <3>1, <3>2 DEF TypeOK
  <2>4. NoneCleared'
    BY <2>1, <2>2
  <2>q. QED BY <2>3, <2>4
<1>3. CASE Unmask
  <2>1. masked' \in BOOLEAN /\ partial' \in BOOLEAN
    BY <1>3 DEF Unmask
  <2>2. UNCHANGED <<now, config, unit, pinned, enabled, sealed, token, pc, clean, exit, fenced>>
    BY <1>3 DEF Unmask
  <2>3. TypeOK'
    <3> HIDE DEF IInv, NoneCleared
    <3>1. TypeOK
      BY DEF IInv
    <3>q. QED BY <2>1, <2>2, <3>1 DEF TypeOK
  <2>4. NoneCleared'
    BY <2>1, <2>2
  <2>q. QED BY <2>3, <2>4
<1>4. CASE Enable
  BY <1>4 DEF Enable, TypeOK
<1>5. CASE Start
  <2>1. pinned = None
    BY <1>5 DEF Start, TypeOK
  <2>q. QED BY <1>5, <2>1 DEF Start, TypeOK
<1>6. CASE StopByHand
  BY <1>6 DEF StopByHand, TypeOK
<1>q. QED BY <1>1, <1>2, <1>3, <1>4, <1>5, <1>6 DEF People

\* The gates' steps.  A gate that reads a valid token remembers its expiry; a
\* gate that meets the marker fails, so no client is cleared under it.
LEMMA UnitInv ==
  ASSUME IInv, Gate \/ Reboot
  PROVE  IInv'
<1> USE DEF IInv, NoneCleared, check
<1>1. CASE GateReads
  <2>1. CASE token = None
    BY <1>1, <2>1 DEF GateReads, TypeOK
  <2>2. CASE token # None
    <3>1. pinned' \in (0..Horizon) \cup {None}
      BY <1>1, <2>2 DEF GateReads, TypeOK, Tokens, Valid
    <3>2. unit' = "rechecking" /\ UNCHANGED <<now, config, enabled, masked, sealed, token, check>>
      BY <1>1, <2>2 DEF GateReads
    <3>3. TypeOK'
      BY <3>1, <3>2 DEF TypeOK
    <3>4. NoneCleared'
      <4>1. ~config.initial
        BY <1>1 DEF GateReads
      <4>q. QED BY <3>2, <4>1
    <3>q. QED BY <3>3, <3>4
  <2>q. QED BY <2>1, <2>2
<1>2. CASE GateEnds
  BY <1>2 DEF GateEnds, TypeOK
<1>3. CASE Exec
  BY <1>3 DEF Exec, TypeOK
<1>4. CASE Reboot
  BY <1>4 DEF Reboot, TypeOK
<1>5. CASE InitialGateMarker
  BY <1>5 DEF InitialGateMarker, TypeOK
<1>6. CASE InitialGateToken
  BY <1>6 DEF InitialGateToken, TypeOK
<1>q. QED BY <1>1, <1>2, <1>3, <1>4, <1>5, <1>6 DEF Gate

\* The steps of the check before fence(): they change nothing of the host.
LEMMA ReadingInv ==
  ASSUME IInv, ConfigError \/ Noop \/ SeeUnit \/ ReadExpiry \/ ReadScope
  PROVE  IInv'
<1> USE DEF IInv, NoneCleared, host, Finish, FenceOrElse
<1>1. CASE ConfigError
  BY <1>1 DEF ConfigError, TypeOK
<1>2. CASE Noop
  BY <1>2 DEF Noop, TypeOK
<1>3. CASE SeeUnit
  BY <1>3 DEF SeeUnit, TypeOK
<1>4. CASE ReadExpiry
  BY <1>4 DEF ReadExpiry, TypeOK
<1>5. CASE ReadScope
  BY <1>5 DEF ReadScope, TypeOK
<1>q. QED BY <1>1, <1>2, <1>3, <1>4, <1>5

\* The commands of fence(), and their failures.  Only the verdict raises
\* fenced, and it does so over a marker and a unit that is neither running nor
\* cleared to run.
LEMMA FenceInv ==
  ASSUME IInv, FenceStop \/ FenceDisable \/ FenceMask \/ FenceSeal \/ FenceRemove
                 \/ FenceStepFails \/ Probe \/ ProbeFails
  PROVE  IInv'
<1> USE DEF IInv, NoneCleared, host, Finish, FollowedBy
<1>1. CASE FenceStop
  BY <1>1 DEF FenceStop, TypeOK
<1>2. CASE FenceDisable
  BY <1>2 DEF FenceDisable, TypeOK
<1>3. CASE FenceMask
  BY <1>3 DEF FenceMask, TypeOK
<1>4. CASE FenceSeal
  BY <1>4 DEF FenceSeal, TypeOK
<1>5. CASE FenceRemove
  BY <1>5 DEF FenceRemove, TypeOK
<1>6. CASE FenceStepFails
  <2>1. pc' \in FencePCs /\ clean' = FALSE
    BY <1>6 DEF FenceStepFails
  <2>2. config.env /\ ~config.dryRun
    BY <1>6 DEF FenceStepFails, TypeOK
  <2>3. UNCHANGED <<now, config, unit, pinned, enabled, masked, sealed, token, exit, partial, fenced>>
    BY <1>6 DEF FenceStepFails
  <2>q. QED BY <2>1, <2>2, <2>3 DEF TypeOK
<1>7. CASE Probe
  BY <1>7 DEF Probe, TypeOK
<1>8. CASE ProbeFails
  BY <1>8 DEF ProbeFails, TypeOK
<1>q. QED BY <1>1, <1>2, <1>3, <1>4, <1>5, <1>6, <1>7, <1>8

LEMMA NextInv == IInv /\ [Next]_vars => IInv'
<1> SUFFICES ASSUME IInv, [Next]_vars PROVE IInv'
  OBVIOUS
<1>1. CASE Tick
  BY <1>1, ClockAssumption DEF Tick, IInv, TypeOK, NoneCleared, host, check
<1>2. CASE People
  BY <1>2, PeopleInv
<1>3. CASE Gate \/ Reboot
  BY <1>3, UnitInv
<1>4. CASE Check \/ FenceStepFails \/ ProbeFails
  BY <1>4, ReadingInv, FenceInv DEF Check
<1>5. CASE UNCHANGED vars
  BY <1>5 DEF vars, IInv, TypeOK, NoneCleared, host, check
<1>q. QED BY <1>1, <1>2, <1>3, <1>4, <1>5 DEF Next

THEOREM Invariance == Spec => []IInv
  BY InitInv, NextInv, PTL DEF Spec

---------------------------------------------------------------------------
\* The types of the host's and the check's state, and with them that a dry run
\* of vc-lease.sh never reaches a command of fence().
THEOREM TypeCorrect == Spec => []TypeOK
<1>1. IInv => TypeOK
  BY DEF IInv
<1>q. QED BY <1>1, Invariance, PTL

\* LEASE_FENCE_DONE holds for every grace period and every sequence of starts,
\* reboots, renewals and unmaskings: until the marker is removed by a person
\* the validator client does not run.
THEOREM FenceHoldsAlways == Spec => []FenceHolds
<1>1. IInv => FenceHolds
  BY DEF IInv, NoneCleared, FenceHolds
<1>q. QED BY <1>1, Invariance, PTL
=============================================================================
