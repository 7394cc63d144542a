------------------------------ MODULE VcLease ------------------------------
(***************************************************************************)
(* The self-fence lease of a validator host: shared/scripts/vc-lease.sh,   *)
(* run every minute by vc-lease.timer, against lighthouse-validator.service *)
(* and the people who start it.  The script only ever stops.  It runs one  *)
(* command per step, any of which may fail, while operators start, stop,   *)
(* unmask and unseal the unit or replace the approval token, the gate of a *)
(* starting unit is still evaluating, and the host may reboot.             *)
(*                                                                         *)
(* The gate (ExecStartPre=vc-gate, Restart=no) appears with the two checks *)
(* the lease shares with it.  It reads the token once, and at its end      *)
(* compares the clock with the expiry it read then and looks at the SEALED *)
(* marker again.  Under the scope vc-start-initial it hands over to        *)
(* vc-initial-gate, which looks at the marker first and only once, then at *)
(* the token.                                                              *)
(***************************************************************************)
EXTENDS Integers

CONSTANTS
  Horizon,      \* bound: the clock stops there
  Grace,        \* LEASE_GRACE_S
  Unparseable,  \* an expires_at_utc that date(1) rejects
  None

ASSUME ClockAssumption == Horizon \in Nat /\ Grace \in Nat
ASSUME SentinelAssumption == None \notin Nat /\ Unparseable \notin Nat

VARIABLES
  now,
  config,    \* gate.env present, LEASE_DRY_RUN, EXPECTED_SCOPE = vc-start-initial
  unit,      \* lighthouse-validator.service
  pinned,    \* expires_at_utc the running gate read in a fit token, or None
  enabled, masked, sealed,
  token,     \* approval token: [expires, scope], or None
  pc,        \* step of the running lease check, or "idle"
  clean,     \* every command of the running fence() succeeded so far
  exit,      \* exit status of the last lease check, or None
  partial,   \* a fence() ended unproven and nobody intervened since
  fenced     \* a fence() ended proven and SEALED was not removed since

host  == <<unit, pinned, enabled, masked, sealed, token>>
check == <<pc, clean, exit, partial, fenced>>
vars  == <<now, config, host, check>>

Scopes    == {"expected", "other"}
Configs   == [env : BOOLEAN, dryRun : BOOLEAN, initial : BOOLEAN]
Tokens    == [expires : (0..Horizon) \cup {Unparseable}, scope : Scopes]
Gating    == {"checking", "rechecking", "cleared"}     \* systemd: activating
UnitState == {"inactive", "active"} \cup Gating
FencePCs  == {"stop", "disable", "mask", "seal", "remove", "probe"}

\* The gate's demands on the token that do not depend on the clock.
Valid(t) == t.scope = "expected" /\ t.expires # Unparseable

\* Gates that have looked at the marker for the last time.
PastMarker == {"cleared"} \cup IF config.initial THEN {"rechecking"} ELSE {}

Init ==
  /\ now = 0
  /\ config \in Configs
  /\ unit = "inactive" /\ enabled = FALSE /\ masked = TRUE /\ sealed = TRUE /\ token = None
  /\ pinned = None
  /\ pc = "idle" /\ clean = TRUE /\ exit = None /\ partial = FALSE /\ fenced = FALSE

---------------------------------------------------------------------------
(* The unit and the people around it.                                      *)

Tick == now < Horizon /\ now' = now + 1 /\ UNCHANGED <<config, host, check>>

InstallToken ==
  /\ token' \in Tokens
  /\ UNCHANGED <<now, config, unit, pinned, enabled, masked, sealed, check>>

Unseal ==
  /\ sealed /\ sealed' = FALSE
  /\ fenced' = FALSE
  /\ UNCHANGED <<now, config, unit, pinned, enabled, masked, token, pc, clean, exit, partial>>

Unmask ==
  /\ masked /\ masked' = FALSE
  /\ partial' = FALSE
  /\ UNCHANGED <<now, config, unit, pinned, enabled, sealed, token, pc, clean, exit, fenced>>

Enable ==
  /\ ~masked /\ ~enabled /\ enabled' = TRUE
  /\ UNCHANGED <<now, config, unit, pinned, masked, sealed, token, check>>

Start ==
  /\ unit = "inactive" /\ ~masked
  /\ unit' = "checking" /\ partial' = FALSE
  /\ UNCHANGED <<now, config, pinned, enabled, masked, sealed, token, pc, clean, exit, fenced>>

StopByHand ==
  /\ unit # "inactive" /\ unit' = "inactive" /\ pinned' = None
  /\ UNCHANGED <<now, config, enabled, masked, sealed, token, check>>

\* vc-initial-gate: the marker, then the token and the clock.
InitialGateMarker ==
  /\ unit = "checking" /\ config.initial
  /\ unit' = IF sealed THEN "inactive" ELSE "rechecking"
  /\ UNCHANGED <<now, config, pinned, enabled, masked, sealed, token, check>>

InitialGateToken ==
  /\ unit = "rechecking" /\ config.initial /\ pinned' = None
  /\ unit' = IF token # None /\ Valid(token) /\ token.expires > now THEN "cleared" ELSE "inactive"
  /\ UNCHANGED <<now, config, enabled, masked, sealed, token, check>>

\* vc-gate's only reading of the token, and its first look at the marker.
\* Without a token there is no snapshot and the gate ends at once; a check that
\* fails is counted, and the gate goes on to its end.
GateReads ==
  /\ unit = "checking" /\ ~config.initial
  /\ IF token = None
       THEN unit' = "inactive" /\ UNCHANGED pinned
       ELSE unit' = "rechecking" /\ pinned' = IF Valid(token) /\ ~sealed THEN token.expires ELSE None
  /\ UNCHANGED <<now, config, enabled, masked, sealed, token, check>>

\* Fault variant: the end of the gate looks at the clock only.
GateEndsUnsealed ==
  /\ unit = "rechecking" /\ ~config.initial /\ pinned' = None
  /\ unit' = IF pinned # None /\ pinned > now THEN "cleared" ELSE "inactive"
  /\ UNCHANGED <<now, config, enabled, masked, sealed, token, check>>

\* The end of vc-gate: the clock against the expiry read before, the marker
\* once more.  A failing gate fails the start.
GateEnds ==
  /\ unit = "rechecking" /\ ~config.initial /\ pinned' = None
  /\ unit' = IF pinned # None /\ pinned > now /\ ~sealed THEN "cleared" ELSE "inactive"
  /\ UNCHANGED <<now, config, enabled, masked, sealed, token, check>>

\* ExecStart after the gate exited 0.
Exec ==
  /\ unit = "cleared" /\ unit' = "active"
  /\ UNCHANGED <<now, config, pinned, enabled, masked, sealed, token, check>>

\* An enabled unit that is not masked starts at boot.  A running check dies.
Reboot ==
  /\ unit' = IF enabled /\ ~masked THEN "checking" ELSE "inactive"
  /\ pc' = "idle" /\ pinned' = None
  /\ UNCHANGED <<now, config, enabled, masked, sealed, token, clean, exit, partial, fenced>>

---------------------------------------------------------------------------
(* One lease check.                                                        *)

\* Fault variant: a lease whose grace has passed still counts.
LapsedInTimeExpiryIgnored == token = None

\* The first reasons for fence(): no token, no readable expiry, expired.
LapsedInTime ==
  \/ token = None
  \/ token.expires = Unparseable
  \/ now >= token.expires + Grace

\* The last reason, read from the file again: the token of another role.
WrongScope == token = None \/ token.scope # "expected"

Finish(status) == pc' = "idle" /\ exit' = status

ConfigError ==
  /\ pc = "idle" /\ ~config.env
  /\ Finish(2)
  /\ UNCHANGED <<now, config, host, clean, partial, fenced>>

\* LEASE=NOOP: the unit is neither active nor activating.
Noop ==
  /\ pc = "idle" /\ config.env
  /\ unit = "inactive"
  /\ Finish(0)
  /\ UNCHANGED <<now, config, host, clean, partial, fenced>>

\* The unit was seen active or activating; the token is read next.
SeeUnit ==
  /\ pc = "idle" /\ config.env
  /\ unit # "inactive"
  /\ pc' = "token"
  /\ UNCHANGED <<now, config, host, clean, exit, partial, fenced>>

\* Fault variant: LEASE_DRY_RUN is not honoured.
FenceOrElseWet(lapsed, otherwise) ==
  IF lapsed THEN pc' = "stop" /\ UNCHANGED exit ELSE otherwise

\* fence() begins; a dry run only reports.
FenceOrElse(lapsed, otherwise) ==
  IF ~lapsed THEN otherwise
  ELSE IF config.dryRun THEN Finish(20)
  ELSE pc' = "stop" /\ UNCHANGED exit

ReadExpiry ==
  /\ pc = "token"
  /\ FenceOrElse(LapsedInTime, pc' = "scope" /\ UNCHANGED exit)
  /\ clean' = TRUE
  /\ UNCHANGED <<now, config, host, partial, fenced>>

ReadScope ==
  /\ pc = "scope"
  /\ FenceOrElse(WrongScope, Finish(0))
  /\ UNCHANGED <<now, config, host, clean, partial, fenced>>

\* Each command of fence() runs whether or not the one before it failed.
FollowedBy == [stop |-> "disable", disable |-> "mask", mask |-> "seal", seal |-> "remove",
               remove |-> "probe"]

FenceStop ==
  /\ pc = "stop" /\ pc' = FollowedBy[pc]
  /\ unit' = "inactive" /\ pinned' = None
  /\ UNCHANGED <<now, config, enabled, masked, sealed, token, clean, exit, partial, fenced>>

FenceDisable ==
  /\ pc = "disable" /\ pc' = FollowedBy[pc]
  /\ enabled' = FALSE
  /\ UNCHANGED <<now, config, unit, pinned, masked, sealed, token, clean, exit, partial, fenced>>

FenceMask ==
  /\ pc = "mask" /\ pc' = FollowedBy[pc]
  /\ masked' = TRUE
  /\ UNCHANGED <<now, config, unit, pinned, enabled, sealed, token, clean, exit, partial, fenced>>

FenceSeal ==
  /\ pc = "seal" /\ pc' = FollowedBy[pc]
  /\ sealed' = TRUE
  /\ UNCHANGED <<now, config, unit, pinned, enabled, masked, token, clean, exit, partial, fenced>>

FenceRemove ==
  /\ pc = "remove" /\ pc' = FollowedBy[pc]
  /\ token' = None
  /\ UNCHANGED <<now, config, unit, pinned, enabled, masked, sealed, clean, exit, partial, fenced>>

FenceStepFails ==
  /\ pc \in FencePCs \ {"probe"} /\ pc' = FollowedBy[pc]
  /\ clean' = FALSE
  /\ UNCHANGED <<now, config, host, exit, partial, fenced>>

\* pgrep and the verdict: 10 only if every command succeeded and no VC is left.
Probe ==
  /\ pc = "probe"
  /\ IF clean /\ unit # "active"
       THEN Finish(10) /\ partial' = FALSE /\ fenced' = (sealed /\ unit \notin PastMarker)
       ELSE Finish(20) /\ partial' = TRUE /\ UNCHANGED fenced
  /\ UNCHANGED <<now, config, host, clean>>

\* pgrep itself fails: process absence is not proved.
ProbeFails ==
  /\ pc = "probe"
  /\ Finish(20) /\ partial' = TRUE
  /\ UNCHANGED <<now, config, host, clean, fenced>>

Check ==
  ConfigError \/ Noop \/ SeeUnit \/ ReadExpiry \/ ReadScope \/ FenceStop \/ FenceDisable \/ FenceMask
    \/ FenceSeal \/ FenceRemove \/ Probe

People == InstallToken \/ Unseal \/ Unmask \/ Enable \/ Start \/ StopByHand

Gate == InitialGateMarker \/ InitialGateToken \/ GateReads \/ GateEnds \/ Exec

Next == Tick \/ People \/ Gate \/ Reboot \/ Check \/ FenceStepFails \/ ProbeFails

Spec == Init /\ [][Next]_vars

\* The timer keeps starting the check and the check keeps running (a reboot
\* may kill one check, not every one); a stop tried again and again takes
\* effect in the end.
FairSpec ==
  /\ Spec /\ WF_vars(Check)
  /\ SF_vars(SeeUnit) /\ SF_vars(ReadExpiry) /\ SF_vars(ReadScope) /\ SF_vars(FenceStop)

---------------------------------------------------------------------------
(* Properties.                                                             *)

\* Shape of the host and of the check; a dry run, or a check without
\* gate.env, never reaches a command of fence().
TypeOK ==
  /\ now \in 0..Horizon
  /\ config \in Configs
  /\ unit \in UnitState /\ pinned \in (0..Horizon) \cup {None}
  /\ pinned # None => unit = "rechecking"
  /\ enabled \in BOOLEAN /\ masked \in BOOLEAN /\ sealed \in BOOLEAN
  /\ token \in Tokens \cup {None}
  /\ pc \in {"idle", "token", "scope"} \cup FencePCs
  /\ clean \in BOOLEAN /\ partial \in BOOLEAN /\ fenced \in BOOLEAN
  /\ exit \in {0, 2, 10, 20, None}
  /\ pc # "idle" => config.env
  /\ pc \in FencePCs => ~config.dryRun

\* The two things that entitle this host to sign now.
Unexpired == token # None /\ token.expires # Unparseable /\ now < token.expires + Grace
OwnScope  == token # None /\ token.scope = "expected"

\* The promise of the header of vc-lease.sh: a validator client whose lease has
\* lapsed does not stay alive.  It is stopped, or a person renews the lease,
\* whatever fails on the way, reboots and concurrent starts included.  (Each
\* lapse is taken by itself: the check reads the file twice, and two unfit
\* tokens swapped between the readings, over and over, would pass.)
UnleasedStops ==
  LET Enforced == unit = "active" /\ config.env /\ ~config.dryRun
  IN  /\ (Enforced /\ ~Unexpired) ~> (unit = "inactive" \/ Unexpired)
      /\ (Enforced /\ ~OwnScope) ~> (unit = "inactive" \/ OwnScope)

\* LEASE_FENCE_DONE holds: after a proven fence the client does not run again,
\* through unmasking, new tokens, starts and reboots, until a person removes
\* the SEALED marker.  Excepted is a start whose gate had looked at the marker
\* for the last time before the fence wrote it.
FenceHolds == fenced => (sealed /\ unit # "active")

\* What the comment of vc-lease.service says of status 20: an incomplete fence
\* is left as a failure.  Taken as: no later check reports success while the
\* fence is incomplete and nobody intervened.
IncompleteFenceStaysFailed == (partial /\ ~clean) => exit # 0
=============================================================================
