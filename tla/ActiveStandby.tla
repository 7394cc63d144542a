--------------------------- MODULE ActiveStandby ---------------------------
(***************************************************************************)
(* The Active-Standby transition authority:                                *)
(* shared/scripts/transition-active-standby-state.py with its machine      *)
(* shared/config/active-standby-state-machine.json.  One state document    *)
(* records where a handover of signing authority stands.  An operator      *)
(* submits a request; transition() admits or refuses it, and the result is *)
(* stored only if it is one of the histories history_candidates() lists.   *)
(*                                                                         *)
(* A submission is one step here: the flock, the version check and the     *)
(* durable replacement of the file are the subject of StateFile.  The      *)
(* document and every accepted request name the same incident and pubkey.  *)
(* Refused requests leave the document alone, except that refused keeps    *)
(* the events transition() admitted and valid_state() then threw out.      *)
(***************************************************************************)
EXTENDS Integers, Sequences

CONSTANTS
  RetryMax,      \* retry_max_seconds, in ticks of the clock
  Horizon,       \* bound: the clock stops there
  LeaseKeys,     \* idempotency keys of emergency leases
  Digests,       \* digests an evidence file may have
  BoundDigest,   \* evidence_digest() of the incident id and of the pubkey
  Submissions,   \* the evidence_hashes a request may carry
  Soaks,         \* the soak samples and approvers a request may carry
  None

VARIABLES
  state,     \* the state document
  now,       \* utc_now()
  entered,   \* when the retry window of the current handover opened, or None
  refused    \* events admitted by transition() whose result valid_state() refused

vars == <<state, now, entered, refused>>

---------------------------------------------------------------------------
(* The frozen machine.                                                     *)

Edge(from, to, modes) == [from |-> from, to |-> to, modes |-> modes]
Normal == {"NORMAL"}

Machine ==
  [INCIDENT_SIGNAL                |-> Edge("S0", "S1", Normal),
   SOURCE_RETAINED                |-> Edge("S1", "S0", Normal),
   F0_APPROVED                    |-> Edge("S1", "S2", Normal),
   F1_PASS                        |-> Edge("S2", "S2", Normal),
   F2_PASS                        |-> Edge("S2", "S2", Normal),
   F3_PASS                        |-> Edge("S2", "S2", Normal),
   F4_PASS                        |-> Edge("S2", "S2", Normal),
   F5_PASS                        |-> Edge("S2", "S2", Normal),
   F6_PASS                        |-> Edge("S2", "S2", Normal),
   F7_PASS                        |-> Edge("S2", "S2", Normal),
   F8_RETRY_ENTER                 |-> Edge("S2", "S2", Normal),
   F8_COMPLETE                    |-> Edge("S2", "S3", {"NORMAL", "F8_RETRY_ONLY"}),
   F8_RETRY_CONTAIN_ENTER         |-> Edge("S2", "S2", {"F8_RETRY_ONLY"}),
   F8_RETRY_ABORT_CONTAINED       |-> Edge("S2", "S2", {"F8_CONTAINMENT_ONLY"}),
   FAILBACK_APPROVED              |-> Edge("S3", "S4", Normal),
   F3_PRIME_PASS                  |-> Edge("S4", "S4", Normal),
   F1_PRIME_PASS                  |-> Edge("S4", "S4", Normal),
   F2_PRIME_PASS                  |-> Edge("S4", "S4", Normal),
   F5_PRIME_PASS                  |-> Edge("S4", "S4", Normal),
   F6_PRIME_PASS                  |-> Edge("S4", "S4", Normal),
   F7_PRIME_PASS                  |-> Edge("S4", "S4", Normal),
   F8_PRIME_RETRY_ENTER           |-> Edge("S4", "S4", Normal),
   F8_PRIME_COMPLETE              |-> Edge("S4", "S0", {"NORMAL", "F8_PRIME_RETRY_ONLY"}),
   F8_PRIME_RETRY_CONTAIN_ENTER   |-> Edge("S4", "S4", {"F8_PRIME_RETRY_ONLY"}),
   F8_PRIME_RETRY_ABORT_CONTAINED |-> Edge("S4", "S4", {"F8_PRIME_CONTAINMENT_ONLY"})]

Events == DOMAIN Machine

BaseGates  == <<"F0_APPROVED", "F1_PASS", "F2_PASS", "F3_PASS", "F4_PASS",
                "F5_PASS", "F6_PASS", "F7_PASS">>
PrimeGates == <<"F3_PRIME_PASS", "F1_PRIME_PASS", "F2_PRIME_PASS",
                "F5_PRIME_PASS", "F6_PRIME_PASS", "F7_PRIME_PASS">>

RetryEnter   == {"F8_RETRY_ENTER", "F8_PRIME_RETRY_ENTER"}
Completions  == {"F8_COMPLETE", "F8_PRIME_COMPLETE"}
ContainEnter == {"F8_RETRY_CONTAIN_ENTER", "F8_PRIME_RETRY_CONTAIN_ENTER"}
Aborts       == {"F8_RETRY_ABORT_CONTAINED", "F8_PRIME_RETRY_ABORT_CONTAINED"}
PlainEvents  == Events \ (RetryEnter \cup Completions \cup ContainEnter \cup Aborts
                            \cup {"FAILBACK_APPROVED"})

RetryModes       == {"F8_RETRY_ONLY", "F8_PRIME_RETRY_ONLY"}
ContainmentModes == {"F8_CONTAINMENT_ONLY", "F8_PRIME_CONTAINMENT_ONLY"}
Modes            == Normal \cup RetryModes \cup ContainmentModes

RetryMutations == {"FINAL_EVIDENCE_WRITE"}
ContainmentMutations ==
  {"STOP", "MASK", "FRESH_DESCENDANT_SP_EXPORT", "FRESH_DESCENDANT_SP_PRESERVE",
   "RESEAL", "HARD_FENCE", "EVIDENCE_WRITE"}
RequestedMutations == {{}, RetryMutations, ContainmentMutations, {"START"}}

LossReasons == {"RETRY_DEADLINE_EXPIRED", "RETRY_FRESHNESS_LOST"}
NoGoOf == [RETRY_DEADLINE_EXPIRED |-> "F8_RETRY_EXPIRED",
           RETRY_FRESHNESS_LOST   |-> "F8_RETRY_FRESHNESS_LOST"]

Prime(event) == event \in {"F8_PRIME_RETRY_ENTER", "F8_PRIME_RETRY_CONTAIN_ENTER"}
RetryModeOf(event)   == IF Prime(event) THEN "F8_PRIME_RETRY_ONLY" ELSE "F8_RETRY_ONLY"
ContainModeOf(event) ==
  IF Prime(event) THEN "F8_PRIME_CONTAINMENT_ONLY" ELSE "F8_CONTAINMENT_ONLY"

---------------------------------------------------------------------------
(* history_candidates(): every history a state document may claim.         *)

Incident == {"INCIDENT_SIGNAL", "INCIDENT_BINDING", "PUBKEY_BINDING"}
RetryEvidence == [F8_RETRY_ENTER |-> {"AWS_FENCE_FRESH", "STANDBY_SOLE_SIGNER"},
                  F8_PRIME_RETRY_ENTER |-> {"STANDBY_HARD_FENCE_FRESH", "AWS_SOLE_SIGNER"}]

History(transition, from, to, mode, last, version, keys, noGo, retry, purpose) ==
  [transition |-> transition, from |-> from, to |-> to, mode |-> mode, last |-> last,
   version |-> version, keys |-> keys, noGo |-> noGo, retry |-> retry, purpose |-> purpose]

Plain(transition, from, to, last, version, keys) ==
  History(transition, from, to, "NORMAL", last, version, keys, None, FALSE, "OPERATIONAL")

\* A retry window entered after gate `last`, and the two ways to contain it.
RetryHistories(enter, contain, abort, at, last, version, keys) ==
  {History(enter, at, at, RetryModeOf(enter), last, version, keys, None, TRUE, "OPERATIONAL")}
  \cup {History(contain, at, at, ContainModeOf(contain), last, version + 1,
                keys \cup {loss}, NoGoOf[loss], TRUE, "EMERGENCY") : loss \in LossReasons}
  \cup {History(abort, at, at, "NORMAL", last, version + 2,
                keys \cup {loss} \cup ContainmentMutations, NoGoOf[loss], TRUE, "OPERATIONAL")
          : loss \in LossReasons}

GateKeys(gates, n) == {gates[i] : i \in 1..n}
BaseKeys   == Incident \cup GateKeys(BaseGates, 8)
\* After F8, which has state version v: 11 if there was a retry, else 10.
F8Keys(v) ==
  BaseKeys \cup {"F8_COMPLETE"} \cup (IF v = 11 THEN RetryEvidence["F8_RETRY_ENTER"] ELSE {})
S4Keys(v, n) == F8Keys(v) \cup {"STANDBY_SIGNING_SOAK_60M"} \cup GateKeys(PrimeGates, n)

ForwardHistories ==
  {Plain("INITIALIZED", "S0", "S0", None, 0, {}),
   Plain("INCIDENT_SIGNAL", "S0", "S1", "INCIDENT_SIGNAL", 1, Incident),
   Plain("SOURCE_RETAINED", "S1", "S0", "SOURCE_RETAINED", 2, Incident \cup {"SOURCE_RETAINED"})}
  \cup {Plain(BaseGates[i], IF i = 1 THEN "S1" ELSE "S2", "S2", BaseGates[i], i + 1,
              Incident \cup GateKeys(BaseGates, i)) : i \in 1..8}
  \cup RetryHistories("F8_RETRY_ENTER", "F8_RETRY_CONTAIN_ENTER", "F8_RETRY_ABORT_CONTAINED",
                      "S2", "F7_PASS", 10, BaseKeys \cup RetryEvidence["F8_RETRY_ENTER"])

BackwardHistories(v) ==
  LET primeRetryKeys == S4Keys(v, 6) \cup RetryEvidence["F8_PRIME_RETRY_ENTER"] IN
  {Plain("F8_COMPLETE", "S2", "S3", "F8_COMPLETE", v, F8Keys(v)),
   Plain("FAILBACK_APPROVED", "S3", "S4", "FAILBACK_APPROVED", v + 1, S4Keys(v, 0)),
   Plain("F8_PRIME_COMPLETE", "S4", "S0", "F8_PRIME_COMPLETE", v + 8,
         S4Keys(v, 6) \cup {"F8_PRIME_COMPLETE"}),
   Plain("F8_PRIME_COMPLETE", "S4", "S0", "F8_PRIME_COMPLETE", v + 9,
         primeRetryKeys \cup {"F8_PRIME_COMPLETE"})}
  \cup {Plain(PrimeGates[i], "S4", "S4", PrimeGates[i], v + 1 + i, S4Keys(v, i)) : i \in 1..6}
  \cup RetryHistories("F8_PRIME_RETRY_ENTER", "F8_PRIME_RETRY_CONTAIN_ENTER",
                      "F8_PRIME_RETRY_ABORT_CONTAINED", "S4", "F7_PRIME_PASS", v + 8,
                      primeRetryKeys)

Histories == ForwardHistories \cup BackwardHistories(10) \cup BackwardHistories(11)

HistoryOf(s) ==
  History(s.transition, s.from, s.to, s.mode, s.last, s.version, DOMAIN s.evidence,
          s.noGo, s.deadline # None, s.purpose)

ValidState(s) ==
  /\ HistoryOf(s) \in Histories
  /\ \A k \in {"INCIDENT_BINDING", "PUBKEY_BINDING"} \cap DOMAIN s.evidence :
       s.evidence[k] = BoundDigest

---------------------------------------------------------------------------
Time == 0..(Horizon + RetryMax)

ASSUME ClockAssumption == RetryMax \in Nat /\ Horizon \in Nat
ASSUME DigestsAssumption ==
  BoundDigest \in Digests /\ \A ev \in Submissions : \A k \in DOMAIN ev : ev[k] \in Digests
\* There is a lease key, and a loss of freshness can be reported with it.
ASSUME ContainmentAssumption ==
  LeaseKeys # {} /\ \E ev \in Submissions : DOMAIN ev = {"RETRY_FRESHNESS_LOST"}
ASSUME NoneAssumption ==
  /\ None \notin Time
  /\ None \notin Events \cup {"primary", "standby", "F8_RETRY_EXPIRED", "F8_RETRY_FRESHNESS_LOST"}

Init ==
  /\ \E lease \in Time :
       state = [transition |-> "INITIALIZED", from |-> "S0", to |-> "S0", mode |-> "NORMAL",
                last |-> None, version |-> 0, evidence |-> [k \in {} |-> None], noGo |-> None,
                deadline |-> None, lease |-> lease, purpose |-> "OPERATIONAL", consumed |-> {}]
  /\ now = 0
  /\ entered = None
  /\ refused = {}

(* What a request brings besides its event and its evidence.               *)
Offers == [lease : Time, purpose : {"OPERATIONAL", "EMERGENCY"}, mutations : RequestedMutations]

\* enforce_gate_order: the gate that must be the last one completed.
Predecessor ==
  [F0_APPROVED |-> "INCIDENT_SIGNAL", F1_PASS |-> "F0_APPROVED", F2_PASS |-> "F1_PASS",
   F3_PASS |-> "F2_PASS", F4_PASS |-> "F3_PASS", F5_PASS |-> "F4_PASS",
   F6_PASS |-> "F5_PASS", F7_PASS |-> "F6_PASS",
   F8_RETRY_ENTER |-> "F7_PASS", F8_COMPLETE |-> "F7_PASS",
   FAILBACK_APPROVED |-> "F8_COMPLETE",
   F3_PRIME_PASS |-> "FAILBACK_APPROVED", F1_PRIME_PASS |-> "F3_PRIME_PASS",
   F2_PRIME_PASS |-> "F1_PRIME_PASS", F5_PRIME_PASS |-> "F2_PRIME_PASS",
   F6_PRIME_PASS |-> "F5_PRIME_PASS", F7_PRIME_PASS |-> "F6_PRIME_PASS",
   F8_PRIME_RETRY_ENTER |-> "F7_PRIME_PASS", F8_PRIME_COMPLETE |-> "F7_PRIME_PASS"]

\* Fault variant: any gate may follow any other.
GateOrderIgnored(event) == event \in Events

GateOrder(event) == event \in DOMAIN Predecessor => state.last = Predecessor[event]

ExpectedEvidence(event, loss) ==
  IF event \in RetryEnter THEN RetryEvidence[event]
  ELSE IF event \in ContainEnter THEN {loss} \cap LossReasons
  ELSE IF event \in Aborts THEN ContainmentMutations
  ELSE IF event = "FAILBACK_APPROVED" THEN {"STANDBY_SIGNING_SOAK_60M"}
  ELSE {event}

\* Fault variant: a resubmitted key may carry another digest.
EvidenceUnchecked(event, loss, ev) ==
  LET required == ExpectedEvidence(event, loss) IN
    /\ required # {} /\ required \subseteq DOMAIN ev
    /\ DOMAIN ev \subseteq required \cup DOMAIN state.evidence

\* validate_evidence: nothing recorded changes, nothing required is missing,
\* nothing else comes along.
Evidence(event, loss, ev) ==
  LET required == ExpectedEvidence(event, loss) IN
    /\ \A k \in DOMAIN ev \cap DOMAIN state.evidence : ev[k] = state.evidence[k]
    /\ required # {} /\ required \subseteq DOMAIN ev
    /\ DOMAIN ev \subseteq required \cup DOMAIN state.evidence

\* Fault variant: an expired lease also stops the entry into containment.
AdmitLeased(event, offer) ==
  /\ state.noGo = None \/ state.mode \in ContainmentModes
  /\ Machine[event].from = state.to
  /\ state.mode \in Machine[event].modes
  /\ state.lease > now
  /\ offer.lease > now
  /\ offer.purpose = IF event \in ContainEnter THEN "EMERGENCY" ELSE "OPERATIONAL"
  /\ GateOrder(event)

\* The refusals of transition() that every event shares.
Admit(event, offer) ==
  /\ state.noGo = None \/ state.mode \in ContainmentModes
  /\ Machine[event].from = state.to
  /\ state.mode \in Machine[event].modes
  /\ event \notin ContainEnter => state.lease > now
  /\ offer.lease > now
  /\ offer.purpose = IF event \in ContainEnter THEN "EMERGENCY" ELSE "OPERATIONAL"
  /\ GateOrder(event)
  /\ ValidState(state)

\* evidence_hashes.update(): the request's entries win.
Updated(ev) == [k \in DOMAIN ev \cup DOMAIN state.evidence |->
                  IF k \in DOMAIN ev THEN ev[k] ELSE state.evidence[k]]

Result(event, offer, ev, last, mode, deadline, noGo, consumed) ==
  [transition |-> event, from |-> state.to, to |-> Machine[event].to, mode |-> mode,
   last |-> last, version |-> state.version + 1, evidence |-> Updated(ev), noGo |-> noGo,
   deadline |-> deadline, lease |-> offer.lease, purpose |-> offer.purpose,
   consumed |-> consumed]

\* main(): the result is written only if valid_state() accepts it; then the
\* retry window is the one that opened at `opened`.
Store(new, opened) ==
  IF ValidState(new) THEN state' = new /\ entered' = opened /\ UNCHANGED refused
  ELSE refused' = refused \cup {new.transition} /\ UNCHANGED <<state, entered>>

---------------------------------------------------------------------------
(* One action per branch of transition().                                  *)

\* INCIDENT_SIGNAL also records what the document is bound to.
Recorded(event, ev) ==
  LET bound == IF event = "INCIDENT_SIGNAL" THEN {"INCIDENT_BINDING", "PUBKEY_BINDING"} ELSE {}
  IN [k \in DOMAIN ev \cup bound |-> IF k \in bound THEN BoundDigest ELSE ev[k]]

\* INCIDENT_SIGNAL, SOURCE_RETAINED and the gates of both directions.
Advance(event, offer) ==
  /\ offer.mutations = {}
  /\ Admit(event, offer)
  /\ \E ev \in Submissions :
       /\ Evidence(event, None, ev)
       /\ Store(Result(event, offer, Recorded(event, ev), event, state.mode, state.deadline,
                       state.noGo, state.consumed), entered)
  /\ UNCHANGED now

\* validate_soak: 13 clean samples exactly 300 s apart, two distinct approvers.
ValidSoak(soak) ==
  /\ Len(soak.samples) = 13
  /\ Len(soak.approvers) = 2 /\ soak.approvers[1] # soak.approvers[2]
  /\ \A i \in 1..12 : soak.samples[i + 1].at - soak.samples[i].at = 300
  /\ soak.samples[13].at - soak.samples[1].at = 3600
  /\ \A i \in 1..13 : /\ soak.samples[i].fenced
                      /\ soak.samples[i].conflicts = 0 /\ soak.samples[i].slashings = 0

FailbackApproved(offer, soak) ==
  /\ offer.mutations = {}
  /\ Admit("FAILBACK_APPROVED", offer)
  /\ \E ev \in Submissions :
       /\ Evidence("FAILBACK_APPROVED", None, ev)
       /\ ValidSoak(soak)
       /\ Store(Result("FAILBACK_APPROVED", offer, ev, "FAILBACK_APPROVED", state.mode,
                       state.deadline, state.noGo, state.consumed), entered)
  /\ UNCHANGED now

EnterRetry(event, offer, deadline) ==
  /\ offer.mutations = {}
  /\ deadline > now /\ deadline - now <= RetryMax
  /\ Admit(event, offer)
  /\ \E ev \in Submissions :
       /\ Evidence(event, None, ev)
       /\ Store(Result(event, offer, ev, state.last, RetryModeOf(event), deadline, state.noGo,
                       state.consumed), now)
  /\ UNCHANGED now

\* Fault variant: the deadline of the retry window is not looked at.
CompleteLate(event, offer) ==
  /\ Admit(event, offer)
  /\ offer.mutations = IF state.mode \in RetryModes THEN RetryMutations ELSE {}
  /\ \E ev \in Submissions :
       /\ Evidence(event, None, ev)
       /\ Store(Result(event, offer, ev, event, "NORMAL", None, state.noGo, state.consumed), None)
  /\ UNCHANGED now

Complete(event, offer) ==
  /\ Admit(event, offer)
  /\ IF state.mode \in RetryModes
       THEN /\ offer.mutations = RetryMutations
            /\ state.deadline # None /\ state.deadline > now
       ELSE offer.mutations = {}
  /\ \E ev \in Submissions :
       /\ Evidence(event, None, ev)
       /\ Store(Result(event, offer, ev, event, "NORMAL", None, state.noGo, state.consumed), None)
  /\ UNCHANGED now

\* The entry into containment that a request asks for is open,
Containable(event, offer, loss, key, ev) ==
  /\ offer.mutations = {}
  /\ Admit(event, offer)
  /\ key \notin state.consumed
  /\ state.deadline # None
  /\ loss \in LossReasons
  /\ loss = "RETRY_DEADLINE_EXPIRED" => now >= state.deadline
  /\ Evidence(event, loss, ev)

\* and what becomes of the document.
Containment(event, offer, loss, key, ev) ==
  Result(event, offer, ev, state.last, ContainModeOf(event), state.deadline, NoGoOf[loss],
         state.consumed \cup {key})

\* Fault variant: the loss reason is consumed in place of the idempotency key.
EnterContainmentKeyLost(event, offer, loss, key) ==
  /\ \E ev \in Submissions : /\ Containable(event, offer, loss, key, ev)
                            /\ Store(Containment(event, offer, loss, loss, ev), entered)
  /\ UNCHANGED now

EnterContainment(event, offer, loss, key) ==
  /\ \E ev \in Submissions : /\ Containable(event, offer, loss, key, ev)
                            /\ Store(Containment(event, offer, loss, key, ev), entered)
  /\ UNCHANGED now

AbortContained(event, offer) ==
  /\ offer.mutations = ContainmentMutations
  /\ Admit(event, offer)
  /\ \E ev \in Submissions :
       /\ Evidence(event, None, ev)
       /\ Store(Result(event, offer, ev, state.last, "NORMAL", state.deadline, state.noGo,
                       state.consumed), entered)
  /\ UNCHANGED now

Tick ==
  /\ now < Horizon
  /\ now' = now + 1
  /\ UNCHANGED <<state, entered, refused>>

Submit ==
  \E offer \in Offers :
    \/ \E event \in PlainEvents : Advance(event, offer)
    \/ \E soak \in Soaks : FailbackApproved(offer, soak)
    \/ \E event \in RetryEnter, deadline \in Time : EnterRetry(event, offer, deadline)
    \/ \E event \in Completions : Complete(event, offer)
    \/ \E event \in ContainEnter, loss \in LossReasons, key \in LeaseKeys :
         EnterContainment(event, offer, loss, key)
    \/ \E event \in Aborts : AbortContained(event, offer)

Next == Submit \/ Tick

Spec == Init /\ [][Next]_vars

---------------------------------------------------------------------------
(* Properties.                                                             *)

EvidenceKeys == BaseKeys \cup RetryEvidence["F8_RETRY_ENTER"]
  \cup RetryEvidence["F8_PRIME_RETRY_ENTER"] \cup LossReasons \cup ContainmentMutations
  \cup {"SOURCE_RETAINED", "F8_COMPLETE", "STANDBY_SIGNING_SOAK_60M", "F8_PRIME_COMPLETE"}
  \cup GateKeys(PrimeGates, 6)

\* Every stored document has the shape of state_version 1 of the schema: a
\* known edge of the machine, a mode, digests under known evidence names.
TypeOK ==
  /\ DOMAIN state = {"transition", "from", "to", "mode", "last", "version", "evidence", "noGo",
                     "deadline", "lease", "purpose", "consumed"}
  /\ state.transition \in Events \cup {"INITIALIZED"}
  /\ state.from \in {"S0", "S1", "S2", "S3", "S4"} /\ state.to \in {"S0", "S1", "S2", "S3", "S4"}
  /\ state.mode \in Modes
  /\ state.last \in Events \cup {None}
  /\ state.version \in Nat
  /\ DOMAIN state.evidence \subseteq EvidenceKeys
  /\ \A k \in DOMAIN state.evidence : state.evidence[k] \in Digests
  /\ state.noGo \in {None, "F8_RETRY_EXPIRED", "F8_RETRY_FRESHNESS_LOST"}
  /\ state.deadline \in Time \cup {None}
  /\ state.lease \in Time
  /\ state.purpose \in {"OPERATIONAL", "EMERGENCY"}
  /\ state.consumed \subseteq LeaseKeys
  /\ now \in 0..Horizon
  /\ entered \in (0..Horizon) \cup {None}
  /\ refused \subseteq Events

\* The guards of transition() and the histories of history_candidates() are
\* two encodings of one protocol, written apart: whatever transition() lets
\* through is a history valid_state() knows.  The exception is a signal after
\* SOURCE_RETAINED or F8_PRIME_COMPLETE, which returned the document to S0:
\* the machine has the edge, no history continues there.
HistoryClosed == refused \subseteq {"INCIDENT_SIGNAL"}

\* Evidence once on record keeps its digest through every later transition,
\* resubmissions, retries and containment included.
EvidenceAppendOnly ==
  [][/\ DOMAIN state.evidence \subseteq DOMAIN state'.evidence
     /\ \A k \in DOMAIN state.evidence : state'.evidence[k] = state.evidence[k]]_vars

\* An operator who loses the retry window can always contain it: in a retry
\* mode the entry into containment is open, whatever became of the lease, with
\* evidence that can be had and a lease key not used yet, and valid_state()
\* accepts what it leads to.
RetryContainable ==
  state.mode \in RetryModes =>
    \E offer \in Offers, event \in ContainEnter, loss \in LossReasons, key \in LeaseKeys,
       ev \in Submissions :
      /\ Containable(event, offer, loss, key, ev)
      /\ ValidState(Containment(event, offer, loss, key, ev))

Holder == [S0 |-> "primary", S1 |-> "primary", S2 |-> None, S3 |-> "standby", S4 |-> None]

StandbyChecklist == BaseKeys \cup {"F8_COMPLETE"}
Checklists ==
  [standby |-> StandbyChecklist,
   primary |-> StandbyChecklist \cup {"STANDBY_SIGNING_SOAK_60M", "F8_PRIME_COMPLETE"}
                 \cup GateKeys(PrimeGates, 6)]

Abstract == INSTANCE Handover WITH
  Items     <- EvidenceKeys,
  Checklist <- Checklists,
  Window    <- RetryMax,
  holder    <- Holder[state.to],
  done      <- DOMAIN state.evidence,
  abandoned <- state.noGo # None,
  opened    <- entered

\* The authority keeps the promise of Handover: one holder at a time, nobody
\* in between, the whole checklist first, no completion after the window.
ImplementsHandover == Abstract!Spec
=============================================================================
