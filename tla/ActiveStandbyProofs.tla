------------------------ MODULE ActiveStandbyProofs ------------------------
(***************************************************************************)
(* Theorems about ActiveStandby, for any clock, any evidence requests may  *)
(* carry and any lease keys; the refinement of Handover among them.        *)
(*                                                                         *)
(* The document always claims one of the histories, and the gate last      *)
(* completed with the mode and the no-go reason tells which: so what an    *)
(* admitted request makes of the document is known, and is the next        *)
(* history.                                                                *)
(***************************************************************************)
EXTENDS ActiveStandby, TLAPS

---------------------------------------------------------------------------
(* The histories, taken apart. *)

F8Versions == {10, 11}

\* The histories of a retry window entered at `at` after gate `last`.
Entered(h, enter, at, last, version, keys) ==
  h = History(enter, at, at, RetryModeOf(enter), last, version, keys, None, TRUE, "OPERATIONAL")
Contained(h, contain, at, last, version, keys, loss) ==
  h = History(contain, at, at, ContainModeOf(contain), last, version + 1,
              keys \cup {loss}, NoGoOf[loss], TRUE, "EMERGENCY")
Aborted(h, abort, at, last, version, keys, loss) ==
  h = History(abort, at, at, "NORMAL", last, version + 2,
              keys \cup {loss} \cup ContainmentMutations, NoGoOf[loss], TRUE, "OPERATIONAL")
InRetry(h, enter, contain, abort, at, last, version, keys) ==
  \/ Entered(h, enter, at, last, version, keys)
  \/ \E loss \in LossReasons : Contained(h, contain, at, last, version, keys, loss)
  \/ \E loss \in LossReasons : Aborted(h, abort, at, last, version, keys, loss)

RetryKeys == BaseKeys \cup RetryEvidence["F8_RETRY_ENTER"]
PrimeRetryKeys(v) == S4Keys(v, 6) \cup RetryEvidence["F8_PRIME_RETRY_ENTER"]

BaseRetry(h) ==
  InRetry(h, "F8_RETRY_ENTER", "F8_RETRY_CONTAIN_ENTER", "F8_RETRY_ABORT_CONTAINED",
          "S2", "F7_PASS", 10, RetryKeys)
PrimeRetry(h, v) ==
  InRetry(h, "F8_PRIME_RETRY_ENTER", "F8_PRIME_RETRY_CONTAIN_ENTER",
          "F8_PRIME_RETRY_ABORT_CONTAINED", "S4", "F7_PRIME_PASS", v + 8, PrimeRetryKeys(v))

Forward(h) ==
  \/ h = Plain("INITIALIZED", "S0", "S0", None, 0, {})
  \/ h = Plain("INCIDENT_SIGNAL", "S0", "S1", "INCIDENT_SIGNAL", 1, Incident)
  \/ h = Plain("SOURCE_RETAINED", "S1", "S0", "SOURCE_RETAINED", 2, Incident \cup {"SOURCE_RETAINED"})
  \/ \E i \in 1..8 : h = Plain(BaseGates[i], IF i = 1 THEN "S1" ELSE "S2", "S2", BaseGates[i],
                               i + 1, Incident \cup GateKeys(BaseGates, i))
  \/ BaseRetry(h)
Backward(h, v) ==
  \/ h = Plain("F8_COMPLETE", "S2", "S3", "F8_COMPLETE", v, F8Keys(v))
  \/ h = Plain("FAILBACK_APPROVED", "S3", "S4", "FAILBACK_APPROVED", v + 1, S4Keys(v, 0))
  \/ \E i \in 1..6 : h = Plain(PrimeGates[i], "S4", "S4", PrimeGates[i], v + 1 + i, S4Keys(v, i))
  \/ PrimeRetry(h, v)
  \/ h = Plain("F8_PRIME_COMPLETE", "S4", "S0", "F8_PRIME_COMPLETE", v + 8,
               S4Keys(v, 6) \cup {"F8_PRIME_COMPLETE"})
  \/ h = Plain("F8_PRIME_COMPLETE", "S4", "S0", "F8_PRIME_COMPLETE", v + 9,
               PrimeRetryKeys(v) \cup {"F8_PRIME_COMPLETE"})

LEMMA RetryMembers ==
  ASSUME NEW h, NEW enter, NEW contain, NEW abort, NEW at, NEW last, NEW version, NEW keys
  PROVE  h \in RetryHistories(enter, contain, abort, at, last, version, keys)
           <=> InRetry(h, enter, contain, abort, at, last, version, keys)
BY DEF RetryHistories, InRetry, Entered, Contained, Aborted

LEMMA ForwardMembers == ASSUME NEW h PROVE h \in ForwardHistories <=> Forward(h)
BY RetryMembers DEF ForwardHistories, Forward, BaseRetry, RetryKeys

LEMMA BackwardMembers == ASSUME NEW h, NEW v PROVE h \in BackwardHistories(v) <=> Backward(h, v)
<1> DEFINE gates == {Plain(PrimeGates[i], "S4", "S4", PrimeGates[i], v + 1 + i, S4Keys(v, i)) : i \in 1..6}
<1>1. h \in gates <=>
      \E i \in 1..6 : h = Plain(PrimeGates[i], "S4", "S4", PrimeGates[i], v + 1 + i, S4Keys(v, i))
  OBVIOUS
<1> HIDE DEF gates
<1>2. h \in RetryHistories("F8_PRIME_RETRY_ENTER", "F8_PRIME_RETRY_CONTAIN_ENTER",
                      "F8_PRIME_RETRY_ABORT_CONTAINED", "S4", "F7_PRIME_PASS", v + 8,
                      PrimeRetryKeys(v)) <=> PrimeRetry(h, v)
  BY RetryMembers DEF PrimeRetry
<1>3. BackwardHistories(v) =
        {Plain("F8_COMPLETE", "S2", "S3", "F8_COMPLETE", v, F8Keys(v)),
         Plain("FAILBACK_APPROVED", "S3", "S4", "FAILBACK_APPROVED", v + 1, S4Keys(v, 0)),
         Plain("F8_PRIME_COMPLETE", "S4", "S0", "F8_PRIME_COMPLETE", v + 8,
               S4Keys(v, 6) \cup {"F8_PRIME_COMPLETE"}),
         Plain("F8_PRIME_COMPLETE", "S4", "S0", "F8_PRIME_COMPLETE", v + 9,
               PrimeRetryKeys(v) \cup {"F8_PRIME_COMPLETE"})}
        \cup gates
        \cup RetryHistories("F8_PRIME_RETRY_ENTER", "F8_PRIME_RETRY_CONTAIN_ENTER",
                      "F8_PRIME_RETRY_ABORT_CONTAINED", "S4", "F7_PRIME_PASS", v + 8,
                      PrimeRetryKeys(v))
  BY DEF BackwardHistories, PrimeRetryKeys, gates
<1> QED BY <1>1, <1>2, <1>3 DEF Backward

LEMMA Members ==
  ASSUME NEW h
  PROVE  h \in Histories <=> Forward(h) \/ Backward(h, 10) \/ Backward(h, 11)
BY ForwardMembers, BackwardMembers DEF Histories

\* The gates by name and in their order.
LEMMA Gates ==
  /\ BaseGates[1] = "F0_APPROVED" /\ BaseGates[2] = "F1_PASS" /\ BaseGates[3] = "F2_PASS"
  /\ BaseGates[4] = "F3_PASS" /\ BaseGates[5] = "F4_PASS" /\ BaseGates[6] = "F5_PASS"
  /\ BaseGates[7] = "F6_PASS" /\ BaseGates[8] = "F7_PASS"
  /\ PrimeGates[1] = "F3_PRIME_PASS" /\ PrimeGates[2] = "F1_PRIME_PASS"
  /\ PrimeGates[3] = "F2_PRIME_PASS" /\ PrimeGates[4] = "F5_PRIME_PASS"
  /\ PrimeGates[5] = "F6_PRIME_PASS" /\ PrimeGates[6] = "F7_PRIME_PASS"
BY DEF BaseGates, PrimeGates

---------------------------------------------------------------------------
(* What every history has. *)

States == {"S0", "S1", "S2", "S3", "S4"}

\* It names known evidence; a mode that is normal without a no-go is outside of
\* any retry window; who has just been given authority has the whole checklist.
Sound(h) ==
  /\ h.to \in States /\ h.keys \subseteq EvidenceKeys
  /\ h.mode = "NORMAL" /\ h.noGo = None => h.retry = FALSE
  /\ h.transition = "F8_COMPLETE" => Checklists.standby \subseteq h.keys
  /\ h.transition = "F8_PRIME_COMPLETE" => Checklists.primary \subseteq h.keys

LEMMA EnteredFields ==
  ASSUME NEW h, NEW t, NEW at, NEW last, NEW v, NEW keys, Entered(h, t, at, last, v, keys)
  PROVE  /\ h.transition = t /\ h.from = at /\ h.to = at /\ h.mode = RetryModeOf(t) /\ h.last = last
         /\ h.version = v /\ h.keys = keys /\ h.noGo = None /\ h.retry = TRUE
         /\ h.purpose = "OPERATIONAL"
BY DEF Entered, History

\* A reason of loss is a no-go.
LEMMA NoGos == \A loss \in LossReasons : NoGoOf[loss] # None
BY NoneAssumption DEF NoGoOf, LossReasons

\* Gates completed later are completed too.
LEMMA MoreGates ==
  ASSUME NEW gates, NEW n \in Nat, NEW i \in 0..n
  PROVE  GateKeys(gates, i) \subseteq GateKeys(gates, n)
BY DEF GateKeys

LEMMA KeysKnown ==
  /\ Incident \subseteq EvidenceKeys /\ BaseKeys \subseteq EvidenceKeys /\ RetryKeys \subseteq EvidenceKeys
  /\ {"SOURCE_RETAINED", "F8_PRIME_COMPLETE"} \subseteq EvidenceKeys
  /\ LossReasons \subseteq EvidenceKeys /\ ContainmentMutations \subseteq EvidenceKeys
  /\ \A v : F8Keys(v) \subseteq EvidenceKeys
  /\ \A v : \A i \in 0..6 : S4Keys(v, i) \subseteq EvidenceKeys
  /\ \A v : PrimeRetryKeys(v) \subseteq EvidenceKeys
<1>1. /\ Incident \subseteq BaseKeys /\ BaseKeys \subseteq EvidenceKeys /\ RetryKeys \subseteq EvidenceKeys
      /\ {"SOURCE_RETAINED", "F8_PRIME_COMPLETE"} \subseteq EvidenceKeys
      /\ LossReasons \subseteq EvidenceKeys /\ ContainmentMutations \subseteq EvidenceKeys
  BY DEF EvidenceKeys, BaseKeys, RetryKeys
<1>2. ASSUME NEW v PROVE F8Keys(v) \subseteq EvidenceKeys
  BY DEF F8Keys, EvidenceKeys
<1>3. ASSUME NEW v, NEW i \in 0..6 PROVE S4Keys(v, i) \subseteq EvidenceKeys
  <2>1. GateKeys(PrimeGates, i) \subseteq GateKeys(PrimeGates, 6)
    BY MoreGates
  <2> QED BY <1>2, <2>1 DEF S4Keys, EvidenceKeys
<1>4. ASSUME NEW v PROVE PrimeRetryKeys(v) \subseteq EvidenceKeys
  BY <1>3 DEF PrimeRetryKeys, EvidenceKeys
<1> QED BY <1>1, <1>2, <1>3, <1>4

LEMMA RetrySound ==
  ASSUME NEW h, NEW enter, NEW contain, NEW abort, NEW at \in States, NEW last, NEW v,
         NEW keys \in SUBSET EvidenceKeys,
         {enter, contain, abort} \cap Completions = {}, enter \in RetryEnter,
         InRetry(h, enter, contain, abort, at, last, v, keys)
  PROVE  Sound(h)
<1>1. CASE Entered(h, enter, at, last, v, keys)
  <2>1. h.mode # "NORMAL"
    BY <1>1, EnteredFields DEF RetryModeOf
  <2> QED BY <1>1, <2>1, EnteredFields DEF Sound, Completions
<1>2. CASE \E loss \in LossReasons : Contained(h, contain, at, last, v, keys, loss)
  <2>1. PICK loss \in LossReasons : Contained(h, contain, at, last, v, keys, loss)
    BY <1>2
  <2>2. /\ h.transition = contain /\ h.to = at /\ h.noGo = NoGoOf[loss]
        /\ h.keys = keys \cup {loss}
    BY <2>1 DEF Contained, History
  <2>3. h.noGo # None
    BY <2>2, NoGos
  <2>4. h.keys \subseteq EvidenceKeys
    BY <2>2, KeysKnown
  <2>5. h.transition # "F8_COMPLETE" /\ h.transition # "F8_PRIME_COMPLETE"
    BY <2>2 DEF Completions
  <2> QED BY <2>2, <2>3, <2>4, <2>5 DEF Sound
<1>3. CASE \E loss \in LossReasons : Aborted(h, abort, at, last, v, keys, loss)
  <2>1. PICK loss \in LossReasons : Aborted(h, abort, at, last, v, keys, loss)
    BY <1>3
  <2>2. /\ h.transition = abort /\ h.to = at /\ h.noGo = NoGoOf[loss]
        /\ h.keys = keys \cup {loss} \cup ContainmentMutations
    BY <2>1 DEF Aborted, History
  <2>3. h.noGo # None
    BY <2>2, NoGos
  <2>4. h.keys \subseteq EvidenceKeys
    BY <2>2, KeysKnown
  <2>5. h.transition # "F8_COMPLETE" /\ h.transition # "F8_PRIME_COMPLETE"
    BY <2>2 DEF Completions
  <2> QED BY <2>2, <2>3, <2>4, <2>5 DEF Sound
<1> QED BY <1>1, <1>2, <1>3 DEF InRetry

LEMMA PlainSound ==
  ASSUME NEW t, NEW f, NEW to \in States, NEW last, NEW v, NEW keys \in SUBSET EvidenceKeys,
         t = "F8_COMPLETE" => Checklists.standby \subseteq keys,
         t = "F8_PRIME_COMPLETE" => Checklists.primary \subseteq keys
  PROVE  Sound(Plain(t, f, to, last, v, keys))
<1> DEFINE h == Plain(t, f, to, last, v, keys)
<1>1. h.transition = t /\ h.to = to /\ h.keys = keys /\ h.retry = FALSE
  BY DEF Plain, History
<1> HIDE DEF h
<1>2. Sound(h)
  BY <1>1 DEF Sound
<1> QED BY <1>2 DEF h

LEMMA ForwardSound == ASSUME NEW h, Forward(h) PROVE Sound(h)
<1>1. CASE h = Plain("INITIALIZED", "S0", "S0", None, 0, {})
  BY <1>1, PlainSound DEF States
<1>2. CASE h = Plain("INCIDENT_SIGNAL", "S0", "S1", "INCIDENT_SIGNAL", 1, Incident)
  BY <1>2, PlainSound, KeysKnown DEF States
<1>3. CASE h = Plain("SOURCE_RETAINED", "S1", "S0", "SOURCE_RETAINED", 2,
                     Incident \cup {"SOURCE_RETAINED"})
  BY <1>3, PlainSound, KeysKnown DEF States
<1>4. ASSUME NEW i \in 1..8,
             h = Plain(BaseGates[i], IF i = 1 THEN "S1" ELSE "S2", "S2", BaseGates[i], i + 1,
                       Incident \cup GateKeys(BaseGates, i))
      PROVE  Sound(h)
  <2>1. GateKeys(BaseGates, i) \subseteq GateKeys(BaseGates, 8)
    BY MoreGates
  <2>2. Incident \cup GateKeys(BaseGates, i) \subseteq EvidenceKeys
    BY <2>1, KeysKnown DEF BaseKeys
  <2>3. BaseGates[i] \notin Completions
    BY DEF BaseGates, Completions
  <2> QED BY <1>4, <2>2, <2>3, PlainSound DEF States, Completions
<1>5. CASE BaseRetry(h)
  BY <1>5, RetrySound, KeysKnown DEF BaseRetry, States, Completions, RetryEnter
<1> QED BY <1>1, <1>2, <1>3, <1>4, <1>5 DEF Forward

LEMMA BackwardSound == ASSUME NEW h, NEW v, Backward(h, v) PROVE Sound(h)
<1>1. CASE h = Plain("F8_COMPLETE", "S2", "S3", "F8_COMPLETE", v, F8Keys(v))
  <2>1. Checklists.standby \subseteq F8Keys(v)
    BY DEF Checklists, StandbyChecklist, F8Keys
  <2> QED BY <1>1, <2>1, PlainSound, KeysKnown DEF States
<1>2. CASE h = Plain("FAILBACK_APPROVED", "S3", "S4", "FAILBACK_APPROVED", v + 1, S4Keys(v, 0))
  BY <1>2, PlainSound, KeysKnown DEF States
<1>3. ASSUME NEW i \in 1..6,
             h = Plain(PrimeGates[i], "S4", "S4", PrimeGates[i], v + 1 + i, S4Keys(v, i))
      PROVE  Sound(h)
  <2>1. PrimeGates[i] \notin Completions
    BY DEF PrimeGates, Completions
  <2>2. S4Keys(v, i) \subseteq EvidenceKeys
    BY KeysKnown
  <2> QED BY <1>3, <2>1, <2>2, PlainSound DEF States, Completions
<1>4. CASE PrimeRetry(h, v)
  BY <1>4, RetrySound, KeysKnown DEF PrimeRetry, States, Completions, RetryEnter
<1>5. ASSUME NEW k \in SUBSET EvidenceKeys, S4Keys(v, 6) \subseteq k, NEW n,
             h = Plain("F8_PRIME_COMPLETE", "S4", "S0", "F8_PRIME_COMPLETE", n,
                       k \cup {"F8_PRIME_COMPLETE"})
      PROVE  Sound(h)
  <2>1. Checklists.primary \subseteq k \cup {"F8_PRIME_COMPLETE"}
    BY <1>5 DEF Checklists, StandbyChecklist, F8Keys, S4Keys
  <2>2. k \cup {"F8_PRIME_COMPLETE"} \subseteq EvidenceKeys
    BY KeysKnown
  <2> QED BY <1>5, <2>1, <2>2, PlainSound DEF States
<1>6. S4Keys(v, 6) \subseteq PrimeRetryKeys(v)
  BY DEF PrimeRetryKeys
<1> QED BY <1>1, <1>2, <1>3, <1>4, <1>5, <1>6, KeysKnown DEF Backward

LEMMA HistoriesSound == ASSUME NEW h \in Histories PROVE Sound(h)
BY Members, ForwardSound, BackwardSound

---------------------------------------------------------------------------
(* The invariant. *)

\* The document's retry window is the one that is open, and is short enough.
Windows ==
  /\ entered # None <=> state.deadline # None
  /\ entered # None => entered <= now /\ state.deadline <= entered + RetryMax

IInv == TypeOK /\ ValidState(state) /\ Windows

Times == 0..Horizon
NoGoReasons == {None, "F8_RETRY_EXPIRED", "F8_RETRY_FRESHNESS_LOST"}

\* The clock and None.
LEMMA Clock == /\ \A t \in Time : t \in Int /\ t # None
               /\ \A t \in Times : t \in Int /\ t \in Time /\ t # None
BY ClockAssumption, NoneAssumption DEF Time, Times

\* The fields a document has once its history is a known one.
LEMMA StateSound ==
  ASSUME NEW s, ValidState(s)
  PROVE  /\ s.to \in States /\ DOMAIN s.evidence \subseteq EvidenceKeys
         /\ s.mode = "NORMAL" /\ s.noGo = None => s.deadline = None
         /\ s.transition = "F8_COMPLETE" => Checklists.standby \subseteq DOMAIN s.evidence
         /\ s.transition = "F8_PRIME_COMPLETE" => Checklists.primary \subseteq DOMAIN s.evidence
<1>1. HistoryOf(s) \in Histories
  BY DEF ValidState
<1>2. Sound(HistoryOf(s))
  BY <1>1, HistoriesSound
<1>3. /\ HistoryOf(s).to = s.to /\ HistoryOf(s).keys = DOMAIN s.evidence
      /\ HistoryOf(s).mode = s.mode /\ HistoryOf(s).noGo = s.noGo
      /\ HistoryOf(s).transition = s.transition
  BY DEF HistoryOf, History
<1>4. HistoryOf(s).retry = FALSE => s.deadline = None
  BY DEF HistoryOf, History
<1> QED BY <1>2, <1>3, <1>4 DEF Sound

\* What a request brings in the end: digests that agree with those on record.
Brings(ev) ==
  /\ \A k \in DOMAIN ev : ev[k] \in Digests
  /\ \A k \in DOMAIN ev \cap DOMAIN state.evidence : ev[k] = state.evidence[k]

LEMMA Submitted ==
  ASSUME NEW event, NEW loss, NEW ev \in Submissions, Evidence(event, loss, ev)
  PROVE  Brings(ev)
BY DigestsAssumption DEF Evidence, Brings

LEMMA SubmittedBound ==
  ASSUME NEW event, NEW ev \in Submissions, Evidence(event, None, ev), ValidState(state)
  PROVE  Brings(Recorded(event, ev))
<1>1. Brings(ev)
  BY Submitted
<1>2. \A k \in {"INCIDENT_BINDING", "PUBKEY_BINDING"} \cap DOMAIN state.evidence :
        state.evidence[k] = BoundDigest
  BY DEF ValidState
<1>3. BoundDigest \in Digests
  BY DigestsAssumption
<1> DEFINE bound == IF event = "INCIDENT_SIGNAL" THEN {"INCIDENT_BINDING", "PUBKEY_BINDING"} ELSE {}
           new == Recorded(event, ev)
<1>4. /\ DOMAIN new = DOMAIN ev \cup bound
      /\ \A k \in DOMAIN ev \cup bound : new[k] = IF k \in bound THEN BoundDigest ELSE ev[k]
  BY DEF Recorded
<1>5. bound \subseteq {"INCIDENT_BINDING", "PUBKEY_BINDING"}
  OBVIOUS
<1> HIDE DEF new, bound
<1>6. Brings(new)
  BY <1>1, <1>2, <1>3, <1>4, <1>5 DEF Brings
<1> QED BY <1>6 DEF new

LEMMA UpdatedKeeps ==
  ASSUME NEW ev, Brings(ev)
  PROVE  /\ DOMAIN state.evidence \subseteq DOMAIN Updated(ev)
         /\ \A k \in DOMAIN state.evidence : Updated(ev)[k] = state.evidence[k]
         /\ \A k \in DOMAIN Updated(ev) : Updated(ev)[k] \in Digests
              \/ (k \in DOMAIN state.evidence /\ Updated(ev)[k] = state.evidence[k])
BY DEF Brings, Updated

\* A request that was stored, or refused.
Stored(new, opened) ==
  ValidState(new) /\ state' = new /\ entered' = opened /\ refused' = refused
Refused(new) ==
  /\ ~ValidState(new) /\ state' = state /\ entered' = entered
  /\ refused' = refused \cup {new.transition}
LEMMA StoreOutcome ==
  ASSUME NEW new, NEW opened, Store(new, opened)
  PROVE  Stored(new, opened) \/ Refused(new)
BY DEF Store, Stored, Refused

\* Whatever is stored of a request, the invariant holds after it, and no
\* evidence has been touched.
LEMMA StoreKeeps ==
  ASSUME IInv, NEW event \in Events, NEW offer \in Offers, NEW ev, Brings(ev),
         NEW last \in Events \cup {None}, NEW mode \in Modes, NEW deadline \in Time \cup {None},
         NEW noGo \in NoGoReasons, NEW consumed \in SUBSET LeaseKeys,
         NEW opened \in Times \cup {None},
         opened # None <=> deadline # None,
         opened # None => opened <= now /\ deadline <= opened + RetryMax,
         Store(Result(event, offer, ev, last, mode, deadline, noGo, consumed), opened),
         now' = now
  PROVE  /\ IInv'
         /\ DOMAIN state.evidence \subseteq DOMAIN state'.evidence
         /\ \A k \in DOMAIN state.evidence : state'.evidence[k] = state.evidence[k]
<1> DEFINE new == Result(event, offer, ev, last, mode, deadline, noGo, consumed)
<1>1. CASE Refused(new)
  <2>1. new.transition = event
    BY DEF Result
  <2>2. TypeOK'
    BY <1>1, <2>1 DEF IInv, TypeOK, Refused
  <2>3. Windows'
    BY <1>1 DEF IInv, Windows, Refused
  <2>4. ValidState(state)'
    BY <1>1 DEF IInv, ValidState, HistoryOf, Refused
  <2>5. state'.evidence = state.evidence
    BY <1>1 DEF Refused
  <2> QED BY <2>2, <2>3, <2>4, <2>5 DEF IInv
<1>2. CASE Stored(new, opened)
  <2>1. ValidState(new) /\ state' = new /\ entered' = opened /\ refused' = refused
    BY <1>2 DEF Stored
  <2>2. /\ DOMAIN new = {"transition", "from", "to", "mode", "last", "version", "evidence", "noGo",
                         "deadline", "lease", "purpose", "consumed"}
        /\ new.transition = event /\ new.from = state.to /\ new.mode = mode /\ new.last = last
        /\ new.version = state.version + 1 /\ new.evidence = Updated(ev) /\ new.noGo = noGo
        /\ new.deadline = deadline /\ new.lease = offer.lease /\ new.purpose = offer.purpose
        /\ new.consumed = consumed
    BY DEF Result
  <2>3. new.to \in States /\ DOMAIN new.evidence \subseteq EvidenceKeys
    BY <2>1, StateSound
  <2> HIDE DEF new
  <2>4. \A k \in DOMAIN new.evidence : new.evidence[k] \in Digests
    BY <2>2, UpdatedKeeps DEF IInv, TypeOK
  <2>5. offer.lease \in Time /\ offer.purpose \in {"OPERATIONAL", "EMERGENCY"}
    BY DEF Offers
  <2>6. TypeOK'
    BY <2>1, <2>2, <2>3, <2>4, <2>5 DEF IInv, TypeOK, States, Times, NoGoReasons
  <2>7. Windows'
    BY <2>1, <2>2 DEF Windows
  <2>8. ValidState(state)'
    BY <2>1 DEF ValidState, HistoryOf
  <2>9. /\ DOMAIN state.evidence \subseteq DOMAIN state'.evidence
        /\ \A k \in DOMAIN state.evidence : state'.evidence[k] = state.evidence[k]
    BY <2>1, <2>2, UpdatedKeeps
  <2> QED BY <2>6, <2>7, <2>8, <2>9 DEF IInv
<1> QED BY <1>1, <1>2, StoreOutcome

---------------------------------------------------------------------------
(* The edges of the machine. *)

LEMMA EventKinds ==
  /\ PlainEvents \subseteq Events /\ RetryEnter \subseteq Events /\ Completions \subseteq Events
  /\ ContainEnter \subseteq Events /\ Aborts \subseteq Events /\ "FAILBACK_APPROVED" \in Events
  /\ PlainEvents \cap (ContainEnter \cup Completions) = {}
BY DEF PlainEvents, RetryEnter, Completions, ContainEnter, Aborts, Events, Machine

\* Only F0_APPROVED among the plain events moves authority, and takes it away.
LEMMA PlainEdges ==
  /\ \A event \in PlainEvents :
       event = "F0_APPROVED" \/ Holder[Machine[event].from] = Holder[Machine[event].to]
  /\ Holder[Machine["F0_APPROVED"].from] = "primary" /\ Holder[Machine["F0_APPROVED"].to] = None
BY DEF PlainEvents, RetryEnter, Completions, ContainEnter, Aborts, Events, Machine, Edge, Holder

LEMMA FailbackEdge ==
  /\ Holder[Machine["FAILBACK_APPROVED"].from] = "standby"
  /\ Holder[Machine["FAILBACK_APPROVED"].to] = None
BY DEF Machine, Edge, Holder

LEMMA RetryEdges ==
  \A event \in RetryEnter \cup ContainEnter \cup Aborts :
    Holder[Machine[event].from] = None /\ Holder[Machine[event].to] = None
BY DEF RetryEnter, ContainEnter, Aborts, Machine, Edge, Holder

LEMMA CompletionEdges ==
  \A event \in Completions :
    /\ Holder[Machine[event].from] = None
    /\ Holder[Machine[event].to] = IF event = "F8_COMPLETE" THEN "standby" ELSE "primary"
BY DEF Completions, Machine, Edge, Holder

\* Before which the mode is normal.
LEMMA NormalEdges ==
  /\ \A event \in RetryEnter \cup {"F0_APPROVED", "FAILBACK_APPROVED"} : Machine[event].modes = {"NORMAL"}
  /\ \A event \in Completions : Machine[event].modes \cap ContainmentModes = {}
BY DEF RetryEnter, Completions, Machine, Edge, Normal, ContainmentModes

LEMMA NormalAdmitted ==
  ASSUME NEW event \in RetryEnter \cup {"F0_APPROVED", "FAILBACK_APPROVED"}, NEW offer,
         Admit(event, offer)
  PROVE  state.mode = "NORMAL" /\ state.noGo = None
BY NormalEdges DEF Admit, ContainmentModes

---------------------------------------------------------------------------
(* Each action keeps the invariant and the evidence. *)

Appended ==
  /\ DOMAIN state.evidence \subseteq DOMAIN state'.evidence
  /\ \A k \in DOMAIN state.evidence : state'.evidence[k] = state.evidence[k]
Kept == IInv' /\ Appended

LEMMA Window ==
  ASSUME IInv
  PROVE  /\ state.last \in Events \cup {None} /\ state.deadline \in Time \cup {None}
         /\ entered \in Times \cup {None}
         /\ entered # None <=> state.deadline # None
         /\ entered # None => entered <= now /\ state.deadline <= entered + RetryMax
         /\ state.noGo \in NoGoReasons /\ state.consumed \in SUBSET LeaseKeys
         /\ state.mode \in Modes
BY DEF IInv, TypeOK, Windows, Times, NoGoReasons

LEMMA AdvanceKeeps ==
  ASSUME IInv, NEW offer \in Offers, NEW event \in PlainEvents, Advance(event, offer)
  PROVE  Kept
<1>1. PICK ev \in Submissions :
        /\ Evidence(event, None, ev)
        /\ Store(Result(event, offer, Recorded(event, ev), event, state.mode, state.deadline,
                        state.noGo, state.consumed), entered)
  BY DEF Advance
<1>2. Brings(Recorded(event, ev))
  BY <1>1, SubmittedBound DEF IInv
<1>3. event \in Events /\ now' = now
  BY EventKinds DEF Advance
<1> QED BY <1>1, <1>2, <1>3, EventKinds, Window, StoreKeeps DEF Kept, Appended

LEMMA FailbackKeeps ==
  ASSUME IInv, NEW offer \in Offers, NEW soak, FailbackApproved(offer, soak)
  PROVE  Kept
<1>1. PICK ev \in Submissions :
        /\ Evidence("FAILBACK_APPROVED", None, ev)
        /\ Store(Result("FAILBACK_APPROVED", offer, ev, "FAILBACK_APPROVED", state.mode,
                        state.deadline, state.noGo, state.consumed), entered)
  BY DEF FailbackApproved
<1>2. Brings(ev)
  BY <1>1, Submitted
<1>3. "FAILBACK_APPROVED" \in Events /\ now' = now
  BY EventKinds DEF FailbackApproved
<1> QED BY <1>1, <1>2, <1>3, EventKinds, Window, StoreKeeps DEF Kept, Appended

LEMMA EnterRetryKeeps ==
  ASSUME IInv, NEW offer \in Offers, NEW event \in RetryEnter, NEW deadline \in Time,
         EnterRetry(event, offer, deadline)
  PROVE  Kept
<1>1. PICK ev \in Submissions :
        /\ Evidence(event, None, ev)
        /\ Store(Result(event, offer, ev, state.last, RetryModeOf(event), deadline, state.noGo,
                        state.consumed), now)
  BY DEF EnterRetry
<1>2. Brings(ev)
  BY <1>1, Submitted
<1>3. event \in Events /\ now' = now
  BY EventKinds DEF EnterRetry
<1>4. RetryModeOf(event) \in Modes
  BY DEF RetryModeOf, Modes, RetryModes
<1>5. /\ now \in Times /\ now # None /\ deadline # None
      /\ now <= now /\ deadline <= now + RetryMax
  BY Clock, ClockAssumption DEF IInv, TypeOK, Times, EnterRetry
<1> QED BY <1>1, <1>2, <1>3, <1>4, <1>5, Window, StoreKeeps DEF Kept, Appended

LEMMA CompleteKeeps ==
  ASSUME IInv, NEW offer \in Offers, NEW event \in Completions, Complete(event, offer)
  PROVE  Kept
<1>1. PICK ev \in Submissions :
        /\ Evidence(event, None, ev)
        /\ Store(Result(event, offer, ev, event, "NORMAL", None, state.noGo, state.consumed), None)
  BY DEF Complete
<1>2. Brings(ev)
  BY <1>1, Submitted
<1>3. event \in Events /\ now' = now
  BY EventKinds DEF Complete
<1>4. "NORMAL" \in Modes
  BY DEF Modes, Normal
<1> QED BY <1>1, <1>2, <1>3, <1>4, Window, StoreKeeps DEF Kept, Appended

LEMMA EnterContainmentKeeps ==
  ASSUME IInv, NEW offer \in Offers, NEW event \in ContainEnter, NEW loss \in LossReasons,
         NEW key \in LeaseKeys, EnterContainment(event, offer, loss, key)
  PROVE  Kept
<1> DEFINE mode == ContainModeOf(event)
           noGo == NoGoOf[loss]
           consumed == state.consumed \cup {key}
<1>1. PICK ev \in Submissions :
        /\ Evidence(event, loss, ev)
        /\ Store(Result(event, offer, ev, state.last, mode, state.deadline, noGo, consumed), entered)
  BY DEF EnterContainment, Containable, Containment
<1>2. Brings(ev)
  BY <1>1, Submitted
<1>3. event \in Events /\ now' = now
  BY EventKinds DEF EnterContainment
<1>4. mode \in Modes /\ noGo \in NoGoReasons
  BY DEF ContainModeOf, Modes, ContainmentModes, NoGoOf, LossReasons, NoGoReasons
<1>5. consumed \in SUBSET LeaseKeys
  BY DEF IInv, TypeOK
<1> HIDE DEF mode, noGo, consumed
<1> QED BY <1>1, <1>2, <1>3, <1>4, <1>5, Window, StoreKeeps DEF Kept, Appended

LEMMA AbortKeeps ==
  ASSUME IInv, NEW offer \in Offers, NEW event \in Aborts, AbortContained(event, offer)
  PROVE  Kept
<1>1. PICK ev \in Submissions :
        /\ Evidence(event, None, ev)
        /\ Store(Result(event, offer, ev, state.last, "NORMAL", state.deadline, state.noGo,
                        state.consumed), entered)
  BY DEF AbortContained
<1>2. Brings(ev)
  BY <1>1, Submitted
<1>3. event \in Events /\ now' = now
  BY EventKinds DEF AbortContained
<1>4. "NORMAL" \in Modes
  BY DEF Modes, Normal
<1> QED BY <1>1, <1>2, <1>3, <1>4, Window, StoreKeeps DEF Kept, Appended

LEMMA TickKeeps == ASSUME IInv, Tick PROVE Kept
<1>1. TypeOK'
  BY ClockAssumption DEF Tick, IInv, TypeOK
<1>2. Windows'
  BY Clock, ClockAssumption DEF Tick, IInv, TypeOK, Windows, Times
<1>3. ValidState(state)'
  BY DEF Tick, IInv, ValidState, HistoryOf
<1> QED BY <1>1, <1>2, <1>3 DEF Kept, Appended, IInv, Tick

LEMMA StutterKeeps == ASSUME IInv, UNCHANGED vars PROVE Kept
<1>1. TypeOK'
  BY DEF vars, IInv, TypeOK
<1>2. Windows'
  BY DEF vars, IInv, Windows
<1>3. ValidState(state)'
  BY DEF vars, IInv, ValidState, HistoryOf
<1> QED BY <1>1, <1>2, <1>3 DEF Kept, Appended, IInv, vars

LEMMA Inductive == ASSUME IInv, [Next]_vars PROVE Kept
<1>1. ASSUME NEW offer \in Offers, NEW event \in PlainEvents, Advance(event, offer) PROVE Kept
  BY <1>1, AdvanceKeeps
<1>2. ASSUME NEW offer \in Offers, NEW soak \in Soaks, FailbackApproved(offer, soak) PROVE Kept
  BY <1>2, FailbackKeeps
<1>3. ASSUME NEW offer \in Offers, NEW event \in RetryEnter, NEW deadline \in Time,
             EnterRetry(event, offer, deadline)
      PROVE  Kept
  BY <1>3, EnterRetryKeeps
<1>4. ASSUME NEW offer \in Offers, NEW event \in Completions, Complete(event, offer) PROVE Kept
  BY <1>4, CompleteKeeps
<1>5. ASSUME NEW offer \in Offers, NEW event \in ContainEnter, NEW loss \in LossReasons,
             NEW key \in LeaseKeys, EnterContainment(event, offer, loss, key)
      PROVE  Kept
  BY <1>5, EnterContainmentKeeps
<1>6. ASSUME NEW offer \in Offers, NEW event \in Aborts, AbortContained(event, offer) PROVE Kept
  BY <1>6, AbortKeeps
<1> QED BY <1>1, <1>2, <1>3, <1>4, <1>5, <1>6, TickKeeps, StutterKeeps DEF Next, Submit

LEMMA Initially == ASSUME Init PROVE IInv
<1>1. PICK lease \in Time :
        state = [transition |-> "INITIALIZED", from |-> "S0", to |-> "S0", mode |-> "NORMAL",
                 last |-> None, version |-> 0, evidence |-> [k \in {} |-> None], noGo |-> None,
                 deadline |-> None, lease |-> lease, purpose |-> "OPERATIONAL", consumed |-> {}]
  BY DEF Init
<1>2. DOMAIN state.evidence = {}
  BY <1>1
<1>3. TypeOK
  BY <1>1, <1>2, ClockAssumption DEF Init, TypeOK, Modes, Normal
<1>4. Windows
  BY <1>1 DEF Init, Windows
<1>5. HistoryOf(state) = Plain("INITIALIZED", "S0", "S0", None, 0, {})
  BY <1>1, <1>2 DEF HistoryOf, Plain, History
<1>6. HistoryOf(state) \in Histories
  BY <1>5, Members DEF Forward
<1>7. ValidState(state)
  BY <1>2, <1>6 DEF ValidState
<1> QED BY <1>3, <1>4, <1>7 DEF IInv

---------------------------------------------------------------------------
(* Each step is one of Handover. *)

AbstractStep == [Abstract!Next]_(Abstract!hvars)

LEMMA Recording == ASSUME Kept PROVE Abstract!Record
BY DEF Kept, Appended, IInv, TypeOK, Abstract!Record

LEMMA RefusedStutters ==
  ASSUME NEW new, Refused(new), now' = now
  PROVE  AbstractStep
BY DEF Refused, AbstractStep, Abstract!hvars

LEMMA AdvanceRefines ==
  ASSUME IInv, NEW offer \in Offers, NEW event \in PlainEvents, Advance(event, offer)
  PROVE  AbstractStep
<1>1. Abstract!Record
  BY AdvanceKeeps, Recording
<1>2. PICK new :
        /\ Store(new, entered)
        /\ new.to = Machine[event].to /\ new.noGo = state.noGo
  BY DEF Advance, Result
<1>3. Machine[event].from = state.to /\ now' = now /\ Admit(event, offer)
  BY DEF Advance, Admit
<1>4. CASE Stored(new, entered)
  <2>1. state'.to = Machine[event].to /\ state'.noGo = state.noGo /\ entered' = entered
    BY <1>2, <1>4 DEF Stored
  <2>2. CASE event = "F0_APPROVED"
    <3>1. state.noGo = None
      BY <1>3, <2>2, NormalAdmitted
    <3>2. Abstract!Withdraw
      BY <1>1, <1>3, <2>1, <2>2, <3>1, PlainEdges, NoneAssumption DEF Abstract!Withdraw
    <3> QED BY <3>2 DEF AbstractStep, Abstract!Next
  <2>3. CASE event # "F0_APPROVED"
    <3>1. Abstract!Collect
      BY <1>1, <1>3, <2>1, <2>3, PlainEdges DEF Abstract!Collect
    <3> QED BY <3>1 DEF AbstractStep, Abstract!Next
  <2> QED BY <2>2, <2>3
<1> QED BY <1>2, <1>3, <1>4, StoreOutcome, RefusedStutters

LEMMA FailbackRefines ==
  ASSUME IInv, NEW offer \in Offers, NEW soak, FailbackApproved(offer, soak)
  PROVE  AbstractStep
<1>1. Abstract!Record
  BY FailbackKeeps, Recording
<1>2. PICK new :
        /\ Store(new, entered)
        /\ new.to = Machine["FAILBACK_APPROVED"].to /\ new.noGo = state.noGo
  BY DEF FailbackApproved, Result
<1>3. /\ Machine["FAILBACK_APPROVED"].from = state.to /\ now' = now
      /\ Admit("FAILBACK_APPROVED", offer)
  BY DEF FailbackApproved, Admit
<1>4. CASE Stored(new, entered)
  <2>1. /\ state'.to = Machine["FAILBACK_APPROVED"].to /\ state'.noGo = state.noGo
        /\ entered' = entered
    BY <1>2, <1>4 DEF Stored
  <2>2. state.noGo = None
    BY <1>3, NormalAdmitted
  <2>3. Abstract!Withdraw
    BY <1>1, <1>3, <2>1, <2>2, FailbackEdge, NoneAssumption DEF Abstract!Withdraw
  <2> QED BY <2>3 DEF AbstractStep, Abstract!Next
<1> QED BY <1>2, <1>3, <1>4, StoreOutcome, RefusedStutters

LEMMA EnterRetryRefines ==
  ASSUME IInv, NEW offer \in Offers, NEW event \in RetryEnter, NEW deadline \in Time,
         EnterRetry(event, offer, deadline)
  PROVE  AbstractStep
<1>1. Abstract!Record
  BY EnterRetryKeeps, Recording
<1>2. PICK new :
        /\ Store(new, now)
        /\ new.to = Machine[event].to /\ new.noGo = state.noGo
  BY DEF EnterRetry, Result
<1>3. Machine[event].from = state.to /\ now' = now /\ Admit(event, offer)
  BY DEF EnterRetry, Admit
<1>4. CASE Stored(new, now)
  <2>1. state'.to = Machine[event].to /\ state'.noGo = state.noGo /\ entered' = now
    BY <1>2, <1>4 DEF Stored
  <2>2. state.mode = "NORMAL" /\ state.noGo = None
    BY <1>3, NormalAdmitted
  <2>3. entered = None
    BY <2>2, StateSound DEF IInv, Windows
  <2>4. Abstract!OpenWindow
    BY <1>1, <1>3, <2>1, <2>2, <2>3, RetryEdges DEF Abstract!OpenWindow
  <2> QED BY <2>4 DEF AbstractStep, Abstract!Next
<1> QED BY <1>2, <1>3, <1>4, StoreOutcome, RefusedStutters

LEMMA CompleteRefines ==
  ASSUME IInv, NEW offer \in Offers, NEW event \in Completions, Complete(event, offer)
  PROVE  AbstractStep
<1>1. Abstract!Record
  BY CompleteKeeps, Recording
<1>2. PICK new :
        /\ Store(new, None)
        /\ new.to = Machine[event].to /\ new.noGo = state.noGo /\ new.transition = event
  BY DEF Complete, Result
<1>3. Machine[event].from = state.to /\ now' = now /\ Admit(event, offer)
  BY DEF Complete, Admit
<1>4. CASE Stored(new, None)
  <2> DEFINE site == IF event = "F8_COMPLETE" THEN "standby" ELSE "primary"
  <2>1. /\ state'.to = Machine[event].to /\ state'.noGo = state.noGo /\ entered' = None
        /\ state'.transition = event /\ ValidState(new) /\ state' = new
    BY <1>2, <1>4 DEF Stored
  <2>2. state.noGo = None /\ state.mode \notin ContainmentModes
    BY <1>3, NormalEdges DEF Admit
  <2>3. entered # None => now < entered + RetryMax
    <3>1. CASE state.mode \in RetryModes
      <4>1. state.deadline # None /\ state.deadline > now
        BY <3>1 DEF Complete
      <4>2. ASSUME entered # None PROVE now < entered + RetryMax
        <5>1. state.deadline \in Int /\ now \in Int /\ entered \in Int /\ RetryMax \in Int
          BY <4>1, <4>2, Window, Clock, ClockAssumption DEF IInv, TypeOK, Times
        <5> QED BY <4>1, <4>2, <5>1, Window
      <4> QED BY <4>2
    <3>2. CASE state.mode \notin RetryModes
      <4>1. state.mode = "NORMAL"
        BY <2>2, <3>2 DEF IInv, TypeOK, Modes, Normal
      <4> QED BY <2>2, <4>1, StateSound DEF IInv, Windows
    <3> QED BY <3>1, <3>2
  <2>4. site \in DOMAIN Checklists /\ Checklists[site] \subseteq DOMAIN state'.evidence
    BY <2>1, StateSound DEF Checklists, Completions
  <2>5. Holder[state.to] = None /\ Holder[state'.to] = site
    BY <1>3, <2>1, CompletionEdges
  <2> HIDE DEF site
  <2>6. Abstract!Grant(site)
    BY <1>1, <1>3, <2>1, <2>2, <2>3, <2>4, <2>5 DEF Abstract!Grant
  <2> QED BY <2>4, <2>6 DEF AbstractStep, Abstract!Next, Abstract!Sites
<1> QED BY <1>2, <1>3, <1>4, StoreOutcome, RefusedStutters

LEMMA EnterContainmentRefines ==
  ASSUME IInv, NEW offer \in Offers, NEW event \in ContainEnter, NEW loss \in LossReasons,
         NEW key \in LeaseKeys, EnterContainment(event, offer, loss, key)
  PROVE  AbstractStep
<1>1. Abstract!Record
  BY EnterContainmentKeeps, Recording
<1>2. PICK new :
        /\ Store(new, entered)
        /\ new.to = Machine[event].to /\ new.noGo = NoGoOf[loss]
  BY DEF EnterContainment, Containment, Result
<1>3. Machine[event].from = state.to /\ now' = now /\ state.deadline # None
  BY DEF EnterContainment, Containable, Admit
<1>4. CASE Stored(new, entered)
  <2>1. state'.to = Machine[event].to /\ state'.noGo # None /\ entered' = entered
    BY <1>2, <1>4, NoGos DEF Stored
  <2>2. entered # None
    BY <1>3 DEF IInv, Windows
  <2>3. Abstract!Abandon
    BY <1>1, <1>3, <2>1, <2>2, RetryEdges DEF Abstract!Abandon
  <2> QED BY <2>3 DEF AbstractStep, Abstract!Next
<1> QED BY <1>2, <1>3, <1>4, StoreOutcome, RefusedStutters

LEMMA AbortRefines ==
  ASSUME IInv, NEW offer \in Offers, NEW event \in Aborts, AbortContained(event, offer)
  PROVE  AbstractStep
<1>1. Abstract!Record
  BY AbortKeeps, Recording
<1>2. PICK new :
        /\ Store(new, entered)
        /\ new.to = Machine[event].to /\ new.noGo = state.noGo
  BY DEF AbortContained, Result
<1>3. Machine[event].from = state.to /\ now' = now
  BY DEF AbortContained, Admit
<1>4. CASE Stored(new, entered)
  <2>1. state'.to = Machine[event].to /\ state'.noGo = state.noGo /\ entered' = entered
    BY <1>2, <1>4 DEF Stored
  <2>2. Abstract!Collect
    BY <1>1, <1>3, <2>1, RetryEdges DEF Abstract!Collect
  <2> QED BY <2>2 DEF AbstractStep, Abstract!Next
<1> QED BY <1>2, <1>3, <1>4, StoreOutcome, RefusedStutters

LEMMA Refines == ASSUME IInv, [Next]_vars PROVE AbstractStep
<1>1. ASSUME NEW offer \in Offers, NEW event \in PlainEvents, Advance(event, offer) PROVE AbstractStep
  BY <1>1, AdvanceRefines
<1>2. ASSUME NEW offer \in Offers, NEW soak \in Soaks, FailbackApproved(offer, soak)
      PROVE  AbstractStep
  BY <1>2, FailbackRefines
<1>3. ASSUME NEW offer \in Offers, NEW event \in RetryEnter, NEW deadline \in Time,
             EnterRetry(event, offer, deadline)
      PROVE  AbstractStep
  BY <1>3, EnterRetryRefines
<1>4. ASSUME NEW offer \in Offers, NEW event \in Completions, Complete(event, offer)
      PROVE  AbstractStep
  BY <1>4, CompleteRefines
<1>5. ASSUME NEW offer \in Offers, NEW event \in ContainEnter, NEW loss \in LossReasons,
             NEW key \in LeaseKeys, EnterContainment(event, offer, loss, key)
      PROVE  AbstractStep
  BY <1>5, EnterContainmentRefines
<1>6. ASSUME NEW offer \in Offers, NEW event \in Aborts, AbortContained(event, offer)
      PROVE  AbstractStep
  BY <1>6, AbortRefines
<1>7. CASE Tick
  <2>1. Abstract!Tick
    BY <1>7 DEF Tick, Abstract!Tick
  <2> QED BY <2>1 DEF AbstractStep, Abstract!Next
<1>8. CASE UNCHANGED vars
  BY <1>8 DEF vars, AbstractStep, Abstract!hvars
<1> QED BY <1>1, <1>2, <1>3, <1>4, <1>5, <1>6, <1>7, <1>8 DEF Next, Submit

LEMMA AbstractInit == ASSUME Init PROVE Abstract!Init
<1>1. DOMAIN state.evidence = {} /\ state.to = "S0" /\ state.noGo = None
  BY DEF Init
<1> QED BY <1>1 DEF Init, Abstract!Init, Holder

---------------------------------------------------------------------------
(* The history is known from the gate last completed, or from the mode. *)

PlainForward(h) ==
  \/ h = Plain("INITIALIZED", "S0", "S0", None, 0, {})
  \/ h = Plain("INCIDENT_SIGNAL", "S0", "S1", "INCIDENT_SIGNAL", 1, Incident)
  \/ h = Plain("SOURCE_RETAINED", "S1", "S0", "SOURCE_RETAINED", 2, Incident \cup {"SOURCE_RETAINED"})
  \/ \E i \in 1..8 : h = Plain(BaseGates[i], IF i = 1 THEN "S1" ELSE "S2", "S2", BaseGates[i],
                               i + 1, Incident \cup GateKeys(BaseGates, i))
PlainBackward(h, v) ==
  \/ h = Plain("F8_COMPLETE", "S2", "S3", "F8_COMPLETE", v, F8Keys(v))
  \/ h = Plain("FAILBACK_APPROVED", "S3", "S4", "FAILBACK_APPROVED", v + 1, S4Keys(v, 0))
  \/ \E i \in 1..6 : h = Plain(PrimeGates[i], "S4", "S4", PrimeGates[i], v + 1 + i, S4Keys(v, i))
  \/ \E n, keys : h = Plain("F8_PRIME_COMPLETE", "S4", "S0", "F8_PRIME_COMPLETE", n, keys)

LEMMA RetryModesOnly ==
  ASSUME NEW h, NEW enter, NEW contain, NEW abort, NEW at, NEW last, NEW v, NEW keys,
         InRetry(h, enter, contain, abort, at, last, v, keys)
  PROVE  /\ h.mode # "NORMAL" \/ h.noGo # None
         /\ \/ Entered(h, enter, at, last, v, keys) /\ h.mode = RetryModeOf(enter)
            \/ /\ \E loss \in LossReasons : Contained(h, contain, at, last, v, keys, loss)
               /\ h.mode = ContainModeOf(contain)
            \/ h.mode = "NORMAL"
<1>1. CASE Entered(h, enter, at, last, v, keys)
  BY <1>1, EnteredFields DEF RetryModeOf
<1>2. ASSUME NEW loss \in LossReasons, Contained(h, contain, at, last, v, keys, loss)
      PROVE  h.mode = ContainModeOf(contain) /\ h.mode # "NORMAL"
  BY <1>2 DEF Contained, History, ContainModeOf
<1>3. ASSUME NEW loss \in LossReasons, Aborted(h, abort, at, last, v, keys, loss)
      PROVE  h.mode = "NORMAL" /\ h.noGo # None
  BY <1>3, NoGos DEF Aborted, History
<1> QED BY <1>1, <1>2, <1>3 DEF InRetry

LEMMA Kinds ==
  ASSUME NEW h \in Histories
  PROVE  \/ PlainForward(h) \/ PlainBackward(h, 10) \/ PlainBackward(h, 11)
         \/ BaseRetry(h) \/ PrimeRetry(h, 10) \/ PrimeRetry(h, 11)
BY Members DEF Forward, Backward, PlainForward, PlainBackward

LEMMA PlainForwardMode == ASSUME NEW h, PlainForward(h) PROVE h.mode = "NORMAL"
BY DEF PlainForward, Plain, History
LEMMA PlainBackwardMode == ASSUME NEW h, NEW v, PlainBackward(h, v) PROVE h.mode = "NORMAL"
BY DEF PlainBackward, Plain, History

LEMMA NormalPlain ==
  ASSUME NEW h \in Histories, h.mode = "NORMAL", h.noGo = None
  PROVE  PlainForward(h) \/ PlainBackward(h, 10) \/ PlainBackward(h, 11)
BY Kinds, RetryModesOnly DEF BaseRetry, PrimeRetry

LEMMA GatesApart ==
  /\ \A i, j \in 1..8 : BaseGates[i] = BaseGates[j] => i = j
  /\ \A i, j \in 1..6 : PrimeGates[i] = PrimeGates[j] => i = j
  /\ \A i \in 1..8, j \in 1..6 : BaseGates[i] # PrimeGates[j]
  /\ \A i \in 1..8 : BaseGates[i] \in Events \ {"INCIDENT_SIGNAL", "SOURCE_RETAINED",
                       "F8_COMPLETE", "FAILBACK_APPROVED", "F8_PRIME_COMPLETE"}
  /\ \A i \in 1..6 : PrimeGates[i] \in Events \ {"INCIDENT_SIGNAL", "SOURCE_RETAINED",
                       "F8_COMPLETE", "FAILBACK_APPROVED", "F8_PRIME_COMPLETE"}
<1>1. \A i, j \in 1..8 : BaseGates[i] = BaseGates[j] => i = j
  BY DEF BaseGates
<1>2. \A i, j \in 1..6 : PrimeGates[i] = PrimeGates[j] => i = j
  BY DEF PrimeGates
<1>3. \A i \in 1..8, j \in 1..6 : BaseGates[i] # PrimeGates[j]
  BY DEF BaseGates, PrimeGates
<1>4. \A i \in 1..8 : BaseGates[i] \in Events \ {"INCIDENT_SIGNAL", "SOURCE_RETAINED",
                       "F8_COMPLETE", "FAILBACK_APPROVED", "F8_PRIME_COMPLETE"}
  BY DEF BaseGates, Events, Machine
<1>5. \A i \in 1..6 : PrimeGates[i] \in Events \ {"INCIDENT_SIGNAL", "SOURCE_RETAINED",
                       "F8_COMPLETE", "FAILBACK_APPROVED", "F8_PRIME_COMPLETE"}
  BY DEF PrimeGates, Events, Machine
<1> QED BY <1>1, <1>2, <1>3, <1>4, <1>5

LEMMA NoneNoEvent == None \notin Events /\ {"INCIDENT_SIGNAL", "SOURCE_RETAINED", "F8_COMPLETE",
                       "FAILBACK_APPROVED", "F8_PRIME_COMPLETE"} \subseteq Events
BY NoneAssumption DEF Events, Machine

LEMMA PlainLast ==
  ASSUME NEW t, NEW f, NEW to, NEW last, NEW v, NEW keys
  PROVE  Plain(t, f, to, last, v, keys).last = last /\ Plain(t, f, to, last, v, keys).to = to
BY DEF Plain, History

LEMMA AfterIncident ==
  ASSUME NEW h, h.to = "S1", PlainForward(h) \/ PlainBackward(h, 10) \/ PlainBackward(h, 11)
  PROVE  h = Plain("INCIDENT_SIGNAL", "S0", "S1", "INCIDENT_SIGNAL", 1, Incident)
BY PlainLast DEF PlainForward, PlainBackward

LEMMA AfterBaseGate ==
  ASSUME NEW h, NEW i \in 1..8, h.last = BaseGates[i],
         PlainForward(h) \/ PlainBackward(h, 10) \/ PlainBackward(h, 11)
  PROVE  h = Plain(BaseGates[i], IF i = 1 THEN "S1" ELSE "S2", "S2", BaseGates[i], i + 1,
                   Incident \cup GateKeys(BaseGates, i))
<1>1. CASE PlainForward(h)
  <2>1. PICK j \in 1..8 : h = Plain(BaseGates[j], IF j = 1 THEN "S1" ELSE "S2", "S2",
                             BaseGates[j], j + 1, Incident \cup GateKeys(BaseGates, j))
    BY <1>1, PlainLast, GatesApart, NoneNoEvent DEF PlainForward
  <2>2. i = j
    BY <2>1, PlainLast, GatesApart
  <2> QED BY <2>1, <2>2
<1>2. ASSUME NEW v, PlainBackward(h, v) PROVE FALSE
  BY <1>2, PlainLast, GatesApart DEF PlainBackward
<1> QED BY <1>1, <1>2

LEMMA AfterF8 ==
  ASSUME NEW h, h.last = "F8_COMPLETE",
         PlainForward(h) \/ PlainBackward(h, 10) \/ PlainBackward(h, 11)
  PROVE  \E v \in F8Versions : h = Plain("F8_COMPLETE", "S2", "S3", "F8_COMPLETE", v, F8Keys(v))
<1>1. ~PlainForward(h)
  BY PlainLast, GatesApart, NoneNoEvent DEF PlainForward
<1>2. ASSUME NEW v, PlainBackward(h, v)
      PROVE  h = Plain("F8_COMPLETE", "S2", "S3", "F8_COMPLETE", v, F8Keys(v))
  BY <1>2, PlainLast, GatesApart DEF PlainBackward
<1> QED BY <1>1, <1>2 DEF F8Versions

LEMMA AfterFailback ==
  ASSUME NEW h, h.last = "FAILBACK_APPROVED",
         PlainForward(h) \/ PlainBackward(h, 10) \/ PlainBackward(h, 11)
  PROVE  \E v \in F8Versions :
           h = Plain("FAILBACK_APPROVED", "S3", "S4", "FAILBACK_APPROVED", v + 1, S4Keys(v, 0))
<1>1. ~PlainForward(h)
  BY PlainLast, GatesApart, NoneNoEvent DEF PlainForward
<1>2. ASSUME NEW v, PlainBackward(h, v)
      PROVE  h = Plain("FAILBACK_APPROVED", "S3", "S4", "FAILBACK_APPROVED", v + 1, S4Keys(v, 0))
  BY <1>2, PlainLast, GatesApart DEF PlainBackward
<1> QED BY <1>1, <1>2 DEF F8Versions

LEMMA AfterPrimeGate ==
  ASSUME NEW h, NEW i \in 1..6, h.last = PrimeGates[i],
         PlainForward(h) \/ PlainBackward(h, 10) \/ PlainBackward(h, 11)
  PROVE  \E v \in F8Versions :
           h = Plain(PrimeGates[i], "S4", "S4", PrimeGates[i], v + 1 + i, S4Keys(v, i))
<1>1. ~PlainForward(h)
  BY PlainLast, GatesApart, NoneNoEvent DEF PlainForward
<1>2. ASSUME NEW v, PlainBackward(h, v)
      PROVE  h = Plain(PrimeGates[i], "S4", "S4", PrimeGates[i], v + 1 + i, S4Keys(v, i))
  <2>1. PICK j \in 1..6 : h = Plain(PrimeGates[j], "S4", "S4", PrimeGates[j], v + 1 + j, S4Keys(v, j))
    BY <1>2, PlainLast, GatesApart DEF PlainBackward
  <2>2. i = j
    BY <2>1, PlainLast, GatesApart
  <2> QED BY <2>1, <2>2
<1> QED BY <1>1, <1>2 DEF F8Versions

LEMMA InWindow ==
  ASSUME NEW h \in Histories
  PROVE  /\ h.mode = "F8_RETRY_ONLY" => Entered(h, "F8_RETRY_ENTER", "S2", "F7_PASS", 10, RetryKeys)
         /\ h.mode = "F8_CONTAINMENT_ONLY" =>
              \E loss \in LossReasons :
                Contained(h, "F8_RETRY_CONTAIN_ENTER", "S2", "F7_PASS", 10, RetryKeys, loss)
         /\ h.mode = "F8_PRIME_RETRY_ONLY" =>
              \E v \in F8Versions : Entered(h, "F8_PRIME_RETRY_ENTER", "S4", "F7_PRIME_PASS",
                                            v + 8, PrimeRetryKeys(v))
         /\ h.mode = "F8_PRIME_CONTAINMENT_ONLY" =>
              \E v \in F8Versions, loss \in LossReasons :
                Contained(h, "F8_PRIME_RETRY_CONTAIN_ENTER", "S4", "F7_PRIME_PASS", v + 8,
                          PrimeRetryKeys(v), loss)
<1>1. CASE PlainForward(h) \/ PlainBackward(h, 10) \/ PlainBackward(h, 11)
  BY <1>1, PlainForwardMode, PlainBackwardMode
<1>2. CASE BaseRetry(h)
  BY <1>2, RetryModesOnly DEF BaseRetry, RetryModeOf, ContainModeOf, Prime
<1>3. ASSUME NEW v \in F8Versions, PrimeRetry(h, v)
      PROVE  /\ h.mode \notin {"F8_RETRY_ONLY", "F8_CONTAINMENT_ONLY"}
             /\ h.mode = "F8_PRIME_RETRY_ONLY" =>
                  Entered(h, "F8_PRIME_RETRY_ENTER", "S4", "F7_PRIME_PASS", v + 8, PrimeRetryKeys(v))
             /\ h.mode = "F8_PRIME_CONTAINMENT_ONLY" =>
                  \E loss \in LossReasons :
                    Contained(h, "F8_PRIME_RETRY_CONTAIN_ENTER", "S4", "F7_PRIME_PASS", v + 8,
                              PrimeRetryKeys(v), loss)
  BY <1>3, RetryModesOnly DEF PrimeRetry, RetryModeOf, ContainModeOf, Prime
<1> QED BY <1>1, <1>2, <1>3, Kinds DEF F8Versions

---------------------------------------------------------------------------
(* The next history: what is stored of an admitted request. *)

\* What a request adds to the evidence on record: what is required, no more.
Adds(r, required) ==
  /\ Brings(r) /\ required \subseteq DOMAIN r
  /\ DOMAIN r \subseteq required \cup DOMAIN state.evidence

LEMMA SubmittedAdds ==
  ASSUME NEW event, NEW loss, NEW ev \in Submissions, Evidence(event, loss, ev)
  PROVE  Adds(ev, ExpectedEvidence(event, loss))
BY Submitted DEF Evidence, Adds

LEMMA RecordedAdds ==
  ASSUME NEW event, event # "INCIDENT_SIGNAL", NEW ev \in Submissions, Evidence(event, None, ev),
         ValidState(state)
  PROVE  Adds(Recorded(event, ev), ExpectedEvidence(event, None))
<1>1. DOMAIN Recorded(event, ev) = DOMAIN ev
  BY DEF Recorded
<1> QED BY <1>1, SubmittedAdds, SubmittedBound DEF Adds

\* No request but INCIDENT_SIGNAL adds a binding.
Bindings == {"INCIDENT_BINDING", "PUBKEY_BINDING"}
LEMMA NoBinding ==
  ASSUME NEW event \in Events, event # "INCIDENT_SIGNAL", NEW loss
  PROVE  ExpectedEvidence(event, loss) \cap Bindings = {}
<1>1. event \notin Bindings /\ LossReasons \cap Bindings = {} /\ ContainmentMutations \cap Bindings = {}
  BY DEF Events, Machine, Bindings, LossReasons, ContainmentMutations
<1>2. \A e \in RetryEnter : RetryEvidence[e] \cap Bindings = {}
  BY DEF RetryEnter, RetryEvidence, Bindings
<1> QED BY <1>1, <1>2 DEF ExpectedEvidence, Bindings

\* A document is valid if its history is known, the bindings being untouched.
LEMMA NextValid ==
  ASSUME ValidState(state), NEW new, NEW r, NEW required, Adds(r, required),
         required \cap Bindings = {}, new.evidence = Updated(r), HistoryOf(new) \in Histories
  PROVE  ValidState(new)
<1>1. /\ DOMAIN Updated(r) \subseteq required \cup DOMAIN state.evidence
      /\ \A k \in DOMAIN state.evidence : Updated(r)[k] = state.evidence[k]
  BY UpdatedKeeps DEF Adds, Updated
<1>2. \A k \in Bindings \cap DOMAIN state.evidence : state.evidence[k] = BoundDigest
  BY DEF ValidState, Bindings
<1>3. \A k \in Bindings \cap DOMAIN new.evidence : new.evidence[k] = BoundDigest
  BY <1>1, <1>2
<1> QED BY <1>3 DEF ValidState, Bindings

LEMMA UpdatedKeys ==
  ASSUME NEW r, NEW required, Adds(r, required)
  PROVE  DOMAIN Updated(r) = DOMAIN state.evidence \cup required
BY DEF Adds, Updated

\* One more gate.
LEMMA NextGate ==
  ASSUME NEW gates, NEW n \in Nat
  PROVE  GateKeys(gates, n + 1) = GateKeys(gates, n) \cup {gates[n + 1]}
<1>1. 1..(n + 1) = 1..n \cup {n + 1}
  OBVIOUS
<1> QED BY <1>1 DEF GateKeys
LEMMA NoGate == ASSUME NEW gates PROVE GateKeys(gates, 0) = {}
BY DEF GateKeys

\* The fields of the document, if its history is a plain one.
LEMMA PlainState ==
  ASSUME NEW t, NEW f, NEW to, NEW last, NEW v, NEW keys,
         HistoryOf(state) = Plain(t, f, to, last, v, keys)
  PROVE  /\ state.to = to /\ state.mode = "NORMAL" /\ state.last = last /\ state.version = v
         /\ DOMAIN state.evidence = keys /\ state.noGo = None /\ state.deadline = None
<1>1. HistoryOf(state).retry = FALSE
  BY DEF Plain, History
<1>2. state.deadline = None
  BY <1>1 DEF HistoryOf, History
<1> QED BY <1>2 DEF HistoryOf, Plain, History

\* Plain events follow plain histories.
LEMMA PlainBefore ==
  ASSUME ValidState(state), NEW event, NEW offer, Admit(event, offer), state.mode = "NORMAL"
  PROVE  LET h == HistoryOf(state) IN PlainForward(h) \/ PlainBackward(h, 10) \/ PlainBackward(h, 11)
<1> DEFINE h == HistoryOf(state)
<1>1. h \in Histories /\ h.mode = state.mode /\ h.noGo = state.noGo
  BY DEF ValidState, HistoryOf, History
<1>2. state.noGo = None
  BY DEF Admit, ContainmentModes
<1> QED BY <1>1, <1>2, NormalPlain

LEMMA PlainNext ==
  ASSUME ValidState(state), NEW event \in Events, event # "INCIDENT_SIGNAL", NEW offer, NEW r,
         NEW loss, Adds(r, ExpectedEvidence(event, loss)), offer.purpose = "OPERATIONAL",
         NEW t, NEW f, NEW to, NEW last, NEW v, NEW keys, NEW consumed,
         HistoryOf(state) = Plain(t, f, to, last, v, keys),
         Plain(event, to, Machine[event].to, event, v + 1, keys \cup ExpectedEvidence(event, loss))
           \in Histories
  PROVE  /\ ValidState(Result(event, offer, r, event, state.mode, state.deadline, state.noGo, consumed))
         /\ ValidState(Result(event, offer, r, event, "NORMAL", None, state.noGo, consumed))
<1>1. /\ state.to = to /\ state.mode = "NORMAL" /\ state.version = v
      /\ DOMAIN state.evidence = keys /\ state.noGo = None /\ state.deadline = None
  BY PlainState
<1> DEFINE new == Result(event, offer, r, event, "NORMAL", None, None, consumed)
<1>2. /\ new.transition = event /\ new.from = to /\ new.to = Machine[event].to
      /\ new.mode = "NORMAL" /\ new.last = event /\ new.version = v + 1
      /\ new.evidence = Updated(r) /\ new.noGo = None /\ new.deadline = None
      /\ new.purpose = "OPERATIONAL"
  BY <1>1 DEF Result
<1>3. DOMAIN new.evidence = keys \cup ExpectedEvidence(event, loss)
  BY <1>1, <1>2, UpdatedKeys
<1> HIDE DEF new
<1>4. HistoryOf(new) \in Histories
  BY <1>2, <1>3 DEF HistoryOf, Plain, History
<1>5. ValidState(new)
  BY <1>2, <1>4, NextValid, NoBinding
<1> QED BY <1>1, <1>5 DEF new

\* The plain events and what they ask for.
LEMMA PlainEventCases ==
  ASSUME NEW event \in PlainEvents
  PROVE  \/ event \in {"INCIDENT_SIGNAL", "SOURCE_RETAINED"}
         \/ \E i \in 1..8 : event = BaseGates[i]
         \/ \E i \in 1..6 : event = PrimeGates[i]
<1>1. event \in {"INCIDENT_SIGNAL", "SOURCE_RETAINED", "F0_APPROVED", "F1_PASS", "F2_PASS",
                 "F3_PASS", "F4_PASS", "F5_PASS", "F6_PASS", "F7_PASS", "F3_PRIME_PASS",
                 "F1_PRIME_PASS", "F2_PRIME_PASS", "F5_PRIME_PASS", "F6_PRIME_PASS", "F7_PRIME_PASS"}
  BY DEF PlainEvents, Events, Machine, RetryEnter, Completions, ContainEnter, Aborts
<1> QED BY <1>1, Gates

LEMMA PlainAsks ==
  ASSUME NEW event \in PlainEvents
  PROVE  ExpectedEvidence(event, None) = {event}
BY DEF ExpectedEvidence, PlainEvents, RetryEnter, Completions, ContainEnter, Aborts

LEMMA CompletionAsks ==
  ASSUME NEW event \in Completions
  PROVE  ExpectedEvidence(event, None) = {event}
BY DEF ExpectedEvidence, RetryEnter, Completions, ContainEnter, Aborts

LEMMA PlainPurpose ==
  ASSUME NEW event, event \notin ContainEnter, NEW offer, Admit(event, offer)
  PROVE  offer.purpose = "OPERATIONAL"
BY DEF Admit

LEMMA BaseGateEdges ==
  /\ \A i \in 1..8 : /\ BaseGates[i] \in PlainEvents
                     /\ Machine[BaseGates[i]] = Edge(IF i = 1 THEN "S1" ELSE "S2", "S2", Normal)
  /\ \A i \in 1..7 : BaseGates[i + 1] \in DOMAIN Predecessor /\ Predecessor[BaseGates[i + 1]] = BaseGates[i]
<1>1. \A e \in {"F0_APPROVED", "F1_PASS", "F2_PASS", "F3_PASS", "F4_PASS", "F5_PASS", "F6_PASS", "F7_PASS"} :
        e \in PlainEvents /\ Machine[e] = Edge(IF e = "F0_APPROVED" THEN "S1" ELSE "S2", "S2", Normal)
  BY DEF Machine, PlainEvents, Events, RetryEnter, Completions, ContainEnter, Aborts
<1>2. \A i \in 1..8 : BaseGates[i] = "F0_APPROVED" <=> i = 1
  BY DEF BaseGates
<1>3. \A i \in 1..8 : BaseGates[i] \in {"F0_APPROVED", "F1_PASS", "F2_PASS", "F3_PASS", "F4_PASS",
                                        "F5_PASS", "F6_PASS", "F7_PASS"}
  BY DEF BaseGates
<1>4. \A i \in 1..7 : BaseGates[i + 1] \in DOMAIN Predecessor /\ Predecessor[BaseGates[i + 1]] = BaseGates[i]
  BY DEF BaseGates, Predecessor
<1> QED BY <1>1, <1>2, <1>3, <1>4

LEMMA PrimeGateEdges ==
  /\ \A i \in 1..6 : /\ PrimeGates[i] \in PlainEvents
                     /\ Machine[PrimeGates[i]] = Edge("S4", "S4", Normal)
                     /\ PrimeGates[i] \in DOMAIN Predecessor
  /\ \A i \in 1..5 : Predecessor[PrimeGates[i + 1]] = PrimeGates[i]
  /\ Predecessor[PrimeGates[1]] = "FAILBACK_APPROVED"
<1>1. \A e \in {"F3_PRIME_PASS", "F1_PRIME_PASS", "F2_PRIME_PASS", "F5_PRIME_PASS", "F6_PRIME_PASS",
                "F7_PRIME_PASS"} :
        e \in PlainEvents /\ Machine[e] = Edge("S4", "S4", Normal) /\ e \in DOMAIN Predecessor
  BY DEF Machine, PlainEvents, Events, RetryEnter, Completions, ContainEnter, Aborts, Predecessor
<1>2. \A i \in 1..6 : PrimeGates[i] \in {"F3_PRIME_PASS", "F1_PRIME_PASS", "F2_PRIME_PASS",
                        "F5_PRIME_PASS", "F6_PRIME_PASS", "F7_PRIME_PASS"}
  BY DEF PrimeGates
<1>3. \A i \in 1..5 : Predecessor[PrimeGates[i + 1]] = PrimeGates[i]
  BY DEF PrimeGates, Predecessor
<1>4. Predecessor[PrimeGates[1]] = "FAILBACK_APPROVED"
  BY DEF PrimeGates, Predecessor
<1> QED BY <1>1, <1>2, <1>3, <1>4

LEMMA PlainModes ==
  \A event \in PlainEvents : Machine[event].modes = {"NORMAL"}
BY DEF PlainEvents, Events, Machine, Edge, Normal, RetryEnter, Completions, ContainEnter, Aborts

LEMMA StateHistory ==
  /\ HistoryOf(state).to = state.to /\ HistoryOf(state).last = state.last
  /\ HistoryOf(state).mode = state.mode /\ HistoryOf(state).version = state.version
  /\ HistoryOf(state).keys = DOMAIN state.evidence /\ HistoryOf(state).noGo = state.noGo
BY DEF HistoryOf, History

LEMMA SourceValid ==
  ASSUME ValidState(state), NEW offer, NEW r, Admit("SOURCE_RETAINED", offer),
         Adds(r, ExpectedEvidence("SOURCE_RETAINED", None))
  PROVE  ValidState(Result("SOURCE_RETAINED", offer, r, "SOURCE_RETAINED", state.mode,
                           state.deadline, state.noGo, state.consumed))
<1>1. "SOURCE_RETAINED" \in PlainEvents /\ "SOURCE_RETAINED" \in Events
      /\ Machine["SOURCE_RETAINED"].from = "S1" /\ Machine["SOURCE_RETAINED"].to = "S0"
  BY DEF PlainEvents, Events, Machine, Edge, RetryEnter, Completions, ContainEnter, Aborts
<1>2. state.to = "S1" /\ state.mode = "NORMAL" /\ offer.purpose = "OPERATIONAL"
  BY <1>1, PlainModes, PlainPurpose, EventKinds DEF Admit
<1>3. HistoryOf(state) = Plain("INCIDENT_SIGNAL", "S0", "S1", "INCIDENT_SIGNAL", 1, Incident)
  BY <1>2, PlainBefore, AfterIncident, StateHistory
<1>4. Plain("SOURCE_RETAINED", "S1", "S0", "SOURCE_RETAINED", 1 + 1,
            Incident \cup {"SOURCE_RETAINED"}) \in Histories
  BY Members DEF Forward
<1>5. ExpectedEvidence("SOURCE_RETAINED", None) = {"SOURCE_RETAINED"}
  BY <1>1, PlainAsks
<1>6. Plain("SOURCE_RETAINED", "S1", Machine["SOURCE_RETAINED"].to, "SOURCE_RETAINED", 1 + 1,
            Incident \cup ExpectedEvidence("SOURCE_RETAINED", None)) \in Histories
  BY <1>1, <1>4, <1>5
<1> QED BY <1>1, <1>2, <1>3, <1>6, PlainNext

LEMMA BaseGateValid ==
  ASSUME ValidState(state), NEW i \in 1..8, NEW offer, NEW r, Admit(BaseGates[i], offer),
         Adds(r, ExpectedEvidence(BaseGates[i], None))
  PROVE  ValidState(Result(BaseGates[i], offer, r, BaseGates[i], state.mode, state.deadline,
                           state.noGo, state.consumed))
<1> DEFINE gate == BaseGates[i]
<1>1. /\ gate \in PlainEvents /\ gate \in Events /\ gate # "INCIDENT_SIGNAL"
      /\ Machine[gate].from = (IF i = 1 THEN "S1" ELSE "S2") /\ Machine[gate].to = "S2"
  BY BaseGateEdges, EventKinds, GatesApart DEF Edge
<1>2. state.to = Machine[gate].from /\ state.mode = "NORMAL" /\ offer.purpose = "OPERATIONAL"
  BY <1>1, PlainModes, PlainPurpose, EventKinds DEF Admit
<1>3. /\ ExpectedEvidence(gate, None) = {gate}
      /\ LET h == HistoryOf(state) IN PlainForward(h) \/ PlainBackward(h, 10) \/ PlainBackward(h, 11)
  BY <1>1, <1>2, PlainAsks, PlainBefore
<1>4. Plain(gate, IF i = 1 THEN "S1" ELSE "S2", "S2", gate, i + 1,
            Incident \cup GateKeys(BaseGates, i)) \in Histories
  BY Members DEF Forward
<1> HIDE DEF gate
<1>5. CASE i = 1
  <2>1. HistoryOf(state) = Plain("INCIDENT_SIGNAL", "S0", "S1", "INCIDENT_SIGNAL", 1, Incident)
    BY <1>1, <1>2, <1>3, <1>5, AfterIncident, StateHistory
  <2>2. GateKeys(BaseGates, 1) = {gate}
    BY <1>5, NextGate, NoGate DEF gate
  <2>3. Plain(gate, "S1", "S2", gate, 1 + 1, Incident \cup {gate}) \in Histories
    BY <1>4, <1>5, <2>2
  <2>4. /\ Plain(gate, "S1", Machine[gate].to, gate, 1 + 1,
                 Incident \cup ExpectedEvidence(gate, None)) \in Histories
        /\ Adds(r, ExpectedEvidence(gate, None))
    BY <1>1, <1>3, <2>3 DEF gate
  <2>5. ValidState(Result(gate, offer, r, gate, state.mode, state.deadline, state.noGo,
                          state.consumed))
    BY <1>1, <1>2, <2>1, <2>4, PlainNext
  <2> QED BY <2>5 DEF gate
<1>6. CASE i # 1
  <2>1. PICK j \in 1..7 : i = j + 1
    <3>1. i - 1 \in 1..7 /\ i = (i - 1) + 1
      BY <1>6
    <3> QED BY <3>1
  <2>2. state.last = BaseGates[j] /\ j \in 1..8 /\ j \in Nat
    BY <2>1, BaseGateEdges DEF gate, Admit, GateOrder
  <2>3. HistoryOf(state) = Plain(BaseGates[j], IF j = 1 THEN "S1" ELSE "S2", "S2", BaseGates[j],
                                 j + 1, Incident \cup GateKeys(BaseGates, j))
    BY <1>3, <2>2, AfterBaseGate, StateHistory
  <2>4. GateKeys(BaseGates, i) = GateKeys(BaseGates, j) \cup {gate}
    BY <2>1, <2>2, NextGate DEF gate
  <2>5. Plain(gate, "S2", "S2", gate, (j + 1) + 1, (Incident \cup GateKeys(BaseGates, j)) \cup {gate})
          \in Histories
    <3>1. Incident \cup GateKeys(BaseGates, i) = (Incident \cup GateKeys(BaseGates, j)) \cup {gate}
      BY <2>4
    <3> QED BY <1>4, <1>6, <2>1, <3>1
  <2>6. /\ Plain(gate, "S2", Machine[gate].to, gate, (j + 1) + 1,
                 (Incident \cup GateKeys(BaseGates, j)) \cup ExpectedEvidence(gate, None)) \in Histories
        /\ Adds(r, ExpectedEvidence(gate, None))
    BY <1>1, <1>3, <2>5 DEF gate
  <2> DEFINE from == IF j = 1 THEN "S1" ELSE "S2"
             last == BaseGates[j]
             keys == Incident \cup GateKeys(BaseGates, j)
  <2>7. /\ HistoryOf(state) = Plain(last, from, "S2", last, j + 1, keys)
        /\ Plain(gate, "S2", Machine[gate].to, gate, (j + 1) + 1, keys \cup ExpectedEvidence(gate, None))
             \in Histories
    BY <2>3, <2>6
  <2> HIDE DEF from, last, keys
  <2>8. ValidState(Result(gate, offer, r, gate, state.mode, state.deadline, state.noGo,
                          state.consumed))
    BY <1>1, <1>2, <2>6, <2>7, PlainNext
  <2> QED BY <2>8 DEF gate
<1> QED BY <1>5, <1>6

LEMMA PrimeGateValid ==
  ASSUME ValidState(state), NEW i \in 1..6, NEW offer, NEW r, Admit(PrimeGates[i], offer),
         Adds(r, ExpectedEvidence(PrimeGates[i], None))
  PROVE  ValidState(Result(PrimeGates[i], offer, r, PrimeGates[i], state.mode, state.deadline,
                           state.noGo, state.consumed))
<1> DEFINE gate == PrimeGates[i]
<1>1. /\ gate \in PlainEvents /\ gate \in Events /\ gate # "INCIDENT_SIGNAL"
      /\ Machine[gate].from = "S4" /\ Machine[gate].to = "S4"
  BY PrimeGateEdges, EventKinds, GatesApart DEF Edge
<1>2. state.to = "S4" /\ state.mode = "NORMAL" /\ offer.purpose = "OPERATIONAL"
  BY <1>1, PlainModes, PlainPurpose, EventKinds DEF Admit
<1>3. /\ ExpectedEvidence(gate, None) = {gate}
      /\ LET h == HistoryOf(state) IN PlainForward(h) \/ PlainBackward(h, 10) \/ PlainBackward(h, 11)
  BY <1>1, <1>2, PlainAsks, PlainBefore
<1>4. \A v \in F8Versions : Plain(gate, "S4", "S4", gate, v + 1 + i, S4Keys(v, i)) \in Histories
  BY Members DEF Backward, F8Versions
<1> HIDE DEF gate
<1>5. CASE i = 1
  <2>1. state.last = "FAILBACK_APPROVED"
    BY <1>5, PrimeGateEdges DEF gate, Admit, GateOrder
  <2>2. PICK v \in F8Versions : HistoryOf(state) =
          Plain("FAILBACK_APPROVED", "S3", "S4", "FAILBACK_APPROVED", v + 1, S4Keys(v, 0))
    BY <1>3, <2>1, AfterFailback, StateHistory
  <2>3. S4Keys(v, 1) = S4Keys(v, 0) \cup {gate}
    BY <1>5, NextGate, NoGate DEF gate, S4Keys
  <2>4. Plain(gate, "S4", "S4", gate, (v + 1) + 1, S4Keys(v, 0) \cup {gate}) \in Histories
    BY <1>4, <1>5, <2>3
  <2>5. Plain(gate, "S4", Machine[gate].to, gate, (v + 1) + 1,
              S4Keys(v, 0) \cup ExpectedEvidence(gate, None)) \in Histories
    BY <1>1, <1>3, <2>4
  <2>6. ValidState(Result(gate, offer, r, gate, state.mode, state.deadline, state.noGo,
                          state.consumed))
    BY <1>1, <1>2, <2>2, <2>5, PlainNext DEF gate
  <2> QED BY <2>6 DEF gate
<1>6. CASE i # 1
  <2>1. PICK j \in 1..5 : i = j + 1
    <3>1. i - 1 \in 1..5 /\ i = (i - 1) + 1
      BY <1>6
    <3> QED BY <3>1
  <2>2. state.last = PrimeGates[j] /\ j \in 1..6 /\ j \in Nat
    BY <2>1, PrimeGateEdges DEF gate, Admit, GateOrder
  <2>3. PICK v \in F8Versions : HistoryOf(state) =
          Plain(PrimeGates[j], "S4", "S4", PrimeGates[j], v + 1 + j, S4Keys(v, j))
    BY <1>3, <2>2, AfterPrimeGate, StateHistory
  <2>4. S4Keys(v, i) = S4Keys(v, j) \cup {gate}
    BY <2>1, <2>2, NextGate DEF gate, S4Keys
  <2>5. v + 1 + i = (v + 1 + j) + 1
    BY <2>1 DEF F8Versions
  <2>6. Plain(gate, "S4", "S4", gate, (v + 1 + j) + 1, S4Keys(v, j) \cup {gate}) \in Histories
    BY <1>4, <2>4, <2>5
  <2>7. Plain(gate, "S4", Machine[gate].to, gate, (v + 1 + j) + 1,
              S4Keys(v, j) \cup ExpectedEvidence(gate, None)) \in Histories
    BY <1>1, <1>3, <2>6
  <2>8. ValidState(Result(gate, offer, r, gate, state.mode, state.deadline, state.noGo,
                          state.consumed))
    BY <1>1, <1>2, <2>3, <2>7, PlainNext DEF gate
  <2> QED BY <2>8 DEF gate
<1> QED BY <1>5, <1>6

LEMMA FailbackValid ==
  ASSUME ValidState(state), NEW offer, NEW r, Admit("FAILBACK_APPROVED", offer),
         Adds(r, ExpectedEvidence("FAILBACK_APPROVED", None))
  PROVE  ValidState(Result("FAILBACK_APPROVED", offer, r, "FAILBACK_APPROVED", state.mode,
                           state.deadline, state.noGo, state.consumed))
<1>1. /\ Machine["FAILBACK_APPROVED"].from = "S3" /\ Machine["FAILBACK_APPROVED"].to = "S4"
      /\ "FAILBACK_APPROVED" \in DOMAIN Predecessor /\ Predecessor["FAILBACK_APPROVED"] = "F8_COMPLETE"
      /\ "FAILBACK_APPROVED" \notin ContainEnter
  BY DEF Machine, Edge, Predecessor, ContainEnter
<1>2. /\ state.last = "F8_COMPLETE" /\ state.mode = "NORMAL" /\ offer.purpose = "OPERATIONAL"
  BY <1>1, PlainPurpose, NormalAdmitted DEF Admit, GateOrder
<1>3. PICK v \in F8Versions : HistoryOf(state) =
        Plain("F8_COMPLETE", "S2", "S3", "F8_COMPLETE", v, F8Keys(v))
  BY <1>2, PlainBefore, AfterF8, StateHistory
<1>4. ExpectedEvidence("FAILBACK_APPROVED", None) = {"STANDBY_SIGNING_SOAK_60M"}
  BY DEF ExpectedEvidence, RetryEnter, ContainEnter, Aborts
<1>5. S4Keys(v, 0) = F8Keys(v) \cup {"STANDBY_SIGNING_SOAK_60M"}
  BY NoGate DEF S4Keys
<1>6. Plain("FAILBACK_APPROVED", "S3", "S4", "FAILBACK_APPROVED", v + 1, S4Keys(v, 0)) \in Histories
  BY Members DEF Backward, F8Versions
<1> QED BY <1>1, <1>2, <1>3, <1>4, <1>5, <1>6, EventKinds, PlainNext

\* The fields of the document in a retry window, and in its containment.
LEMMA EnteredState ==
  ASSUME NEW t, NEW at, NEW last, NEW v, NEW keys, Entered(HistoryOf(state), t, at, last, v, keys)
  PROVE  /\ state.to = at /\ state.last = last /\ state.version = v
         /\ DOMAIN state.evidence = keys /\ state.noGo = None /\ state.deadline # None
<1>1. HistoryOf(state).retry = TRUE
  BY DEF Entered, History
<1>2. state.deadline # None
  BY <1>1 DEF HistoryOf, History
<1> QED BY <1>2 DEF HistoryOf, Entered, History

LEMMA ContainedState ==
  ASSUME NEW t, NEW at, NEW last, NEW v, NEW keys, NEW loss,
         Contained(HistoryOf(state), t, at, last, v, keys, loss)
  PROVE  /\ state.to = at /\ state.last = last /\ state.version = v + 1
         /\ DOMAIN state.evidence = keys \cup {loss} /\ state.noGo = NoGoOf[loss]
         /\ state.deadline # None
<1>1. HistoryOf(state).retry = TRUE
  BY DEF Contained, History
<1>2. state.deadline # None
  BY <1>1 DEF HistoryOf, History
<1> QED BY <1>2 DEF HistoryOf, Contained, History

\* A window entered after the last gate,
LEMMA WindowNext ==
  ASSUME NEW event, NEW offer, NEW r, NEW deadline, deadline # None, offer.purpose = "OPERATIONAL",
         Adds(r, RetryEvidence[event]), NEW t, NEW f, NEW at, NEW last, NEW v, NEW keys, NEW consumed,
         Machine[event].to = at, HistoryOf(state) = Plain(t, f, at, last, v, keys)
  PROVE  Entered(HistoryOf(Result(event, offer, r, state.last, RetryModeOf(event), deadline,
                                  state.noGo, consumed)),
                 event, at, last, v + 1, keys \cup RetryEvidence[event])
<1> DEFINE mode == RetryModeOf(event)
           new == Result(event, offer, r, state.last, mode, deadline, state.noGo, consumed)
<1>1. /\ state.to = at /\ state.last = last /\ state.version = v
      /\ DOMAIN state.evidence = keys /\ state.noGo = None
  BY PlainState
<1>2. /\ new.transition = event /\ new.from = at /\ new.to = at
      /\ new.mode = mode /\ new.last = last /\ new.version = v + 1
      /\ new.evidence = Updated(r) /\ new.noGo = None /\ new.deadline = deadline
      /\ new.purpose = "OPERATIONAL"
  BY <1>1 DEF Result
<1>3. DOMAIN new.evidence = keys \cup RetryEvidence[event]
  BY <1>1, <1>2, UpdatedKeys
<1> HIDE DEF new
<1>4. Entered(HistoryOf(new), event, at, last, v + 1, keys \cup RetryEvidence[event])
  BY <1>2, <1>3 DEF HistoryOf, Entered, History
<1> QED BY <1>4 DEF new

\* its containment,
LEMMA ContainNext ==
  ASSUME NEW event, NEW offer, NEW r, NEW loss, Adds(r, {loss}), offer.purpose = "EMERGENCY",
         NEW t, NEW at, NEW last, NEW v, NEW keys, NEW consumed,
         Machine[event].to = at, Entered(HistoryOf(state), t, at, last, v, keys)
  PROVE  Contained(HistoryOf(Result(event, offer, r, state.last, ContainModeOf(event),
                                    state.deadline, NoGoOf[loss], consumed)),
                   event, at, last, v, keys, loss)
<1> DEFINE mode == ContainModeOf(event)
           noGo == NoGoOf[loss]
           new == Result(event, offer, r, state.last, mode, state.deadline, noGo, consumed)
<1>1. /\ state.to = at /\ state.last = last /\ state.version = v
      /\ DOMAIN state.evidence = keys /\ state.deadline # None
  BY EnteredState
<1>2. /\ new.transition = event /\ new.from = at /\ new.to = at
      /\ new.mode = mode /\ new.last = last /\ new.version = v + 1
      /\ new.evidence = Updated(r) /\ new.noGo = noGo /\ new.deadline # None
      /\ new.purpose = "EMERGENCY"
  BY <1>1 DEF Result
<1>3. DOMAIN new.evidence = keys \cup {loss}
  BY <1>1, <1>2, UpdatedKeys
<1> HIDE DEF new
<1>4. Contained(HistoryOf(new), event, at, last, v, keys, loss)
  BY <1>2, <1>3 DEF HistoryOf, Contained, History
<1> QED BY <1>4 DEF new

\* its abort,
LEMMA AbortNext ==
  ASSUME NEW event, NEW offer, NEW r, NEW loss, Adds(r, ContainmentMutations),
         offer.purpose = "OPERATIONAL", NEW t, NEW at, NEW last, NEW v \in Nat, NEW keys, NEW consumed,
         Machine[event].to = at, Contained(HistoryOf(state), t, at, last, v, keys, loss)
  PROVE  Aborted(HistoryOf(Result(event, offer, r, state.last, "NORMAL", state.deadline,
                                  state.noGo, consumed)),
                 event, at, last, v, keys, loss)
<1> DEFINE noGo == NoGoOf[loss]
           new == Result(event, offer, r, state.last, "NORMAL", state.deadline, state.noGo, consumed)
<1>1. /\ state.to = at /\ state.last = last /\ state.version = v + 1
      /\ DOMAIN state.evidence = keys \cup {loss} /\ state.noGo = noGo /\ state.deadline # None
  BY ContainedState
<1>2. /\ new.transition = event /\ new.from = at /\ new.to = at
      /\ new.mode = "NORMAL" /\ new.last = last /\ new.version = v + 2
      /\ new.evidence = Updated(r) /\ new.noGo = noGo /\ new.deadline # None
      /\ new.purpose = "OPERATIONAL"
  BY <1>1 DEF Result
<1>3. DOMAIN new.evidence = keys \cup {loss} \cup ContainmentMutations
  BY <1>1, <1>2, UpdatedKeys
<1> HIDE DEF new
<1>4. Aborted(HistoryOf(new), event, at, last, v, keys, loss)
  BY <1>2, <1>3 DEF HistoryOf, Aborted, History
<1> QED BY <1>4 DEF new

\* and its completion.
LEMMA CompleteNext ==
  ASSUME ValidState(state), NEW event \in Completions, NEW offer, NEW r, Adds(r, {event}),
         offer.purpose = "OPERATIONAL", NEW t, NEW at, NEW last, NEW v, NEW keys, NEW consumed,
         Entered(HistoryOf(state), t, at, last, v, keys),
         Plain(event, at, Machine[event].to, event, v + 1, keys \cup {event}) \in Histories
  PROVE  ValidState(Result(event, offer, r, event, "NORMAL", None, state.noGo, consumed))
<1> DEFINE new == Result(event, offer, r, event, "NORMAL", None, state.noGo, consumed)
<1>1. /\ state.to = at /\ state.version = v /\ DOMAIN state.evidence = keys /\ state.noGo = None
  BY EnteredState
<1>2. /\ new.transition = event /\ new.from = at /\ new.to = Machine[event].to
      /\ new.mode = "NORMAL" /\ new.last = event /\ new.version = v + 1
      /\ new.evidence = Updated(r) /\ new.noGo = None /\ new.deadline = None
      /\ new.purpose = "OPERATIONAL"
  BY <1>1 DEF Result
<1>3. DOMAIN new.evidence = keys \cup {event}
  BY <1>1, <1>2, UpdatedKeys
<1> HIDE DEF new
<1>4. HistoryOf(new) \in Histories
  BY <1>2, <1>3 DEF HistoryOf, Plain, History
<1>5. {event} \cap Bindings = {}
  BY DEF Completions, Bindings
<1>6. ValidState(new)
  BY <1>2, <1>4, <1>5, NextValid
<1> QED BY <1>6 DEF new

\* The histories these lead to are known.
LEMMA WindowKnown ==
  ASSUME NEW h, NEW v \in F8Versions, NEW loss \in LossReasons
  PROVE  /\ Entered(h, "F8_RETRY_ENTER", "S2", "F7_PASS", 10, RetryKeys) => h \in Histories
         /\ Contained(h, "F8_RETRY_CONTAIN_ENTER", "S2", "F7_PASS", 10, RetryKeys, loss) => h \in Histories
         /\ Aborted(h, "F8_RETRY_ABORT_CONTAINED", "S2", "F7_PASS", 10, RetryKeys, loss) => h \in Histories
         /\ Entered(h, "F8_PRIME_RETRY_ENTER", "S4", "F7_PRIME_PASS", v + 8, PrimeRetryKeys(v))
              => h \in Histories
         /\ Contained(h, "F8_PRIME_RETRY_CONTAIN_ENTER", "S4", "F7_PRIME_PASS", v + 8,
                      PrimeRetryKeys(v), loss) => h \in Histories
         /\ Aborted(h, "F8_PRIME_RETRY_ABORT_CONTAINED", "S4", "F7_PRIME_PASS", v + 8,
                    PrimeRetryKeys(v), loss) => h \in Histories
BY Members DEF Forward, Backward, BaseRetry, PrimeRetry, InRetry, F8Versions

LEMMA RetryEvents ==
  /\ \A event \in RetryEnter \cup ContainEnter \cup Aborts :
       Machine[event].to = IF event \in {"F8_RETRY_ENTER", "F8_RETRY_CONTAIN_ENTER",
                                         "F8_RETRY_ABORT_CONTAINED"} THEN "S2" ELSE "S4"
  /\ Machine["F8_COMPLETE"].to = "S3" /\ Machine["F8_PRIME_COMPLETE"].to = "S0"
  /\ Machine["F8_COMPLETE"].modes = {"NORMAL", "F8_RETRY_ONLY"}
  /\ Machine["F8_PRIME_COMPLETE"].modes = {"NORMAL", "F8_PRIME_RETRY_ONLY"}
  /\ Machine["F8_RETRY_CONTAIN_ENTER"].modes = {"F8_RETRY_ONLY"}
  /\ Machine["F8_PRIME_RETRY_CONTAIN_ENTER"].modes = {"F8_PRIME_RETRY_ONLY"}
  /\ Machine["F8_RETRY_ABORT_CONTAINED"].modes = {"F8_CONTAINMENT_ONLY"}
  /\ Machine["F8_PRIME_RETRY_ABORT_CONTAINED"].modes = {"F8_PRIME_CONTAINMENT_ONLY"}
BY DEF Machine, Edge, Normal, RetryEnter, ContainEnter, Aborts

LEMMA LastGates ==
  /\ \A event \in {"F8_RETRY_ENTER", "F8_COMPLETE"} :
       event \in DOMAIN Predecessor /\ Predecessor[event] = "F7_PASS"
  /\ \A event \in {"F8_PRIME_RETRY_ENTER", "F8_PRIME_COMPLETE"} :
       event \in DOMAIN Predecessor /\ Predecessor[event] = "F7_PRIME_PASS"
BY DEF Predecessor

LEMMA LastGateState ==
  ASSUME ValidState(state), NEW event, NEW offer, Admit(event, offer), state.mode = "NORMAL"
  PROVE  /\ event \in {"F8_RETRY_ENTER", "F8_COMPLETE"} =>
              HistoryOf(state) = Plain("F7_PASS", "S2", "S2", "F7_PASS", 9, BaseKeys)
         /\ event \in {"F8_PRIME_RETRY_ENTER", "F8_PRIME_COMPLETE"} =>
              \E v \in F8Versions : HistoryOf(state) =
                Plain("F7_PRIME_PASS", "S4", "S4", "F7_PRIME_PASS", v + 7, S4Keys(v, 6))
<1> DEFINE h == HistoryOf(state)
<1>1. PlainForward(h) \/ PlainBackward(h, 10) \/ PlainBackward(h, 11)
  BY PlainBefore
<1>2. event \in DOMAIN Predecessor => h.last = Predecessor[event]
  BY StateHistory DEF Admit, GateOrder
<1> HIDE DEF h
<1>3. ASSUME event \in {"F8_RETRY_ENTER", "F8_COMPLETE"}
      PROVE  h = Plain("F7_PASS", "S2", "S2", "F7_PASS", 9, BaseKeys)
  <2>1. PICK i \in 1..8 : i = 8
    OBVIOUS
  <2>2. h.last = BaseGates[i]
    BY <1>2, <1>3, <2>1, LastGates, Gates
  <2>3. h = Plain(BaseGates[i], IF i = 1 THEN "S1" ELSE "S2", "S2", BaseGates[i], i + 1,
                  Incident \cup GateKeys(BaseGates, i))
    BY <1>1, <2>2, AfterBaseGate
  <2> QED BY <2>1, <2>3, Gates DEF BaseKeys
<1>4. ASSUME event \in {"F8_PRIME_RETRY_ENTER", "F8_PRIME_COMPLETE"}
      PROVE  \E v \in F8Versions :
               h = Plain("F7_PRIME_PASS", "S4", "S4", "F7_PRIME_PASS", v + 7, S4Keys(v, 6))
  <2>1. h.last = PrimeGates[6]
    BY <1>2, <1>4, LastGates, Gates
  <2>2. PICK v \in F8Versions :
          h = Plain(PrimeGates[6], "S4", "S4", PrimeGates[6], v + 1 + 6, S4Keys(v, 6))
    BY <1>1, <2>1, AfterPrimeGate
  <2>3. v + 1 + 6 = v + 7
    BY DEF F8Versions
  <2> QED BY <2>2, <2>3, Gates
<1> QED BY <1>3, <1>4 DEF h

\* So each request that transition() admits is stored, if it is not a signal.
LEMMA EnterRetryValid ==
  ASSUME ValidState(state), NEW event \in RetryEnter, NEW offer, NEW r, Admit(event, offer),
         NEW deadline, deadline # None, Adds(r, ExpectedEvidence(event, None))
  PROVE  ValidState(Result(event, offer, r, state.last, RetryModeOf(event), deadline, state.noGo,
                           state.consumed))
<1> DEFINE new == Result(event, offer, r, state.last, RetryModeOf(event), deadline, state.noGo,
                         state.consumed)
<1>1. /\ event \in Events /\ event # "INCIDENT_SIGNAL" /\ event \notin ContainEnter
      /\ ExpectedEvidence(event, None) = RetryEvidence[event]
  BY EventKinds DEF RetryEnter, ContainEnter, ExpectedEvidence
<1>2. state.mode = "NORMAL" /\ offer.purpose = "OPERATIONAL" /\ Adds(r, RetryEvidence[event])
  BY <1>1, NormalAdmitted, PlainPurpose
<1>3. HistoryOf(new) \in Histories
  <2>1. CASE event = "F8_RETRY_ENTER"
    <3>1. /\ HistoryOf(state) = Plain("F7_PASS", "S2", "S2", "F7_PASS", 9, BaseKeys)
          /\ Machine[event].to = "S2"
      BY <1>2, <2>1, LastGateState, RetryEvents
    <3>2. Entered(HistoryOf(new), event, "S2", "F7_PASS", 9 + 1, BaseKeys \cup RetryEvidence[event])
      BY <1>2, <3>1, WindowNext
    <3>3. Entered(HistoryOf(new), "F8_RETRY_ENTER", "S2", "F7_PASS", 10, RetryKeys)
      BY <2>1, <3>2 DEF RetryKeys
    <3> QED BY <3>3, WindowKnown DEF F8Versions, LossReasons
  <2>2. CASE event = "F8_PRIME_RETRY_ENTER"
    <3>1. PICK v \in F8Versions :
            HistoryOf(state) = Plain("F7_PRIME_PASS", "S4", "S4", "F7_PRIME_PASS", v + 7, S4Keys(v, 6))
      BY <1>2, <2>2, LastGateState
    <3>2. Machine[event].to = "S4" /\ (v + 7) + 1 = v + 8
      BY <2>2, RetryEvents DEF F8Versions
    <3>3. Entered(HistoryOf(new), event, "S4", "F7_PRIME_PASS", (v + 7) + 1,
                  S4Keys(v, 6) \cup RetryEvidence[event])
      BY <1>2, <3>1, <3>2, WindowNext
    <3>4. Entered(HistoryOf(new), "F8_PRIME_RETRY_ENTER", "S4", "F7_PRIME_PASS", v + 8,
                  PrimeRetryKeys(v))
      BY <2>2, <3>2, <3>3 DEF PrimeRetryKeys
    <3> QED BY <3>4, WindowKnown DEF LossReasons
  <2> QED BY <2>1, <2>2 DEF RetryEnter
<1>4. new.evidence = Updated(r)
  BY DEF Result
<1> QED BY <1>1, <1>3, <1>4, NextValid, NoBinding

LEMMA EnterContainmentValid ==
  ASSUME ValidState(state), NEW event \in ContainEnter, NEW offer, NEW r, Admit(event, offer),
         NEW loss \in LossReasons, Adds(r, ExpectedEvidence(event, loss)), NEW consumed
  PROVE  ValidState(Result(event, offer, r, state.last, ContainModeOf(event), state.deadline,
                           NoGoOf[loss], consumed))
<1> DEFINE new == Result(event, offer, r, state.last, ContainModeOf(event), state.deadline,
                         NoGoOf[loss], consumed)
<1>1. /\ event \in Events /\ event # "INCIDENT_SIGNAL"
      /\ ExpectedEvidence(event, loss) = {loss}
  BY EventKinds DEF RetryEnter, ContainEnter, ExpectedEvidence
<1>2. offer.purpose = "EMERGENCY" /\ Adds(r, {loss}) /\ state.mode \in Machine[event].modes
  BY <1>1 DEF Admit
<1>3. HistoryOf(state) \in Histories /\ HistoryOf(state).mode = state.mode
  BY StateHistory DEF ValidState
<1>4. HistoryOf(new) \in Histories
  <2>1. CASE event = "F8_RETRY_CONTAIN_ENTER"
    <3>1. /\ Entered(HistoryOf(state), "F8_RETRY_ENTER", "S2", "F7_PASS", 10, RetryKeys)
          /\ Machine[event].to = "S2"
      BY <1>2, <1>3, <2>1, InWindow, RetryEvents
    <3>2. Contained(HistoryOf(new), event, "S2", "F7_PASS", 10, RetryKeys, loss)
      BY <1>2, <3>1, ContainNext
    <3> QED BY <2>1, <3>2, WindowKnown DEF F8Versions
  <2>2. CASE event = "F8_PRIME_RETRY_CONTAIN_ENTER"
    <3>1. PICK v \in F8Versions : Entered(HistoryOf(state), "F8_PRIME_RETRY_ENTER", "S4",
                                          "F7_PRIME_PASS", v + 8, PrimeRetryKeys(v))
      BY <1>2, <1>3, <2>2, InWindow, RetryEvents
    <3>2. Machine[event].to = "S4"
      BY <2>2, RetryEvents
    <3>3. Contained(HistoryOf(new), event, "S4", "F7_PRIME_PASS", v + 8, PrimeRetryKeys(v), loss)
      BY <1>2, <3>1, <3>2, ContainNext
    <3> QED BY <2>2, <3>3, WindowKnown
  <2> QED BY <2>1, <2>2 DEF ContainEnter
<1>5. new.evidence = Updated(r)
  BY DEF Result
<1> QED BY <1>1, <1>4, <1>5, NextValid, NoBinding

LEMMA ContainmentValid ==
  ASSUME ValidState(state), NEW event \in ContainEnter, NEW offer, NEW loss \in LossReasons,
         NEW key, NEW ev \in Submissions, Containable(event, offer, loss, key, ev)
  PROVE  ValidState(Containment(event, offer, loss, key, ev))
<1>1. Admit(event, offer) /\ Adds(ev, ExpectedEvidence(event, loss))
  BY SubmittedAdds DEF Containable
<1> QED BY <1>1, EnterContainmentValid DEF Containment

LEMMA AbortValid ==
  ASSUME ValidState(state), NEW event \in Aborts, NEW offer, NEW r, Admit(event, offer),
         Adds(r, ExpectedEvidence(event, None))
  PROVE  ValidState(Result(event, offer, r, state.last, "NORMAL", state.deadline, state.noGo,
                           state.consumed))
<1> DEFINE new == Result(event, offer, r, state.last, "NORMAL", state.deadline, state.noGo,
                         state.consumed)
<1>1. /\ event \in Events /\ event # "INCIDENT_SIGNAL" /\ event \notin ContainEnter
      /\ ExpectedEvidence(event, None) = ContainmentMutations
  BY EventKinds DEF RetryEnter, ContainEnter, Aborts, ExpectedEvidence
<1>2. /\ offer.purpose = "OPERATIONAL" /\ Adds(r, ContainmentMutations)
      /\ state.mode \in Machine[event].modes
  BY <1>1 DEF Admit
<1>3. HistoryOf(state) \in Histories /\ HistoryOf(state).mode = state.mode
  BY StateHistory DEF ValidState
<1>4. HistoryOf(new) \in Histories
  <2>1. CASE event = "F8_RETRY_ABORT_CONTAINED"
    <3>1. PICK loss \in LossReasons : Contained(HistoryOf(state), "F8_RETRY_CONTAIN_ENTER", "S2",
                                                "F7_PASS", 10, RetryKeys, loss)
      BY <1>2, <1>3, <2>1, InWindow, RetryEvents
    <3>2. Machine[event].to = "S2" /\ 10 \in Nat
      BY <2>1, RetryEvents
    <3>3. Aborted(HistoryOf(new), event, "S2", "F7_PASS", 10, RetryKeys, loss)
      BY <1>2, <3>1, <3>2, AbortNext
    <3> QED BY <2>1, <3>3, WindowKnown DEF F8Versions
  <2>2. CASE event = "F8_PRIME_RETRY_ABORT_CONTAINED"
    <3>1. \E v \in F8Versions, loss \in LossReasons :
            Contained(HistoryOf(state), "F8_PRIME_RETRY_CONTAIN_ENTER", "S4", "F7_PRIME_PASS",
                      v + 8, PrimeRetryKeys(v), loss)
      BY <1>2, <1>3, <2>2, InWindow, RetryEvents
    <3>2. PICK v \in F8Versions, loss \in LossReasons :
            Contained(HistoryOf(state), "F8_PRIME_RETRY_CONTAIN_ENTER", "S4", "F7_PRIME_PASS",
                      v + 8, PrimeRetryKeys(v), loss)
      BY <3>1
    <3>3. Machine[event].to = "S4" /\ v + 8 \in Nat
      BY <2>2, RetryEvents DEF F8Versions
    <3>4. Aborted(HistoryOf(new), event, "S4", "F7_PRIME_PASS", v + 8, PrimeRetryKeys(v), loss)
      BY <1>2, <3>2, <3>3, AbortNext
    <3> QED BY <2>2, <3>4, WindowKnown
  <2> QED BY <2>1, <2>2 DEF Aborts
<1>5. new.evidence = Updated(r)
  BY DEF Result
<1> QED BY <1>1, <1>4, <1>5, NextValid, NoBinding

LEMMA CompletionKnown ==
  ASSUME NEW v \in F8Versions
  PROVE  /\ Plain("F8_COMPLETE", "S2", "S3", "F8_COMPLETE", 9 + 1, BaseKeys \cup {"F8_COMPLETE"})
              \in Histories
         /\ Plain("F8_COMPLETE", "S2", "S3", "F8_COMPLETE", 10 + 1, RetryKeys \cup {"F8_COMPLETE"})
              \in Histories
         /\ Plain("F8_PRIME_COMPLETE", "S4", "S0", "F8_PRIME_COMPLETE", (v + 7) + 1,
                  S4Keys(v, 6) \cup {"F8_PRIME_COMPLETE"}) \in Histories
         /\ Plain("F8_PRIME_COMPLETE", "S4", "S0", "F8_PRIME_COMPLETE", (v + 8) + 1,
                  PrimeRetryKeys(v) \cup {"F8_PRIME_COMPLETE"}) \in Histories
<1>1. /\ F8Keys(10) = BaseKeys \cup {"F8_COMPLETE"}
      /\ F8Keys(11) = RetryKeys \cup {"F8_COMPLETE"}
  BY DEF F8Keys, RetryKeys
<1>2. \A w \in F8Versions : Plain("F8_COMPLETE", "S2", "S3", "F8_COMPLETE", w, F8Keys(w)) \in Histories
  BY Members DEF Backward, F8Versions
<1>3. (v + 7) + 1 = v + 8 /\ (v + 8) + 1 = v + 9
  BY DEF F8Versions
<1>4. Plain("F8_PRIME_COMPLETE", "S4", "S0", "F8_PRIME_COMPLETE", v + 8,
            S4Keys(v, 6) \cup {"F8_PRIME_COMPLETE"}) \in Histories
  BY Members DEF Backward, F8Versions
<1>5. Plain("F8_PRIME_COMPLETE", "S4", "S0", "F8_PRIME_COMPLETE", v + 9,
            PrimeRetryKeys(v) \cup {"F8_PRIME_COMPLETE"}) \in Histories
  BY Members DEF Backward, F8Versions
<1> QED BY <1>1, <1>2, <1>3, <1>4, <1>5 DEF F8Versions

LEMMA CompleteValid ==
  ASSUME ValidState(state), NEW event \in Completions, NEW offer, NEW r, Admit(event, offer),
         Adds(r, ExpectedEvidence(event, None))
  PROVE  ValidState(Result(event, offer, r, event, "NORMAL", None, state.noGo, state.consumed))
<1>1. /\ event \in Events /\ event # "INCIDENT_SIGNAL" /\ event \notin ContainEnter
      /\ ExpectedEvidence(event, None) = {event}
  BY EventKinds, CompletionAsks DEF ContainEnter, Completions
<1>2. /\ offer.purpose = "OPERATIONAL" /\ Adds(r, {event})
      /\ state.mode \in Machine[event].modes
  BY <1>1 DEF Admit
<1>3. HistoryOf(state) \in Histories /\ HistoryOf(state).mode = state.mode
  BY StateHistory DEF ValidState
<1>4. CASE event = "F8_COMPLETE"
  <2>1. Machine[event].to = "S3"
    BY <1>4, RetryEvents
  <2>2. CASE state.mode = "NORMAL"
    <3>1. HistoryOf(state) = Plain("F7_PASS", "S2", "S2", "F7_PASS", 9, BaseKeys)
      BY <1>4, <2>2, LastGateState
    <3>2. Plain(event, "S2", Machine[event].to, event, 9 + 1,
                BaseKeys \cup ExpectedEvidence(event, None)) \in Histories
      BY <1>1, <1>4, <2>1, CompletionKnown DEF F8Versions
    <3> QED BY <1>1, <1>2, <3>1, <3>2, PlainNext
  <2>3. CASE state.mode = "F8_RETRY_ONLY"
    <3>1. Entered(HistoryOf(state), "F8_RETRY_ENTER", "S2", "F7_PASS", 10, RetryKeys)
      BY <1>3, <2>3, InWindow
    <3>2. Plain(event, "S2", Machine[event].to, event, 10 + 1, RetryKeys \cup {event}) \in Histories
      BY <1>4, <2>1, CompletionKnown DEF F8Versions
    <3> QED BY <1>2, <3>1, <3>2, CompleteNext
  <2> QED BY <1>2, <1>4, <2>2, <2>3, RetryEvents
<1>5. CASE event = "F8_PRIME_COMPLETE"
  <2>1. Machine[event].to = "S0"
    BY <1>5, RetryEvents
  <2>2. CASE state.mode = "NORMAL"
    <3>1. PICK v \in F8Versions :
            HistoryOf(state) = Plain("F7_PRIME_PASS", "S4", "S4", "F7_PRIME_PASS", v + 7, S4Keys(v, 6))
      BY <1>5, <2>2, LastGateState
    <3>2. Plain(event, "S4", Machine[event].to, event, (v + 7) + 1,
                S4Keys(v, 6) \cup ExpectedEvidence(event, None)) \in Histories
      BY <1>1, <1>5, <2>1, CompletionKnown
    <3> QED BY <1>1, <1>2, <3>1, <3>2, PlainNext
  <2>3. CASE state.mode = "F8_PRIME_RETRY_ONLY"
    <3>1. PICK v \in F8Versions : Entered(HistoryOf(state), "F8_PRIME_RETRY_ENTER", "S4",
                                          "F7_PRIME_PASS", v + 8, PrimeRetryKeys(v))
      BY <1>3, <2>3, InWindow
    <3>2. Plain(event, "S4", Machine[event].to, event, (v + 8) + 1, PrimeRetryKeys(v) \cup {event})
            \in Histories
      BY <1>5, <2>1, CompletionKnown
    <3> QED BY <1>2, <3>1, <3>2, CompleteNext
  <2> QED BY <1>2, <1>5, <2>2, <2>3, RetryEvents
<1> QED BY <1>4, <1>5 DEF Completions

LEMMA PlainValid ==
  ASSUME ValidState(state), NEW event \in PlainEvents, event # "INCIDENT_SIGNAL", NEW offer, NEW r,
         Admit(event, offer), Adds(r, ExpectedEvidence(event, None))
  PROVE  ValidState(Result(event, offer, r, event, state.mode, state.deadline, state.noGo,
                           state.consumed))
<1>1. CASE event = "SOURCE_RETAINED"
  BY <1>1, SourceValid
<1>2. ASSUME NEW i \in 1..8, event = BaseGates[i]
      PROVE  ValidState(Result(event, offer, r, event, state.mode, state.deadline, state.noGo,
                               state.consumed))
  BY <1>2, BaseGateValid
<1>3. ASSUME NEW i \in 1..6, event = PrimeGates[i]
      PROVE  ValidState(Result(event, offer, r, event, state.mode, state.deadline, state.noGo,
                               state.consumed))
  BY <1>3, PrimeGateValid
<1> QED BY <1>1, <1>2, <1>3, PlainEventCases

LEMMA StoredValid ==
  ASSUME NEW new, NEW opened, Store(new, opened), ValidState(new)
  PROVE  refused' = refused
BY DEF Store

LEMMA Closed == ASSUME IInv, HistoryClosed, [Next]_vars PROVE HistoryClosed'
<1> USE DEF IInv
<1>1. ASSUME NEW offer \in Offers, NEW event \in PlainEvents, Advance(event, offer)
      PROVE  HistoryClosed'
  <2>1. PICK ev \in Submissions :
          /\ Evidence(event, None, ev)
          /\ Store(Result(event, offer, Recorded(event, ev), event, state.mode, state.deadline,
                          state.noGo, state.consumed), entered)
    BY <1>1 DEF Advance
  <2>2. CASE event = "INCIDENT_SIGNAL"
    <3>1. refused' \subseteq refused \cup {event}
      BY <2>1 DEF Store, Result
    <3> QED BY <2>2, <3>1 DEF HistoryClosed
  <2>3. CASE event # "INCIDENT_SIGNAL"
    <3>1. Adds(Recorded(event, ev), ExpectedEvidence(event, None)) /\ Admit(event, offer)
      BY <1>1, <2>1, <2>3, RecordedAdds DEF Advance
    <3>2. refused' = refused
      BY <2>1, <2>3, <3>1, PlainValid, StoredValid
    <3> QED BY <3>2 DEF HistoryClosed
  <2> QED BY <2>2, <2>3
<1>2. ASSUME NEW offer \in Offers, NEW soak \in Soaks, FailbackApproved(offer, soak)
      PROVE  HistoryClosed'
  <2>1. PICK ev \in Submissions :
          /\ Evidence("FAILBACK_APPROVED", None, ev)
          /\ Store(Result("FAILBACK_APPROVED", offer, ev, "FAILBACK_APPROVED", state.mode,
                          state.deadline, state.noGo, state.consumed), entered)
    BY <1>2 DEF FailbackApproved
  <2>2. refused' = refused
    BY <1>2, <2>1, SubmittedAdds, FailbackValid, StoredValid DEF FailbackApproved
  <2> QED BY <2>2 DEF HistoryClosed
<1>3. ASSUME NEW offer \in Offers, NEW event \in RetryEnter, NEW deadline \in Time,
             EnterRetry(event, offer, deadline)
      PROVE  HistoryClosed'
  <2>1. PICK ev \in Submissions :
          /\ Evidence(event, None, ev)
          /\ Store(Result(event, offer, ev, state.last, RetryModeOf(event), deadline, state.noGo,
                          state.consumed), now)
    BY <1>3 DEF EnterRetry
  <2>2. refused' = refused
    BY <1>3, <2>1, Clock, SubmittedAdds, EnterRetryValid, StoredValid DEF EnterRetry
  <2> QED BY <2>2 DEF HistoryClosed
<1>4. ASSUME NEW offer \in Offers, NEW event \in Completions, Complete(event, offer)
      PROVE  HistoryClosed'
  <2>1. PICK ev \in Submissions :
          /\ Evidence(event, None, ev)
          /\ Store(Result(event, offer, ev, event, "NORMAL", None, state.noGo, state.consumed), None)
    BY <1>4 DEF Complete
  <2>2. refused' = refused
    BY <1>4, <2>1, SubmittedAdds, CompleteValid, StoredValid DEF Complete
  <2> QED BY <2>2 DEF HistoryClosed
<1>5. ASSUME NEW offer \in Offers, NEW event \in ContainEnter, NEW loss \in LossReasons,
             NEW key \in LeaseKeys, EnterContainment(event, offer, loss, key)
      PROVE  HistoryClosed'
  <2>1. PICK ev \in Submissions : /\ Containable(event, offer, loss, key, ev)
                                 /\ Store(Containment(event, offer, loss, key, ev), entered)
    BY <1>5 DEF EnterContainment
  <2>2. ValidState(Containment(event, offer, loss, key, ev))
    BY <1>5, <2>1, ContainmentValid DEF IInv
  <2>3. refused' = refused
    BY <2>1, <2>2, StoredValid
  <2> QED BY <2>3 DEF HistoryClosed
<1>6. ASSUME NEW offer \in Offers, NEW event \in Aborts, AbortContained(event, offer)
      PROVE  HistoryClosed'
  <2>1. PICK ev \in Submissions :
          /\ Evidence(event, None, ev)
          /\ Store(Result(event, offer, ev, state.last, "NORMAL", state.deadline, state.noGo,
                          state.consumed), entered)
    BY <1>6 DEF AbortContained
  <2>2. refused' = refused
    BY <1>6, <2>1, SubmittedAdds, AbortValid, StoredValid DEF AbortContained
  <2> QED BY <2>2 DEF HistoryClosed
<1>7. CASE Tick
  BY <1>7 DEF Tick, HistoryClosed
<1>8. CASE UNCHANGED vars
  BY <1>8 DEF vars, HistoryClosed
<1> QED BY <1>1, <1>2, <1>3, <1>4, <1>5, <1>6, <1>7, <1>8 DEF Next, Submit

---------------------------------------------------------------------------
(* A retry window can be contained. *)

\* A lease key is consumed with a no-go only, and a window has a length.
Unspent ==
  /\ state.noGo = None => state.consumed = {}
  /\ state.deadline # None => RetryMax > 0

\* The document stays, or is one whose window and keys are known.
LEMMA StoreUnspent ==
  ASSUME Unspent, NEW new, NEW opened, Store(new, opened),
         new.noGo = None => new.consumed = {}, new.deadline # None => RetryMax > 0
  PROVE  Unspent'
BY DEF Store, Unspent

LEMMA UnspentKept == ASSUME IInv, Unspent, [Next]_vars PROVE Unspent'
<1>1. ASSUME NEW offer \in Offers, NEW event \in PlainEvents, Advance(event, offer)
      PROVE  Unspent'
  <2>1. PICK new : /\ Store(new, entered) /\ new.noGo = state.noGo
                   /\ new.consumed = state.consumed /\ new.deadline = state.deadline
    BY <1>1 DEF Advance, Result
  <2> QED BY <2>1, StoreUnspent DEF Unspent
<1>2. ASSUME NEW offer \in Offers, NEW soak \in Soaks, FailbackApproved(offer, soak)
      PROVE  Unspent'
  <2>1. PICK new : /\ Store(new, entered) /\ new.noGo = state.noGo
                   /\ new.consumed = state.consumed /\ new.deadline = state.deadline
    BY <1>2 DEF FailbackApproved, Result
  <2> QED BY <2>1, StoreUnspent DEF Unspent
<1>3. ASSUME NEW offer \in Offers, NEW event \in RetryEnter, NEW deadline \in Time,
             EnterRetry(event, offer, deadline)
      PROVE  Unspent'
  <2>1. PICK new : /\ Store(new, now) /\ new.noGo = state.noGo /\ new.consumed = state.consumed
    BY <1>3 DEF EnterRetry, Result
  <2>2. deadline > now /\ deadline - now <= RetryMax
    BY <1>3 DEF EnterRetry
  <2>3. RetryMax > 0
    BY <1>3, <2>2, Clock, ClockAssumption DEF IInv, TypeOK, Times
  <2> QED BY <2>1, <2>3, StoreUnspent DEF Unspent
<1>4. ASSUME NEW offer \in Offers, NEW event \in Completions, Complete(event, offer)
      PROVE  Unspent'
  <2>1. PICK new : /\ Store(new, None) /\ new.noGo = state.noGo
                   /\ new.consumed = state.consumed /\ new.deadline = None
    BY <1>4 DEF Complete, Result
  <2> QED BY <2>1, StoreUnspent DEF Unspent
<1>5. ASSUME NEW offer \in Offers, NEW event \in ContainEnter, NEW loss \in LossReasons,
             NEW key \in LeaseKeys, EnterContainment(event, offer, loss, key)
      PROVE  Unspent'
  <2>1. PICK new : Store(new, entered) /\ new.noGo = NoGoOf[loss] /\ new.deadline = state.deadline
    BY <1>5 DEF EnterContainment, Containment, Result
  <2> QED BY <2>1, NoGos, StoreUnspent DEF Unspent
<1>6. ASSUME NEW offer \in Offers, NEW event \in Aborts, AbortContained(event, offer)
      PROVE  Unspent'
  <2>1. PICK new : /\ Store(new, entered) /\ new.noGo = state.noGo
                   /\ new.consumed = state.consumed /\ new.deadline = state.deadline
    BY <1>6 DEF AbortContained, Result
  <2> QED BY <2>1, StoreUnspent DEF Unspent
<1>7. CASE Tick
  BY <1>7 DEF Tick, Unspent
<1>8. CASE UNCHANGED vars
  BY <1>8 DEF vars, Unspent
<1> QED BY <1>1, <1>2, <1>3, <1>4, <1>5, <1>6, <1>7, <1>8 DEF Next, Submit

\* In a retry mode nothing of a loss is on record yet.
LEMMA RetryDocument ==
  ASSUME ValidState(state), state.mode \in RetryModes
  PROVE  /\ state.noGo = None /\ state.deadline # None
         /\ "RETRY_FRESHNESS_LOST" \notin DOMAIN state.evidence
         /\ \E event \in ContainEnter : /\ Machine[event].from = state.to
                                        /\ state.mode \in Machine[event].modes
<1>1. HistoryOf(state) \in Histories /\ HistoryOf(state).mode = state.mode
  BY StateHistory DEF ValidState
<1>2. "RETRY_FRESHNESS_LOST" \notin RetryKeys
  BY DEF RetryKeys, BaseKeys, Incident, GateKeys, BaseGates, RetryEvidence
<1>3. \A v \in F8Versions : "RETRY_FRESHNESS_LOST" \notin PrimeRetryKeys(v)
  BY DEF PrimeRetryKeys, S4Keys, F8Keys, BaseKeys, Incident, GateKeys, BaseGates, PrimeGates,
         RetryEvidence, F8Versions
<1>4. CASE state.mode = "F8_RETRY_ONLY"
  <2>1. Entered(HistoryOf(state), "F8_RETRY_ENTER", "S2", "F7_PASS", 10, RetryKeys)
    BY <1>1, <1>4, InWindow
  <2>2. "F8_RETRY_CONTAIN_ENTER" \in ContainEnter /\ Machine["F8_RETRY_CONTAIN_ENTER"].from = "S2"
    BY DEF ContainEnter, Machine, Edge
  <2> QED BY <1>2, <1>4, <2>1, <2>2, EnteredState, RetryEvents
<1>5. CASE state.mode = "F8_PRIME_RETRY_ONLY"
  <2>1. PICK v \in F8Versions : Entered(HistoryOf(state), "F8_PRIME_RETRY_ENTER", "S4",
                                        "F7_PRIME_PASS", v + 8, PrimeRetryKeys(v))
    BY <1>1, <1>5, InWindow
  <2>2. /\ "F8_PRIME_RETRY_CONTAIN_ENTER" \in ContainEnter
        /\ Machine["F8_PRIME_RETRY_CONTAIN_ENTER"].from = "S4"
    BY DEF ContainEnter, Machine, Edge
  <2> QED BY <1>3, <1>5, <2>1, <2>2, EnteredState, RetryEvents
<1> QED BY <1>4, <1>5 DEF RetryModes

LEMMA ContainmentOpen == ASSUME IInv, Unspent PROVE RetryContainable
<1> SUFFICES ASSUME state.mode \in RetryModes
             PROVE  \E offer \in Offers, event \in ContainEnter, loss \in LossReasons,
                       key \in LeaseKeys, ev \in Submissions :
                      /\ Containable(event, offer, loss, key, ev)
                      /\ ValidState(Containment(event, offer, loss, key, ev))
  BY DEF RetryContainable
<1> DEFINE loss == "RETRY_FRESHNESS_LOST"
           offer == [lease |-> Horizon + RetryMax, purpose |-> "EMERGENCY", mutations |-> {}]
<1>1. /\ ValidState(state) /\ state.noGo = None /\ state.deadline # None
      /\ loss \notin DOMAIN state.evidence /\ loss \in LossReasons
  BY RetryDocument DEF IInv, LossReasons
<1>2. PICK event \in ContainEnter : /\ Machine[event].from = state.to
                                    /\ state.mode \in Machine[event].modes
  BY RetryDocument DEF IInv
<1>3. PICK key \in LeaseKeys : key \notin state.consumed
  BY <1>1, ContainmentAssumption DEF Unspent
<1>4. PICK ev \in Submissions : DOMAIN ev = {loss}
  BY ContainmentAssumption
<1>5. offer \in Offers /\ offer.lease > now
  <2>1. now \in 0..Horizon /\ RetryMax > 0
    BY <1>1 DEF IInv, TypeOK, Unspent
  <2>2. Horizon + RetryMax \in Time /\ Horizon + RetryMax > now
    BY <2>1, ClockAssumption DEF Time
  <2> QED BY <2>2 DEF Offers, RequestedMutations
<1>6. event \notin RetryEnter /\ event \notin DOMAIN Predecessor
  BY DEF ContainEnter, RetryEnter, Predecessor
<1>7. Evidence(event, loss, ev)
  BY <1>1, <1>4, <1>6 DEF Evidence, ExpectedEvidence
<1>8. Admit(event, offer)
  BY <1>1, <1>2, <1>5, <1>6 DEF Admit, GateOrder
<1>9. Containable(event, offer, loss, key, ev)
  BY <1>1, <1>3, <1>7, <1>8 DEF Containable
<1>10. ValidState(Containment(event, offer, loss, key, ev))
  BY <1>1, <1>9, ContainmentValid
<1> QED BY <1>1, <1>5, <1>9, <1>10

---------------------------------------------------------------------------
(* The theorems. *)

\* The invariant holds in every state.
THEOREM Invariance == Spec => []IInv
<1>1. Init => IInv
  BY Initially
<1>2. IInv /\ [Next]_vars => IInv'
  BY Inductive DEF Kept
<1> QED BY <1>1, <1>2, PTL DEF Spec

\* Type correctness.
THEOREM TypeCorrect == Spec => []TypeOK
<1>1. IInv => TypeOK
  BY DEF IInv
<1> QED BY <1>1, Invariance, PTL

\* The guards of transition() and the table of history_candidates() agree: whatever
\* is admitted is stored, but for a signal where the document is at its end.
THEOREM HistoryClosedAlways == Spec => []HistoryClosed
<1>1. Init => HistoryClosed
  BY DEF Init, HistoryClosed
<1>2. IInv /\ HistoryClosed /\ [Next]_vars => HistoryClosed'
  BY Closed
<1> QED BY <1>1, <1>2, Invariance, PTL DEF Spec

\* Evidence on record is never taken back or changed by a later transition.
THEOREM EvidenceAppendOnlyAlways == Spec => EvidenceAppendOnly
<1> DEFINE Appending == [DOMAIN state.evidence \subseteq DOMAIN state'.evidence
     /\ \A k \in DOMAIN state.evidence : state'.evidence[k] = state.evidence[k]]_vars
<1>1. IInv /\ [Next]_vars => Appending
  BY Inductive DEF Kept, Appended
<1> QED BY <1>1, Invariance, PTL DEF Spec, EvidenceAppendOnly

\* In a retry mode the operators can always go into containment: no lease that ran
\* out, no clock and no history stands in the way.  The invariant gives them an
\* unused key, and a lease that a request can still carry.
THEOREM RetryContainableAlways == Spec => []RetryContainable
<1>1. Init => Unspent
  BY DEF Init, Unspent
<1>2. IInv /\ Unspent /\ [Next]_vars => Unspent'
  BY UnspentKept
<1>3. IInv /\ Unspent => RetryContainable
  BY ContainmentOpen
<1> QED BY <1>1, <1>2, <1>3, Invariance, PTL DEF Spec

\* The transition authority implements Handover: one holder at a time, nobody
\* in between, the whole checklist first, no completion after the window, for
\* every clock, retry window, submission and soak.
THEOREM ImplementsHandoverAlways == Spec => ImplementsHandover
<1>1. Init => Abstract!Init
  BY AbstractInit
<1>2. IInv /\ [Next]_vars => [Abstract!Next]_(Abstract!hvars)
  BY Refines DEF AbstractStep
<1> QED BY <1>1, <1>2, Invariance, PTL DEF Spec, ImplementsHandover, Abstract!Spec
=============================================================================
