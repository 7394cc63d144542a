-------------------------- MODULE MCActiveStandby --------------------------
(* A small instance of ActiveStandby for TLC.  Fresh evidence carries the  *)
(* digest "d1"; a request may leave out an item, or resubmit one recorded  *)
(* item under the same or another digest.                                  *)
EXTENDS ActiveStandby, TLC

MCDigests == {"d1", "d2", "bound"}

Fresh == {[k \in ExpectedEvidence(event, loss) |-> "d1"] : event \in Events, loss \in LossReasons}

Resubmitted ==
  {<<>>} \cup {k :> d : k \in {"INCIDENT_SIGNAL", "PUBKEY_BINDING", "F7_PASS"}, d \in {"d1", "d2"}}

Incomplete == {[k \in {"AWS_FENCE_FRESH"} |-> "d1"], [k \in ContainmentMutations \ {"RESEAL"} |-> "d1"]}

MCSubmissions == {f @@ r : f \in Fresh, r \in Resubmitted} \cup Incomplete

Sample(at, fenced, conflicts) ==
  [at |-> at, fenced |-> fenced, conflicts |-> conflicts, slashings |-> 0]
Soak(n, gap, fenced, approvers) ==
  [samples |-> [i \in 1..n |-> Sample(i * gap, fenced, 0)], approvers |-> approvers]

MCSymmetry == Permutations(LeaseKeys)

MCSoaks == {Soak(13, 300, TRUE, <<"a", "b">>), Soak(12, 300, TRUE, <<"a", "b">>),
            Soak(13, 240, TRUE, <<"a", "b">>), Soak(13, 300, FALSE, <<"a", "b">>),
            Soak(13, 300, TRUE, <<"a", "a">>)}
=============================================================================
