-------------------------- MODULE MCClientUpgrade --------------------------
(* Two locks, the second with a skew that is approved until time 2.  The   *)
(* windows touch at time 1; a soak has two samples.                        *)
EXTENDS ClientUpgrade, TLC

NoSkew == [enabled |-> FALSE, site |-> NoValue, change |-> NoValue, expires |-> 0]
Skew(s, t) == [enabled |-> TRUE, site |-> s, change |-> "CR-1", expires |-> t]
Lock(v, s) == [formats |-> TRUE, version |-> v, skew |-> s]
MCLocks == <<Lock(1, NoSkew), Lock(2, Skew("standby-aws", 2))>>

W(a, b) == [from |-> a, to |-> b]
EvidenceFor(l) ==
    [site |-> "standby", record |-> "CR-1", lock |-> l, sealed |-> TRUE, key_absent |-> TRUE,
     healthy |-> TRUE, from |-> 0, to |-> 1, samples |-> <<0, 1>>]
Change(l, before, aws) ==
    [formats |-> TRUE, id |-> "CR-1", approvals |-> <<"one", "two">>, lock |-> l,
     before |-> before, after |-> l.version, standby |-> W(0, 1), aws |-> aws,
     soak |-> W(0, 1), evidence |-> EvidenceFor(l)]
\* Releases under the version that is there, with windows that touch or overlap.
MCRecords == {Change(MCLocks[1], 1, W(1, 2)), Change(MCLocks[1], 1, W(0, 2))}
\* The upgrade from the version of the first lock to that of the second.
SkewRecords == {Change(MCLocks[2], 1, W(1, 2))}
MCEvidences == {EvidenceFor(MCLocks[1])}
Symmetric == Permutations(Renderers)
=============================================================================
