# Verification of the validator failover infrastructure

The repository runs one Ethereum validator on two hosts, an AWS Primary and an
AWS Standby. Its first promise is that two validator clients never sign at the
same time (README.md:3-4). No program moves the signing authority by itself:
two operators do, following runbooks, and a set of scripts refuses to let a
client start, or stops it, unless the evidence is complete. This directory has
TLA+ models of that machinery, the TLC runs that check them, and TLAPS proofs.

## 1. The system

| Component | State it keeps | Operations | Talks to |
|---|---|---|---|
| Evidence store (`vc-evidence-store.py`) | one directory: lock directory with an owner token, JSON, checksum, temporary files | begin, prepare, commit_checksum, commit_json, release, abort | called by the observer and by the gate, shares the directory between them |
| Absence observer (`observe-absence.sh`) | epochs observed, finality, the evidence it is about to publish | loop over beacon epochs, publish, trap | evidence store, beacon nodes |
| Input snapshot (`vc-input-snapshot.py`) | private copies of the gate's inputs | create, file-sha256 | read by the gate |
| Activation gate (`vc-gate.sh`) | verdict counter, pinned inputs | one long pass of checks, final re-check | evidence store, snapshot, token, marker, slashing database, counterparty evidence |
| Initial gate (`vc-initial-gate.sh`) | none | marker and token checks | run by the gate in scope `vc-start-initial` |
| Lease (`vc-lease.sh`, service, timer) | unit state, SEALED, token, exit status | one check a minute, `fence()` | systemd, the files the gate reads |
| Validator unit and roles | enabled, masked, active | start with gate, stop, boot | gate, lease, operators |
| Runbooks RB-01 to RB-04 | what has been done to which host | stop, revoke, seal, export, hard fence, import, approve, start | all of the above on both hosts |
| Transition authority (`transition-active-standby-state.py`) | one JSON state document under a lock file | validate a request, move, replace the file | operators, state machine JSON |
| Terraform workflows (deploy, Standby deploy, teardown) | saved plans, Terraform state, runs in a queue | plan, policy, approval, re-check, apply | main, reviewers, the manifest renderer, AWS |
| Manifest renderer (`render-terraform-ci-runtime.py`) | none | validate a tracked manifest, render it for a mode | the workflows |
| Keystore sealing (`seal-keystores.sh`) | one envelope directory of six files | seal, unseal | operators, KMS, lab.env |
| Environment file (`init-if-absent.py`, `upsert-lab-env.py`, `sync-aws-runtime-outputs.py`) | lab.env | create, upsert, sync from AWS | each other through the file |
| Client upgrades (release lock, snapshots, package, window validator) | release lock, a snapshot per site, change record | validate, render two files, let an upgrade through | operators, the transition authority's document |
| Incident classification, evidence validators, identity checks, provisioning | none | pure checks | see PROJECT.json |

What is hard in it:

- several processes share files without a server between them: an observer, a
  gate, a lease check every minute, systemd, and people. A file that was checked
  may be replaced before it is used;
- any command may fail halfway, any process may be killed, and a power loss
  undoes whatever no fsync has made durable;
- time decides: tokens, leases, evidence and retry windows run out while a
  procedure is under way;
- the handover spans two hosts, is carried out by hand, may be abandoned at any
  line, and everybody can also start, unseal or reboot a host beside it.

What makes each part correct: the evidence directory fails closed; a gate passes
only on a whole, finished, current set of evidence; a lapsed client is stopped and
a fence stays; the state document is durable, versioned and follows the protocol;
and over all, one signer, with the whole signing history.

## 2. Modules

| Module | Models | Level |
|---|---|---|
| `EvidenceStore` | evidence store, collectors and gates on one basename | one system call per step, with power loss |
| `StateFile` | main(), lock and durable replacement of the state document | one system call per step, with power loss |
| `ActiveStandby` | transition(), its guards, history_candidates(), the machine's JSON | one submitted request per step |
| `Handover` | abstract: what the transition authority promises | one evidence, one grant |
| `VcLease` | one host: lease check, fence(), unit, both gates, people, reboots | one command per step |
| `ObserveAbsence` | one observation against a moving chain | one request of the script per step |
| `Failover` | both hosts: RB-01 and RB-02, gates, lease, people, slashing databases | one runbook step per step |
| `Signing` | abstract: what the two hosts promise together | one client, one history |
| `CiRuntime` | what the manifest renderer accepts and renders, as operators | pure |
| `TerraformDeploy` | the three workflows against a moving main | one check, command or person's act per step |
| `SealKeystores` | seal and unseal of one envelope directory | one file or check per step |
| `LabEnv` | the three writers of lab.env, and the node and address they ask AWS about | one file access or request per step |
| `KeyCeremony` | composes LabEnv and SealKeystores: the recovery key's ARN goes from the file into a seal | |
| `PairCommit` | the two-file update of both renderers | one system call per step |
| `ClientUpgrade` | composes two-file rendering (an INSTANCE of PairCommit) and the window validator | one file read per step |
| `*Proofs` | theorems of all of the above; `WorkstationProofs` has those of `KeyCeremony` and `ClientUpgrade` | |
| `MC*` | small instances for TLC | |

`Fault variant` definitions are plausible bugs: putting one in place of the
definition that follows it must break the property PROJECT.json pairs it with.

**EvidenceStore.** A run of a collector or of a gate is a process with a fresh
token, so the process stands for its token and its bytes. `dir` is the directory
the running kernel shows, `disk[n]` the set of values a power loss may leave under
name `n`; `_fsync_root` narrows all of them. `Mkdir`, `CreateOwner`, the unlinks and
`SyncRoot` are `begin`, up to `WriteTemp` and the commits is the collector's session,
`UnlinkOwner` and `Rmdir` the release; `Fail` is the trap of `observe-absence.sh`
(abort, then exit) or of the gate (release), `Kill` and `Crash` the rest. The gate is
acquire, two reads, release. Ownership and mode checks are left out.

**StateFile.** A document is the sequence of the runs whose transitions it has, so
its length is its `state_version`. A run prepares a request without the lock, then
locks, loads and compares the version, writes a temporary file, replaces, syncs the
directory; a failing sync rolls back, and the rollback may fail too, which the code
swallows (`stuck` notes such a run). The flock of a run that is killed is dropped by the
kernel.

**ActiveStandby.** `state` has the fields of the document, `Admit` and `Evidence` are the
guards of `transition()`, `Result` its result, `Histories` the table of
`history_candidates()`. `Store` keeps a result only if `valid_state()` accepts it and
otherwise notes the event in `refused`. The document and all requests name one
incident and one public key. `Handover` is implemented with `holder` mapped to the
side that S0..S4 leaves in charge and `opened` to the history variable `entered`.

**VcLease.** `config` fixes gate.env, dry run and scope. The unit is inactive,
checking, rechecking, cleared or active; a gate pins the expiry it read. Each command
of `fence()` is a step that may fail; the verdict is 10 only after all succeeded. The
initial gate looks at the marker before the token and never again. Expiry is a number
of the clock, `Unparseable` what date(1) rejects; the script's remaining checks of the
token are one field.

**ObserveAbsence.** The chain is counted in epochs: `head` is what the script computes as
slot / 32. Every answer of the node is a step, and epochs, finality, inclusions, the
clock, signals and failing requests come between any two. The chain is external; of it
the model says only that a state of epoch n has finalized n-2 at most, that a vote is
included during its epoch or the next, and that the node may fall back once to an older
state. `silent` and `consec` are the list and the counter of the evidence; when `outcome`
becomes "observed" the variables are its fields. Parsing and the prechecks of the node
are one step that may fail. Evidence of absence is no proof of it, as the script says
itself: a vote for an observed epoch that is included after the question is not seen.

**Failover.** `step`, `target` and `carried` are the procedure in the runbook's order;
`carried` is the export and then the database hash noted after the import. `vc` is
power, unit and gate of each host. A database is the number of the last message it
knows, and its hash is that number. A lease fence is one step whose commands may each
fail; it acts on what a check saw, so it may reach a unit that has stopped or a token
that was renewed since. Masking and enabling are no state, anybody may start the unit at any time.
`vc-gate` pins its inputs at `GateReads` and re-checks at `GateEnds`. Fence evidence is in
force or not (absent and stale are the same to a gate). A backup may be restored on
any host that is not the last signer until its gate ends; a backup restored between
the gate's last hash and exec, or under `vc-start-initial`, which looks at no
database, is what the model excludes and what no gate could notice. The catastrophic
paths, where the source cannot be reached and no fresh export exists, keep the
validator down (RB-03) and have no step here. `Signing` is implemented with `clients` mapped
to the databases of the hosts where a client runs, and `released` to `wasOff`: a start is
its `Take`, the hard fence its `Release`, and gates, tokens, markers and the procedure
are steps it does not see.

**TerraformDeploy.** The three workflows are one algorithm with a directory and a mode:
`deploy` and `prepare` differ in the protection they configure, a teardown plans the
destruction and looks at the state first. A commit is its number and its tree; a resource
is its protection state and the commit its configuration came from, which is what the
policies and the properties tell apart. `Changes` are a plan's resource changes with the
action lists of Terraform's JSON; a replacement has both "delete" and "create". `pc` is the
step a run is at, `"review"` the wait for the protected environment. The commit fixes
manifest and backend, so the hashes that the metadata binds can disagree only with the
attempt, and are not state. An apply may stop anywhere (`Left`). Two defences of others
are left out so that nothing leans on them: Terraform's refusal of a plan older than its
state, and EC2's refusal to terminate a protected instance. Two consequences of the code
that no property contradicts: disabling the staging bucket while it exists makes every
deploy, preparation and teardown fail its policy until it is enabled again; and a
manifest is bound to its directory by the keys it lists, so a complete Standby manifest
committed at the Primary's path is rendered (`TreesAssumption` excludes it).

**KeyCeremony.** In `LabEnv` a file is the value of each of three keys: `NODE_IP` and
`INSTANCE_ID`, which a sync writes together, and `RECOVERY_KEY_ARN`, which stands for all
that only upserts write. `TOPIC_ARN` and `PARAM_PREFIX`, which a sync writes with the same
values every time, are left out. A run reads the file, renders all of it, replaces it, and
nothing locks. An upsert may name any key, `NODE_IP` or `INSTANCE_ID` alone too; its value is
checked for its format only, so for these two it is `"typed"`, whatever the operator
typed. That is why `PairReal` is no promise about two keys side by side, but about what a
sync wrote: beside an address or an instance of a sync stands the other one that belonged
to it, or a typed value, and never a second sync's, whichever runs overlap. `held` notes
which instance ever had which address; a stack that is torn down may get another
address. `missed` notes what others changed since a run's read: runs that overlap do lose
updates, and `ProgressKept` says that only they do. An OSError of the sync that no handler
catches ends it as a refusal does. In `SealKeystores` a seal's number stands for its data
key and all that is encrypted or digested under it; any file it writes may be cut off.
`locked` is the 0400 mode of the MAC: a re-seal by somebody other than root replaces payload
and wraps and fails only there, so the former envelope is lost, which the model keeps and
`EnvelopeSound` allows (its promise ends when the next seal begins to write). One seal is
at work at a time. The script takes no lock, so two operators could seal into one
directory at once; that is left out, and `EnvelopeSound` says nothing about it. The two parts
share the ARN only, an argument of the seal; seals are explored from every file that
editing can leave before the first node is launched, with or without a recovery key
(`Settled`).

**ClientUpgrade.** The window validator reads snapshot, change record, state document and
evidence one after the other while anybody may replace them. Versions are one value, a
digest is what it digests. `PairCommit` stands for two copies of one algorithm, in the
snapshot renderer and in the package renderer, line for line the same; the window
validator also exists twice, byte for byte. The docstring of the package renderer says
that a failed run never leaves a half-updated pair (render-client-upgrade-package.py:5-7);
the code cannot keep that after a kill between the renames, a failing restore or an
overlap, so `PairWhole` names the three. `StandbyFirst` is checked for releases under the
version that is installed (a new configuration, image or checksum), the only ones that
can pass: `ApprovedSkewPasses`, what the change record promises of a change of version, is
violated (finding 4).

## 3. Runs

| Run | Instance | Shows |
|---|---|---|
| `evidence_store` | 2 collectors, 1 gate | fails closed in every crash image; gates pass only on accepted evidence; discarded evidence stays gone; an orphaned lock stays |
| `active_standby` | retry window of 2 ticks, clock to 4, 2 lease keys | guards and history table agree; evidence is append-only; a retry window can always be contained; implements `Handover` |
| `state_file` | 3 runs | the document a PASS left is the beginning of every later one, exclusive for its version and applied to the document its operator saw (unless that was withdrawn); what was rolled back never returns, not even after a power loss |
| `state_file_rollback` | 2 runs | violation: FAIL although the transition stays in the document (finding 1) |
| `vc_lease` | clock 0..1, grace 0 | a proven fence holds until somebody removes SEALED; an unleased client is stopped or renewed |
| `vc_lease_partial` | same | violation: an incomplete fence turns into success at the next check (finding 2) |
| `observe_absence` | 2 epochs, chain of 7, 1 inclusion, 1 tick | the evidence is one gapless silent interval, blames nobody who votes in time, spans the finality it claims; the run ends |
| `observe_absence_exit3` | same | violation: on a perfectly finalizing chain the run ends 3 (finding 3) |
| `failover` | 2 hosts, 1 message | one signer; the signer's database knows everything; implements `Signing`: authority changes hosts through a hard fence only |
| `terraform_deploy` | 2 run ids used again and again, 1 push, 3 trees, workflows of the Primary | only what a reviewer saw, in time, is changed; no configuration goes back; node and bucket go only from the prepared state; a teardown that stopped half-way can be resumed |
| `workstation` | one part per behaviour: 2 editors, 2 nodes, 2 addresses, 1 ARN, 3 seals; or 2 renderers, 2 locks, 2 change records, clock to 2 | edits that do not overlap lose nothing; no sync's address beside a node that never had it; after SEAL=OK both ways open that seal, and UNSEAL=OK gives only what was sealed whole; snapshots are of one lock; Standby passes before AWS, for the same lock, AWS after the soak |
| `client_upgrade_skew` | 2 renderers, 2 locks, a record from the version of the first to that of the second | violation: an approved change of version is refused (finding 4) |

**Bounds and why they are enough.** One gate and two collectors give publication,
reading, discarding by a later run and reading again, with a power loss anywhere.
Three transition runs give a winner, a loser and one that builds on what rollbacks
left. In `active_standby` a request either carries exactly the evidence the transition
asks for, or one item less, or one recorded item again with the same or another
digest: more items at once test the same comparison. The clock passes the longest
retry window, and two lease keys allow the second containment that reuse of a
consumed key would forbid. In `vc_lease` a token is expired, fresh, unreadable or of
another role at both instants of the clock. In `failover` a database is up to date or
behind with one message; the proofs are for every number.
In `observe_absence` two epochs and a chain of seven let the head jump by several epochs
between two polls, fall back below the baseline, and still reach the evidence; one
inclusion suffices because every property speaks of one epoch at a time. A node that
falls back twice, between the two readings of the baseline and again before the last
reading, can leave evidence whose finality did not advance; `FinalityAdvanced` is for at
most one, and `PromptSignerIsSeen` for none.
`HistoryClosed` excepts INCIDENT_SIGNAL after SOURCE_RETAINED or F8_PRIME_COMPLETE: the
machine has that edge from S0, the history table has no continuation, so the document
is at its end there. `FenceHolds` excepts a start whose gate had looked at the marker
for the last time before the fence wrote it, since `systemctl stop` itself may have
failed to reach it; `fenced` is set only if no such start is under way.

In `terraform_deploy` two runs are enough for one to wait, to overtake and to be replaced
in the queue, and one push for a plan to become stale; the second commit either keeps the
bucket, drops it and replaces the node, or has the other stack's key in its manifest. Runs
of teardown are run again, which contain every step of the others; the theorems are for
every mode, every number of runs and both stacks.

`workstation` runs the module `MCWorkstation`, where a behaviour is either one of `KeyCeremony`
or one of `ClientUpgrade`: the two share no variable, so their interleavings would show
nothing. Three seals give a whole envelope, one cut off anywhere over it, and a third that
meets what both left; two editors give every overlap of a read and a replace, while two
nodes and two addresses give every wrong pair. `InOrder` makes nodes and addresses in one
order, since they are alike. The windows of the sites touch at time 1 or overlap, a soak
of two samples ends there, and the skew of the second lock expires at time 2.

**Deadlock** is not checked in `evidence_store`, `state_file`, `active_standby`,
`terraform_deploy` and `workstation`: runs end, a document comes to its end, seals are
used up, and main stands at its bound. `vc_lease`, `failover` and the upgrade never stop, and `observe_absence` has an explicit step for a script that has ended.

**Fairness.** Safety needs none. Failures, kills and power loss get none.
`RunEnds` rests on weak fairness of the script, whose requests have a time limit
(`curl --max-time 10`), and of the clock, and on nothing of the chain. `UnleasedStops` rests on weak fairness of the check, which the timer starts every
minute, and on strong fairness of its reads and of `FenceStop`: a command that is tried
again each minute does not fail for ever and the unit is not always away at the
instant it is looked at.

## 4. Findings

1. `state_file_rollback`: `atomic_write()` swallows an OSError of the restoring write, so
   a run reports FAIL over a document that has its transition, which the contract test
   takes never to happen.
2. `vc_lease_partial`: after a fence that ended 20 the next check sees an inactive unit
   and exits 0, although the unit file says 20 is deliberately left as a failure.
3. `observe_absence_exit3`: the last epoch the observer asks about is head-1 and must be
   final before it writes its evidence, while no node reports more than head-2 as final.
   Evidence is written only if an epoch turns between reading the head and reading
   finality again; otherwise the run ends with exit code 3, however healthy the chain.
4. `client_upgrade_skew`: the release validator accepts an approved skew for the site
   `primary-aws` or `standby-aws` (validate-client-release-lock.py:102), the window validator
   asks for `standby` (validate-client-upgrade-window.py:235). A lock that may be rendered
   never lets a change of version through, so the upgrade that the change record is there
   for ends with SKEW_NOT_APPROVED. `NoUpgradePasses` proves that nothing gets around it.

## 5. Proofs

All theorems hold for every value of the constants under their named assumptions
(run names distinct from `None`, clock bounds natural numbers, two distinct hosts,
positive numbers of epochs and ticks, and the ones named below). Every safety property
that a passing run checks is the statement of a theorem.

**EvidenceStoreProofs.** The inductive invariant ties every control point of the lock
holder to the entries it has changed and to those it has synced: FailClosed by itself
is not inductive, because the crash images depend on which fsync the holder has
behind it. From it: types, `FailClosed`, `PassOnlyAccepted`, `NoResurrection`,
`OrphanLockStays`, `SnapshotStable`.

**StateFileProofs.** The lock makes the steps from Load to Release one run's at a time, so
the document only moves from a run's base to that base with the run appended, and
back; a passing run has synced, which leaves one document on disk. The strengthening
says this per control point, that what a passing run left is a prefix of every image of the
disk, and that what an unfinished run was prepared against is still a prefix of the
document or was withdrawn. For `RolledBackForGood` it also says whose transitions a document
can have at all: those of runs that passed, are at work, died, or are `stuck`. From it:
types, `PassIsDurable`, `OneWinnerPerVersion`, `AppliedToWhatWasSeen`, `RolledBackForGood`, for any
number of runs.

**VcLeaseProofs.** While `fenced` holds, SEALED is there and no start has passed its last
look at the marker. From it: types and `FenceHolds`.

**ObserveAbsenceProofs.** The invariant has the interval per control point, in the middle
of a poll too, and why finality advanced: either the baseline comes from one state of
the chain, so that its head is two epochs past its finality and the interval ends beyond
it, or the one fall-back happened between the two readings, and from then on finality
only grows. From it: types, `NoEpochSkipped`, `PromptSignerIsSeen`, `FinalityAdvanced`.

**FailoverProofs.** A host is capable if it has a valid token, a gate that pinned good
inputs, or a client cleared or running. The invariant: at most one host is capable; from
the look at the unit on (`checked`) the source is not, because its token went first;
a capable host signed last or the last signer was powered off since; the last signer's
database knows everything and so does an export taken from it; a host that is not the
last signer has a marker, or pinned one, that stands for the whole history. Masking,
the SEALED marker, the lease and the freshness of the fence evidence are not needed
for it: they are second lines of defence. From it: types, `AtMostOneSigner`,
`HistoryNeverForks`, `HandoverThroughFence`, and the refinement `ImplementsSigning` as a
theorem `Spec => Pair!Spec`. For it the invariant gives what `Signing` asks of a step: a
host that starts is alone, knows all that was signed, and signed last or was released.
`HandoverThroughFence` is what the refinement says of the starts alone.

**TerraformDeployProofs**, under `TreesAssumption` (a manifest with the keys of a stack is in
that stack's directory). None of the action properties is inductive: what an apply does
rests on checks several steps and one approval earlier. The invariant keeps, for every
run past its approval, what those checks found: the run is the only active one of its
directory, its plan is of that directory's stack and was made from the state as it still
is, because only that group changes it; from the reconfirmation on the attempt is the
first and from the final look at main on nothing newer was applied, since a newer run of
the same group could not have started. From it: types, `ResumeAccepted`,
`OnlyReviewedChanges`, `OnlyPreparedDestroyed`, `NoStaleConfig`, for any number of runs,
commits and trees.

**WorkstationProofs** about `KeyCeremony`, for any number of editors, nodes, ARNs and seals
(`NamesAssumption`: they have names of their own). For lab.env, every copy and every file
pairs node and address or has a typed value in one of the places (`Pairs`); that survives
a render because a job names an instance and the address it had, or one typed value
(`Jobs`); and what a copy lacks of the file is in `missed`. For the envelope, the files a seal has behind it are its own, per step, and while
`sealed` holds the listing agrees with what is there. From it: types, `PairReal`,
`EnvelopeSound`, `ProgressKept`.

About `ClientUpgrade`, for any renderers, locks, change records, evidence and clock
(`LocksAssumption`: a lock is no absent file; `RecordsAssumption`: windows are between
points in time; `BoundsAssumption`). `PairWhole` is about the moments between renderings, so
the invariant has the moments within: while nothing broke at most one rendering is at
work (`OneAtWork`), after its first rename that file is the new one (`FirstNew`), and what it
remembers of it is what was rendered last (`Remembered`), so that putting it back
restores the pair. For the window, every copy of a lock on disk or in hand was accepted
by the release validator and so has no skew the window validator could admit (`Sited`);
what a run has checked holds of the values it read, whatever the files have become since
(`HasRead`); and what has passed stays permitted by the change record (`Permitted`). From
it: types, `SnapshotsWhole`, `StandbyFirst`, and `NoUpgradePasses`, how far finding 4 goes.

**ActiveStandbyProofs**, for every clock, retry window, submission, soak and lease key
(`ClockAssumption`, `DigestsAssumption`: a submission's digests are digests,
`NoneAssumption`: None is no time and no event, `ContainmentAssumption`: a lease key exists and
a loss of freshness can be reported). Two thirds of it take the history table
apart. The document always claims one of the histories, so the last gate with the mode and
the no-go tells which, `Kinds` to `InWindow`; what an admitted request makes of it is then
known, and is again in the table: `HistoryClosed`, event by event. The invariant adds that
the document's window is the one that is open and no longer than `RetryMax`, which with the
table gives the refinement: a completion has the whole checklist and is in time, a window
opens only outside of another, a no-go comes only from inside one. From it: types,
`HistoryClosed`, `EvidenceAppendOnly`, `ImplementsHandover` as a theorem
`Spec => Abstract!Spec`. `RetryContainable` follows from what the table says of a document in
a retry mode, that nothing of a loss is on record, and from one more invariant: a lease key is
consumed together with a no-go only, and a window that is open has a length (`Unspent`). So
an unused key and a lease in force can be named with the request. The property states
the guards and the acceptance by `valid_state()` for that request, not ENABLED.

**Only model-checked:** the liveness properties `RunEnds` and `UnleasedStops`, which rest on
fairness.

## 6. Not modelled, and the plan

Not modelled: permissions and ownership of files, schema checks of JSON, log output,
the test hooks of the scripts, provisioning by Ansible and Terraform, read-only
identity and repository checks. PROJECT.json gives the reason per component. Of the
modelled parts, the rules about a single field (patterns, address classes, literals) are
one Boolean, since no property tells them apart.

Next, in this order:

1. `VcGate`: the order of the checks against inputs that change under it, and what the
   final re-check leaves open.
2. `IncidentPolicy` and the interchange, restart-bundle and round-trip validators: pure
   functions of one document each, as operators checked against a reference definition.
3. An abstract publication of evidence, which `EvidenceStore` and the last steps of
   `ObserveAbsence` implement; and `StateFile` with the documents of `ActiveStandby` in place
   of sequences of runs.
