--------------------------- MODULE ClientUpgrade ---------------------------
(***************************************************************************)
(* How a client release reaches the two sites: the reviewed lock is        *)
(* rendered into a snapshot per site (PairCommit), and an upgrade is let   *)
(* through at a site by shared/scripts/validate-client-upgrade-window.py,  *)
(* which reads that site's snapshot, the change record, the document of    *)
(* the transition authority and, for the AWS site, the evidence of the     *)
(* Standby's soak - one file after the other, while the world moves.       *)
(*                                                                         *)
(* A digest stands for what it is the digest of.  The versions of the two  *)
(* clients are one value.  The files other people write hold anything.     *)
(***************************************************************************)
EXTENDS Integers, Sequences

CONSTANTS
  Renderers,     \* processes that render the snapshots
  Locks,         \* client release locks under review, in the order of their commits
  Records,       \* change records; one is at hand
  Evidences,     \* what the Standby's soak may have recorded
  MaxTime,       \* bound: the clock
  SoakSamples, SoakSpacing,   \* SOAK_SAMPLE_COUNT, SOAK_SAMPLE_SPACING_SECONDS
  NoValue

ASSUME LocksAssumption ==
    /\ Locks # << >> /\ Locks \in Seq({Locks[i] : i \in DOMAIN Locks})
    /\ \A i \in DOMAIN Locks : Locks[i] # NoValue
\* Windows are between points in time.
ASSUME RecordsAssumption ==
    \A r \in Records : \A w \in {r.standby, r.aws} : w.from \in Int /\ w.to \in Int
ASSUME BoundsAssumption == MaxTime \in Nat /\ SoakSamples \in Nat \ {0} /\ SoakSpacing \in Nat

VARIABLES
  now, lock,     \* the clock; the number of the lock that is committed
  record,        \* the change record
  authority,     \* the transition authority's document: state, mode, reason of a no-go
  evidence,      \* the evidence file, or NoValue
  step,          \* of the window validator: "idle" or the file it reads next.  One runs
                 \* at a time: it writes nothing, so two could not disturb each other
  site, told, read,           \* its site, its --now and the lock it read
  passed,        \* by site: when and for which lock it last passed (history)
  file, pc, want, prior, last, alone, broken     \* the snapshots: 1 of the Primary, 2 of the Standby

world == <<now, lock, record, authority, evidence>>
check == <<step, site, told, read, passed>>

\* What a snapshot may hold.
Contents == {Locks[i] : i \in DOMAIN Locks}
Snapshots == INSTANCE PairCommit WITH Procs <- Renderers, None <- NoValue
pairs == <<file, pc, want, prior, last, alone, broken>>
upgradeVars == <<world, check, pairs>>

Sites == {"standby", "aws"}
FileOf(s) == IF s = "aws" THEN 1 ELSE 2

---------------------------------------------------------------------------
(* validate-client-release-lock.py, which the renderer calls. *)

(* _validate_skew() *)
ValidSkew(skew, t) ==
    IF skew.enabled
    THEN skew.site \in {"primary-aws", "standby-aws"} /\ skew.change # NoValue /\ skew.expires > t
    ELSE skew.site = NoValue /\ skew.change = NoValue

(* validate_lock() *)
ValidLock(l, t) == l.formats /\ ValidSkew(l.skew, t)

---------------------------------------------------------------------------
(* validate-client-upgrade-window.py *)

SoakTime == SoakSpacing * (SoakSamples - 1)
Within(t, w) == w.from <= t /\ t <= w.to

(* validate_record() *)
ValidRecord(r) ==
    /\ r.formats
    /\ r.approvals[1] # r.approvals[2]
    /\ \A w \in {r.standby, r.aws, r.soak} : w.from < w.to
    /\ r.standby.to <= r.aws.from
    /\ r.standby.from <= r.soak.from /\ r.soak.to <= r.standby.to
    /\ r.soak.to - r.soak.from = SoakTime

(* validate_state() *)
QuietState(a) == a.no_go = NoValue /\ a.state = "S0" /\ a.mode = "NORMAL"

(* validate_skew() *)
SkewApproved(l, r, t) ==
    /\ r.after = l.version
    /\ r.before # r.after =>
         /\ l.skew.enabled /\ l.skew.change = r.id /\ l.skew.site = "standby"
         /\ l.skew.expires > t

(* validate_evidence() *)
GoodEvidence(e, r, t) ==
    /\ e = r.evidence
    /\ e.site = "standby" /\ e.record = r.id /\ e.lock = r.lock
    /\ e.sealed /\ e.key_absent /\ e.healthy
    /\ [from |-> e.from, to |-> e.to] = r.soak
    /\ Len(e.samples) = SoakSamples
    /\ e.samples[1] = e.from /\ e.samples[SoakSamples] = e.to
    /\ \A i \in 1..(SoakSamples - 1) : e.samples[i + 1] - e.samples[i] = SoakSpacing
    /\ e.to <= t

(* Fault variant: the closed windows of the two sites may share their end. *)
InWindow(r, s, t) == Within(t, r[s])
(* main(): the window of the site, and not that of AWS as well *)
WindowOpen(r, s, t) ==
    Within(t, r[s]) /\ (s = "standby" => ~Within(t, r.aws))

Forget == site' = "standby" /\ told' = 0 /\ read' = NoValue
Halt == step' = "idle" /\ Forget /\ UNCHANGED passed
Continue(next) == step' = next /\ UNCHANGED <<site, told, read, passed>>
(* Fault variant: a pass is dated by the soak it opens. *)
PassForSoak ==
    /\ step' = "idle"
    /\ passed' = [passed EXCEPT ![site] = [at |-> told + SoakTime, lock |-> read]]
    /\ Forget
Pass ==
    /\ step' = "idle" /\ passed' = [passed EXCEPT ![site] = [at |-> told, lock |-> read]]
    /\ Forget

(* Each step reads a file; the checks are made in the order of main(). *)
LoadLock(s) ==
    /\ step = "idle" /\ file[FileOf(s)] # NoValue
    /\ site' = s /\ told' = now
    /\ read' = file[FileOf(s)]
    /\ step' = "record"
    /\ UNCHANGED <<world, passed, pairs>>
LoadRecord ==
    /\ step = "record"
    /\ IF ValidRecord(record) THEN Continue("state") ELSE Halt
    /\ UNCHANGED <<world, pairs>>
LoadState ==
    /\ step = "state"
    /\ IF /\ QuietState(authority)
          /\ record.lock = read /\ SkewApproved(read, record, told)
          /\ WindowOpen(record, site, told)
       THEN IF site = "standby" THEN Pass ELSE Continue("evidence")
       ELSE Halt
    /\ UNCHANGED <<world, pairs>>
LoadEvidence ==
    /\ step = "evidence"
    /\ IF evidence # NoValue /\ GoodEvidence(evidence, record, told) THEN Pass ELSE Halt
    /\ UNCHANGED <<world, pairs>>
Abort == step # "idle" /\ Halt /\ UNCHANGED <<world, pairs>>

Validate == (\E s \in Sites : LoadLock(s)) \/ LoadRecord \/ LoadState \/ LoadEvidence \/ Abort

---------------------------------------------------------------------------
(* render-client-release-snapshots.py: both files get the valid lock. *)
RenderLock(p) ==
    \/ /\ ValidLock(Locks[lock], now)
       /\ Snapshots!Begin(p, [f \in Snapshots!Files |-> Locks[lock]])
       /\ UNCHANGED <<world, check>>
    \/ Snapshots!Continue(p) /\ UNCHANGED <<world, check>>

(* The people around it. *)
Tick == now < MaxTime /\ now' = now + 1 /\ UNCHANGED <<lock, record, authority, evidence, check, pairs>>
CommitLock ==
    /\ lock < Len(Locks) /\ lock' = lock + 1
    /\ UNCHANGED <<now, record, authority, evidence, check, pairs>>
Transition(a) == authority' = a /\ UNCHANGED <<now, lock, record, evidence, check, pairs>>
Collect(e) == evidence' = e /\ UNCHANGED <<now, lock, record, authority, check, pairs>>

Documents == {[state |-> s, mode |-> "NORMAL", no_go |-> NoValue] : s \in {"S0", "S1"}}

UpgradeInit ==
    /\ now = 0 /\ lock = 1 /\ record \in Records /\ evidence = NoValue
    /\ authority = [state |-> "S0", mode |-> "NORMAL", no_go |-> NoValue]
    /\ step = "idle" /\ site = "standby" /\ told = 0 /\ read = NoValue
    /\ passed = [s \in Sites |-> NoValue]
    /\ Snapshots!PairInit([f \in Snapshots!Files |-> NoValue])
UpgradeNext ==
    \/ Validate
    \/ \E p \in Renderers : RenderLock(p)
    \/ Tick \/ CommitLock
    \/ \E a \in Documents \ {authority} : Transition(a)
    \/ \E e \in Evidences : evidence # e /\ Collect(e)
UpgradeSpec == UpgradeInit /\ [][UpgradeNext]_upgradeVars

---------------------------------------------------------------------------
UpgradeTypeOK ==
    /\ now \in 0..MaxTime /\ lock \in DOMAIN Locks /\ record \in Records
    /\ authority \in Documents /\ evidence \in Evidences \cup {NoValue}
    /\ step \in {"idle", "record", "state", "evidence"} /\ site \in Sites
    /\ told \in 0..MaxTime /\ read \in Contents \cup {NoValue}
    /\ passed \in [Sites -> {NoValue} \cup
                     [at : 0..MaxTime, lock : Contents]]
    /\ Snapshots!PairTypeOK

SnapshotsWhole == Snapshots!PairWhole

(* For one change record the Standby comes first: every time it passes is  *)
(* before every time AWS passes, also where the windows touch; both pass   *)
(* for the very same lock, however their snapshots were rendered; and AWS  *)
(* passes only when the soak is over.                                      *)
StandbyFirst ==
    LET s == passed["standby"] a == passed["aws"] IN
    /\ s # NoValue /\ a # NoValue => s.at < a.at /\ s.lock = a.lock
    /\ a # NoValue => a.at >= record.soak.to

(* The change record is the authority of a standby-first upgrade: in its   *)
(* window at the Standby, with the transition authority quiet, a change to *)
(* the version of its lock is let through if that lock, as it was rendered *)
(* to disk, approves the skew for this record and the Standby, in time.    *)
ApprovedSkewPasses ==
    (/\ step = "state" /\ site = "standby" /\ QuietState(authority)
     /\ WindowOpen(record, site, told)
     /\ record.lock = read /\ record.after = read.version
     /\ read.skew.enabled /\ read.skew.site = "standby-aws"
     /\ read.skew.change = record.id /\ read.skew.expires > told)
    => SkewApproved(read, record, told)
=============================================================================
