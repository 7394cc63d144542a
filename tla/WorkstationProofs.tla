-------------------------- MODULE WorkstationProofs --------------------------
(***************************************************************************)
(* Theorems about the programs that run at the operator's workstation:     *)
(* KeyCeremony, for any number of runs, instances, ARNs and seals, and     *)
(* ClientUpgrade, for any renderers, locks, change records and evidence.   *)
(*                                                                         *)
(* While nothing broke, at most one rendering is at work, and what it      *)
(* remembers of the first file is what was rendered last.  The validator   *)
(* of an upgrade window reads one file after another; of each it keeps     *)
(* what it checked, and a lock that was read is one the release validator  *)
(* accepted.                                                               *)
(*                                                                         *)
(* A run that has read lab.env misses what is written before it replaces   *)
(* the file; its copy is the file of then, so node and address are paired  *)
(* in it too.  A seal overwrites the directory file by file, and the MAC   *)
(* over all of them comes last: what is authentic is one seal's.           *)
(***************************************************************************)
EXTENDS KeyCeremony, ClientUpgrade, TLAPS

---------------------------------------------------------------------------
(* Two-file commits, for any number of renderers. *)

\* Nobody else is at work beside a rendering that began alone and was not joined.
LeftAlone == \A p, q \in Renderers : alone[p] /\ q # p => pc[q] = "idle"

\* While nothing broke, renderings do not overlap.
OneAtWork ==
    ~broken => \A p, q \in Renderers : p # q => pc[p] = "idle" \/ pc[q] = "idle"

\* Between the renames the first file is what is being rendered,
FirstNew ==
    \A p \in Renderers : pc[p] = "second" /\ (alone[p] \/ ~broken) => file[1] = want[p][1]

\* the second is still what was rendered last, and what the first was is remembered.
Remembered ==
    ~broken => \A p \in Renderers :
                 /\ pc[p] = "first" => prior[p] = file[1]
                 /\ pc[p] \in Snapshots!Midway => prior[p] = last[1] /\ file[2] = last[2]

PairInv ==
    Snapshots!PairTypeOK /\ LeftAlone /\ OneAtWork /\ FirstNew /\ Remembered /\ SnapshotsWhole

USE DEF Snapshots!Files, Snapshots!Steps, Snapshots!Midway, Snapshots!Goto, Snapshots!End,
        Snapshots!Nothing

\* Two pairs of files are equal if both files are.
LEMMA PairsEqual ==
  ASSUME NEW S, NEW x \in [Snapshots!Files -> S], NEW y \in [Snapshots!Files -> S],
         x[1] = y[1], x[2] = y[2]
  PROVE  x = y
  OBVIOUS

LEMMA BeginPair ==
  ASSUME PairInv, NEW p \in Renderers, NEW pair \in Snapshots!Pairs, Snapshots!Begin(p, pair)
  PROVE  PairInv'
<1> USE DEF PairInv, Snapshots!Begin, Snapshots!NobodyElse
<1>1. Snapshots!PairTypeOK'
  BY DEF Snapshots!PairTypeOK, Snapshots!Pairs
<1>2. LeftAlone' /\ OneAtWork'
  BY DEF Snapshots!PairTypeOK, LeftAlone, OneAtWork
<1>3. FirstNew' /\ Remembered'
  BY DEF Snapshots!PairTypeOK, FirstNew, Remembered
<1>4. SnapshotsWhole'
  BY DEF Snapshots!PairTypeOK, SnapshotsWhole, Snapshots!PairWhole
<1> QED BY <1>1, <1>2, <1>3, <1>4

LEMMA PreparePair ==
  ASSUME PairInv, NEW p \in Renderers, Snapshots!Prepare(p)
  PROVE  PairInv'
<1> USE DEF PairInv, Snapshots!Prepare
<1>1. Snapshots!PairTypeOK'
  BY DEF Snapshots!PairTypeOK
<1>2. LeftAlone' /\ OneAtWork'
  BY DEF Snapshots!PairTypeOK, LeftAlone, OneAtWork
<1>3. FirstNew' /\ Remembered'
  BY DEF Snapshots!PairTypeOK, FirstNew, Remembered
<1>4. SnapshotsWhole'
  BY DEF Snapshots!PairTypeOK, SnapshotsWhole, Snapshots!PairWhole
<1> QED BY <1>1, <1>2, <1>3, <1>4

\* The first rename: whoever else is between its renames was joined.
LEMMA ReplaceFirstPair ==
  ASSUME PairInv, NEW p \in Renderers, Snapshots!ReplaceFirst(p)
  PROVE  PairInv'
<1> USE DEF PairInv, Snapshots!ReplaceFirst
<1>1. Snapshots!PairTypeOK'
  BY DEF Snapshots!PairTypeOK
<1>2. LeftAlone' /\ OneAtWork'
  BY DEF Snapshots!PairTypeOK, LeftAlone, OneAtWork
<1>3. FirstNew'
  BY DEF Snapshots!PairTypeOK, FirstNew, LeftAlone, OneAtWork
<1>4. Remembered'
  <2>1. ~broken => file = last
    BY DEF Snapshots!PairTypeOK, SnapshotsWhole, Snapshots!PairWhole, OneAtWork
  <2> QED BY <2>1 DEF Snapshots!PairTypeOK, Remembered, OneAtWork
<1>5. SnapshotsWhole'
  BY DEF Snapshots!PairTypeOK, SnapshotsWhole, Snapshots!PairWhole
<1> QED BY <1>1, <1>2, <1>3, <1>4, <1>5

\* The second rename makes the pair whole, whatever broke before, if nobody joined.
LEMMA ReplaceSecondPair ==
  ASSUME PairInv, NEW p \in Renderers, Snapshots!ReplaceSecond(p)
  PROVE  PairInv'
<1> USE DEF PairInv, Snapshots!ReplaceSecond
<1>1. Snapshots!PairTypeOK'
  BY DEF Snapshots!PairTypeOK
<1>2. LeftAlone' /\ OneAtWork'
  BY DEF Snapshots!PairTypeOK, LeftAlone, OneAtWork
<1>3. ~broken' => \A q \in Renderers : pc'[q] = "idle"
  BY DEF Snapshots!PairTypeOK, LeftAlone, OneAtWork
<1>4. FirstNew'
  BY DEF Snapshots!PairTypeOK, FirstNew, LeftAlone, OneAtWork
<1>5. Remembered'
  BY <1>3 DEF Remembered
<1>6. ~broken' => file' = last'
  <2>1. ~broken' => file[1] = want[p][1]
    BY DEF FirstNew
  <2>2. file' \in [Snapshots!Files -> Contents \cup {NoValue}]
        /\ last' \in [Snapshots!Files -> Contents \cup {NoValue}]
    BY <1>1 DEF Snapshots!PairTypeOK
  <2>3. file'[1] = file[1] /\ file'[2] = want[p][2] /\ last' = want[p]
    BY DEF Snapshots!PairTypeOK
  <2> QED BY <2>1, <2>2, <2>3, PairsEqual
<1>7. SnapshotsWhole'
  BY <1>6 DEF SnapshotsWhole, Snapshots!PairWhole
<1> QED BY <1>1, <1>2, <1>4, <1>5, <1>7

LEMMA RefusePair ==
  ASSUME PairInv, NEW p \in Renderers, Snapshots!Refuse(p)
  PROVE  PairInv'
<1> USE DEF PairInv, Snapshots!Refuse
<1>1. Snapshots!PairTypeOK'
  BY DEF Snapshots!PairTypeOK
<1>2. LeftAlone' /\ OneAtWork'
  BY DEF Snapshots!PairTypeOK, LeftAlone, OneAtWork
<1>3. FirstNew' /\ Remembered'
  BY DEF Snapshots!PairTypeOK, FirstNew, Remembered
<1>4. SnapshotsWhole'
  BY DEF Snapshots!PairTypeOK, SnapshotsWhole, Snapshots!PairWhole
<1> QED BY <1>1, <1>2, <1>3, <1>4

LEMMA SecondFailsPair ==
  ASSUME PairInv, NEW p \in Renderers, Snapshots!SecondFails(p)
  PROVE  PairInv'
<1> USE DEF PairInv, Snapshots!SecondFails
<1>1. Snapshots!PairTypeOK'
  BY DEF Snapshots!PairTypeOK
<1>2. LeftAlone' /\ OneAtWork'
  BY DEF Snapshots!PairTypeOK, LeftAlone, OneAtWork
<1>3. FirstNew' /\ Remembered'
  BY DEF Snapshots!PairTypeOK, FirstNew, Remembered
<1>4. SnapshotsWhole'
  BY DEF Snapshots!PairTypeOK, SnapshotsWhole, Snapshots!PairWhole
<1> QED BY <1>1, <1>2, <1>3, <1>4

\* The first file is put back: the pair is the one rendered last again.
LEMMA RestorePair ==
  ASSUME PairInv, NEW p \in Renderers, Snapshots!Restore(p)
  PROVE  PairInv'
<1> USE DEF PairInv, Snapshots!Restore
<1>1. Snapshots!PairTypeOK'
  BY DEF Snapshots!PairTypeOK
<1>2. LeftAlone' /\ OneAtWork'
  BY DEF Snapshots!PairTypeOK, LeftAlone, OneAtWork
<1>3. ~broken' => \A q \in Renderers : pc'[q] = "idle"
  BY DEF Snapshots!PairTypeOK, OneAtWork
<1>4. FirstNew'
  BY DEF Snapshots!PairTypeOK, FirstNew, LeftAlone, OneAtWork
<1>5. Remembered'
  BY <1>3 DEF Remembered
<1>6. ~broken' => file' = last'
  <2>1. file' \in [Snapshots!Files -> Contents \cup {NoValue}]
        /\ last' \in [Snapshots!Files -> Contents \cup {NoValue}]
    BY <1>1 DEF Snapshots!PairTypeOK
  <2>2. ~broken => prior[p] = last[1] /\ file[2] = last[2]
    BY DEF Remembered
  <2>3. file'[1] = prior[p] /\ file'[2] = file[2] /\ last' = last
    BY DEF Snapshots!PairTypeOK
  <2> QED BY <2>1, <2>2, <2>3, PairsEqual
<1>7. SnapshotsWhole'
  BY <1>6 DEF SnapshotsWhole, Snapshots!PairWhole
<1> QED BY <1>1, <1>2, <1>4, <1>5, <1>7

LEMMA RestoreFailsPair ==
  ASSUME PairInv, NEW p \in Renderers, Snapshots!RestoreFails(p)
  PROVE  PairInv'
<1> USE DEF PairInv, Snapshots!RestoreFails
<1>1. Snapshots!PairTypeOK'
  BY DEF Snapshots!PairTypeOK
<1>2. LeftAlone' /\ OneAtWork' /\ Remembered'
  BY DEF Snapshots!PairTypeOK, LeftAlone, OneAtWork, Remembered
<1>3. FirstNew'
  BY DEF Snapshots!PairTypeOK, FirstNew
<1>4. SnapshotsWhole'
  BY DEF SnapshotsWhole, Snapshots!PairWhole
<1> QED BY <1>1, <1>2, <1>3, <1>4

LEMMA KillPair ==
  ASSUME PairInv, NEW p \in Renderers, Snapshots!Kill(p)
  PROVE  PairInv'
<1> USE DEF PairInv, Snapshots!Kill
<1>1. Snapshots!PairTypeOK'
  BY DEF Snapshots!PairTypeOK
<1>2. LeftAlone' /\ OneAtWork'
  BY DEF Snapshots!PairTypeOK, LeftAlone, OneAtWork
<1>3. FirstNew' /\ Remembered'
  BY DEF Snapshots!PairTypeOK, FirstNew, Remembered
<1>4. SnapshotsWhole'
  BY DEF Snapshots!PairTypeOK, SnapshotsWhole, Snapshots!PairWhole
<1> QED BY <1>1, <1>2, <1>3, <1>4

LEMMA ContinuePair ==
  ASSUME PairInv, NEW p \in Renderers, Snapshots!Continue(p)
  PROVE  PairInv'
BY PreparePair, ReplaceFirstPair, ReplaceSecondPair, RefusePair, SecondFailsPair, RestorePair,
   RestoreFailsPair, KillPair DEF Snapshots!Continue

\* What touches no file and no renderer changes nothing of it.
LEMMA SamePair == ASSUME PairInv, UNCHANGED pairs PROVE PairInv'
BY DEF PairInv, pairs, Snapshots!PairTypeOK, LeftAlone, OneAtWork, FirstNew, Remembered,
       SnapshotsWhole, Snapshots!PairWhole

LEMMA InitPair ==
  ASSUME Snapshots!PairInit([f \in Snapshots!Files |-> NoValue]) PROVE PairInv
BY DEF Snapshots!PairInit, PairInv, Snapshots!PairTypeOK, LeftAlone, OneAtWork, FirstNew,
       Remembered, SnapshotsWhole, Snapshots!PairWhole

---------------------------------------------------------------------------
(* The window validator, which reads its files one after the other. *)

\* The only skew a lock on disk can have names a site as the release validator does.
Sited(c) == c # NoValue /\ c.skew.enabled => c.skew.site # "standby"
SitedPairs ==
    /\ \A f \in Snapshots!Files : Sited(file[f])
    /\ \A p \in Renderers : Sited(prior[p]) /\ \A f \in Snapshots!Files : Sited(want[p][f])

\* What a run of the validator has seen to before it reads its next file.
HasRead ==
    /\ step # "idle" => read \in Contents /\ Sited(read)
    /\ step \in {"state", "evidence"} => ValidRecord(record)
    /\ step = "evidence" =>
         /\ site = "aws" /\ record.lock = read
         /\ record.before = record.after /\ WindowOpen(record, site, told)

\* What a pass says of the one change record.
Permitted ==
    \A s \in Sites : passed[s] # NoValue =>
      /\ ValidRecord(record)
      /\ record.lock = passed[s].lock /\ record.before = record.after
      /\ WindowOpen(record, s, passed[s].at)
      /\ s = "aws" => record.soak.to <= passed[s].at

WindowTypeOK ==
    /\ now \in 0..MaxTime /\ lock \in DOMAIN Locks /\ record \in Records
    /\ authority \in Documents /\ evidence \in Evidences \cup {NoValue}
    /\ step \in {"idle", "record", "state", "evidence"} /\ site \in Sites
    /\ told \in 0..MaxTime /\ read \in Contents \cup {NoValue}
    /\ passed \in [Sites -> {NoValue} \cup [at : 0..MaxTime, lock : Contents]]

WindowInv == WindowTypeOK /\ PairInv /\ SitedPairs /\ HasRead /\ Permitted

LEMMA ValidLockSited ==
  ASSUME NEW l, NEW t, ValidLock(l, t) PROVE Sited(l)
BY DEF ValidLock, ValidSkew, Sited

\* A skew that is approved for this validator's site is one no lock on disk has.
LEMMA NoSkewApproved ==
  ASSUME NEW l \in Contents, Sited(l), NEW r, NEW t, SkewApproved(l, r, t)
  PROVE  r.before = r.after
BY LocksAssumption DEF Contents, Sited, SkewApproved

LEMMA NoValueSited == Sited(NoValue)
BY DEF Sited

\* A run that ends without a verdict.
LEMMA HaltInv ==
  ASSUME WindowInv, Halt, UNCHANGED world, UNCHANGED pairs PROVE WindowInv'
<1> USE DEF Halt, Forget, world
<1>1. 0 \in 0..MaxTime
  BY BoundsAssumption
<1>2. WindowTypeOK'
  BY <1>1 DEF WindowInv, WindowTypeOK, Sites
<1>3. PairInv'
  BY SamePair DEF WindowInv
<1>4. SitedPairs'
  BY DEF WindowInv, SitedPairs, pairs, Sited
<1>5. HasRead' /\ Permitted'
  BY DEF WindowInv, HasRead, Permitted, ValidRecord, WindowOpen
<1> QED BY <1>2, <1>3, <1>4, <1>5 DEF WindowInv

\* A run that reads on.
LEMMA ContinueInv ==
  ASSUME WindowInv, NEW next \in {"state", "evidence"}, Continue(next),
         UNCHANGED world, UNCHANGED pairs, step # "idle", ValidRecord(record),
         next = "evidence" =>
           /\ site = "aws" /\ record.lock = read
           /\ record.before = record.after /\ WindowOpen(record, site, told)
  PROVE  WindowInv'
<1> USE DEF Continue, world
<1>1. WindowTypeOK'
  BY DEF WindowInv, WindowTypeOK
<1>2. PairInv'
  BY SamePair DEF WindowInv
<1>3. SitedPairs'
  BY DEF WindowInv, SitedPairs, pairs, Sited
<1>4. HasRead'
  BY DEF WindowInv, HasRead, Sited, ValidRecord, WindowOpen, Within
<1>5. Permitted'
  BY DEF WindowInv, Permitted, ValidRecord, WindowOpen, Within
<1> QED BY <1>1, <1>2, <1>3, <1>4, <1>5 DEF WindowInv

\* A run that passes.
LEMMA PassInv ==
  ASSUME WindowInv, Pass, UNCHANGED world, UNCHANGED pairs, step # "idle",
         ValidRecord(record), record.lock = read, record.before = record.after,
         WindowOpen(record, site, told), site = "aws" => record.soak.to <= told
  PROVE  WindowInv'
<1> USE DEF Pass, Forget, world
<1>1. 0 \in 0..MaxTime
  BY BoundsAssumption
<1>2. read \in Contents /\ site \in Sites /\ told \in 0..MaxTime
  BY DEF WindowInv, WindowTypeOK, HasRead
<1>3. passed' \in [Sites -> {NoValue} \cup [at : 0..MaxTime, lock : Contents]]
  BY <1>2 DEF WindowInv, WindowTypeOK
<1>4. WindowTypeOK'
  BY <1>1, <1>3 DEF WindowInv, WindowTypeOK, Sites
<1>5. PairInv'
  BY SamePair DEF WindowInv
<1>6. SitedPairs' /\ HasRead'
  BY DEF WindowInv, SitedPairs, pairs, Sited, HasRead
<1>7. Permitted'
  <2> SUFFICES ASSUME NEW s \in Sites, passed'[s] # NoValue
               PROVE  /\ ValidRecord(record)
                      /\ record.lock = passed'[s].lock /\ record.before = record.after
                      /\ WindowOpen(record, s, passed'[s].at)
                      /\ s = "aws" => record.soak.to <= passed'[s].at
    BY DEF Permitted, ValidRecord, WindowOpen, Within
  <2>1. CASE s = site
    BY <2>1, <1>2 DEF WindowInv, WindowTypeOK
  <2>2. CASE s # site
    <3>1. passed'[s] = passed[s]
      BY <2>2 DEF WindowInv, WindowTypeOK
    <3> QED BY <3>1 DEF WindowInv, Permitted
  <2> QED BY <2>1, <2>2
<1> QED BY <1>4, <1>5, <1>6, <1>7 DEF WindowInv

LEMMA LoadLockInv ==
  ASSUME WindowInv, NEW s \in Sites, LoadLock(s) PROVE WindowInv'
<1> USE DEF LoadLock, world
<1>1. FileOf(s) \in Snapshots!Files
  BY DEF FileOf
<1>2. file[FileOf(s)] \in Contents /\ Sited(file[FileOf(s)])
  BY <1>1 DEF WindowInv, PairInv, Snapshots!PairTypeOK, SitedPairs
<1>3. WindowTypeOK'
  BY <1>2 DEF WindowInv, WindowTypeOK
<1>4. PairInv'
  BY SamePair DEF WindowInv
<1>5. SitedPairs'
  BY DEF WindowInv, SitedPairs, pairs, Sited
<1>6. HasRead' /\ Permitted'
  BY <1>2 DEF WindowInv, HasRead, Permitted, Sited, ValidRecord, WindowOpen, Within
<1> QED BY <1>3, <1>4, <1>5, <1>6 DEF WindowInv

LEMMA LoadRecordInv == ASSUME WindowInv, LoadRecord PROVE WindowInv'
<1>1. CASE ValidRecord(record)
  BY <1>1, ContinueInv DEF LoadRecord
<1>2. CASE ~ValidRecord(record)
  BY <1>2, HaltInv DEF LoadRecord
<1> QED BY <1>1, <1>2

LEMMA LoadStateInv == ASSUME WindowInv, LoadState PROVE WindowInv'
<1> DEFINE good == /\ QuietState(authority)
                   /\ record.lock = read /\ SkewApproved(read, record, told)
                   /\ WindowOpen(record, site, told)
<1>1. ValidRecord(record) /\ read \in Contents /\ Sited(read) /\ step # "idle"
  BY DEF LoadState, WindowInv, HasRead
<1>2. UNCHANGED world /\ UNCHANGED pairs
  BY DEF LoadState
<1>3. CASE good
  <2>1. record.before = record.after
    BY <1>1, <1>3, NoSkewApproved
  <2>2. CASE site = "standby"
    BY <1>1, <1>2, <1>3, <2>1, <2>2, PassInv DEF LoadState
  <2>3. CASE site # "standby"
    <3>1. site = "aws"
      BY <2>3 DEF WindowInv, WindowTypeOK, Sites
    <3> QED BY <1>1, <1>2, <1>3, <2>1, <2>3, <3>1, ContinueInv DEF LoadState
  <2> QED BY <2>2, <2>3
<1>4. CASE ~good
  BY <1>2, <1>4, HaltInv DEF LoadState
<1> QED BY <1>3, <1>4

LEMMA LoadEvidenceInv == ASSUME WindowInv, LoadEvidence PROVE WindowInv'
<1> DEFINE good == evidence # NoValue /\ GoodEvidence(evidence, record, told)
<1>1. UNCHANGED world /\ UNCHANGED pairs
  BY DEF LoadEvidence
<1>2. CASE good
  <2>1. record.soak.to <= told
    BY <1>2 DEF GoodEvidence
  <2> QED BY <1>1, <1>2, <2>1, PassInv DEF LoadEvidence, WindowInv, HasRead
<1>3. CASE ~good
  BY <1>1, <1>3, HaltInv DEF LoadEvidence
<1> QED BY <1>2, <1>3

LEMMA ValidateInv == ASSUME WindowInv, Validate PROVE WindowInv'
<1>1. CASE Abort
  BY <1>1, HaltInv DEF Abort
<1> QED BY <1>1, LoadLockInv, LoadRecordInv, LoadStateInv, LoadEvidenceInv DEF Validate

\* Rendering leaves the validator alone and writes only what the release validator took.
LEMMA RenderLockInv ==
  ASSUME WindowInv, NEW p \in Renderers, RenderLock(p) PROVE WindowInv'
<1> USE DEF WindowInv
<1>1. UNCHANGED world /\ UNCHANGED check
  BY DEF RenderLock
<1>2. WindowTypeOK' /\ HasRead' /\ Permitted'
  BY <1>1 DEF world, check, WindowTypeOK, HasRead, Permitted, Sited, ValidRecord, WindowOpen,
              Within
<1>3. CASE /\ ValidLock(Locks[lock], now)
           /\ Snapshots!Begin(p, [f \in Snapshots!Files |-> Locks[lock]])
  <2>1. [f \in Snapshots!Files |-> Locks[lock]] \in Snapshots!Pairs
    BY DEF Snapshots!Pairs, Contents, WindowTypeOK
  <2>2. PairInv'
    BY <1>3, <2>1, BeginPair
  <2>3. Sited(Locks[lock])
    BY <1>3, ValidLockSited
  <2>4. SitedPairs'
    BY <1>3, <2>3 DEF Snapshots!Begin, SitedPairs, PairInv, Snapshots!PairTypeOK, Sited
  <2> QED BY <1>2, <2>2, <2>4
<1>4. CASE Snapshots!Continue(p)
  <2>1. PairInv'
    BY <1>4, ContinuePair
  <2>2. Snapshots!PairTypeOK /\ SitedPairs
    BY DEF PairInv
  <2>3. SitedPairs'
    <3> USE <2>2, NoValueSited DEF SitedPairs, Snapshots!PairTypeOK
    <3>1. CASE Snapshots!Prepare(p)
      BY <3>1 DEF Snapshots!Prepare
    <3>2. CASE Snapshots!ReplaceFirst(p)
      BY <3>2 DEF Snapshots!ReplaceFirst
    <3>3. CASE Snapshots!ReplaceSecond(p)
      BY <3>3 DEF Snapshots!ReplaceSecond
    <3>4. CASE Snapshots!Refuse(p)
      BY <3>4 DEF Snapshots!Refuse
    <3>5. CASE Snapshots!SecondFails(p)
      BY <3>5 DEF Snapshots!SecondFails
    <3>6. CASE Snapshots!Restore(p)
      BY <3>6 DEF Snapshots!Restore
    <3>7. CASE Snapshots!RestoreFails(p)
      BY <3>7 DEF Snapshots!RestoreFails
    <3>8. CASE Snapshots!Kill(p)
      BY <3>8 DEF Snapshots!Kill
    <3> QED BY <1>4, <3>1, <3>2, <3>3, <3>4, <3>5, <3>6, <3>7, <3>8 DEF Snapshots!Continue
  <2> QED BY <1>2, <2>1, <2>3
<1> QED BY <1>3, <1>4 DEF RenderLock

\* The people around it touch neither the record nor what the validator remembers.
LEMMA AroundInv ==
  ASSUME WindowInv, UNCHANGED check, UNCHANGED pairs, UNCHANGED record, WindowTypeOK'
  PROVE  WindowInv'
<1>1. PairInv'
  BY SamePair DEF WindowInv
<1>2. SitedPairs'
  BY DEF WindowInv, SitedPairs, pairs, Sited
<1>3. HasRead' /\ Permitted'
  BY DEF WindowInv, check, HasRead, Permitted, Sited, ValidRecord, WindowOpen, Within
<1> QED BY <1>1, <1>2, <1>3 DEF WindowInv

LEMMA WindowInitInv == ASSUME UpgradeInit PROVE WindowInv
<1> USE DEF UpgradeInit
<1>1. 0 \in 0..MaxTime /\ 1 \in DOMAIN Locks
  BY BoundsAssumption, LocksAssumption
<1>2. WindowTypeOK
  BY <1>1 DEF WindowTypeOK, Documents, Sites
<1>3. PairInv
  BY InitPair
<1>4. SitedPairs
  BY NoValueSited DEF SitedPairs, Snapshots!PairInit
<1>5. HasRead /\ Permitted
  BY DEF HasRead, Permitted
<1> QED BY <1>2, <1>3, <1>4, <1>5 DEF WindowInv

LEMMA WindowNextInv == ASSUME WindowInv, [UpgradeNext]_upgradeVars PROVE WindowInv'
<1>1. CASE Tick
  <2>1. now + 1 \in 0..MaxTime
    BY <1>1, BoundsAssumption DEF Tick, WindowInv, WindowTypeOK
  <2> QED BY <1>1, <2>1, AroundInv DEF Tick, check, WindowInv, WindowTypeOK
<1>2. CASE CommitLock
  <2>1. lock + 1 \in DOMAIN Locks
    BY <1>2, LocksAssumption DEF CommitLock, WindowInv, WindowTypeOK
  <2> QED BY <1>2, <2>1, AroundInv DEF CommitLock, check, WindowInv, WindowTypeOK
<1>3. ASSUME NEW a \in Documents \ {authority}, Transition(a) PROVE WindowInv'
  BY <1>3, AroundInv DEF Transition, check, WindowInv, WindowTypeOK
<1>4. ASSUME NEW e \in Evidences, Collect(e) PROVE WindowInv'
  BY <1>4, AroundInv DEF Collect, check, WindowInv, WindowTypeOK
<1>5. CASE UNCHANGED upgradeVars
  BY <1>5, AroundInv DEF upgradeVars, world, check, WindowInv, WindowTypeOK
<1> QED BY <1>1, <1>2, <1>3, <1>4, <1>5, ValidateInv, RenderLockInv DEF UpgradeNext

LEMMA WindowInvAlways == UpgradeSpec => []WindowInv
<1>1. UpgradeInit => WindowInv
  BY WindowInitInv
<1>2. WindowInv /\ [UpgradeNext]_upgradeVars => WindowInv'
  BY WindowNextInv
<1> QED BY <1>1, <1>2, PTL DEF UpgradeSpec

\* The clock, the locks, the files and what both programs remember keep their types.
THEOREM UpgradeTypeCorrect == UpgradeSpec => []UpgradeTypeOK
<1>1. WindowInv => UpgradeTypeOK
  BY DEF WindowInv, WindowTypeOK, PairInv, UpgradeTypeOK
<1> QED BY <1>1, WindowInvAlways, PTL

\* Whatever fails, the snapshots of the two sites together are what one rendering wrote,
\* except while one is between its renames, unless a process was killed there, putting the
\* first file back failed too, or two renderings overlapped: for any number of renderers
\* and any locks (commit_pair()).
THEOREM SnapshotsWholeAlways == UpgradeSpec => []SnapshotsWhole
<1>1. WindowInv => SnapshotsWhole
  BY DEF WindowInv, PairInv
<1> QED BY <1>1, WindowInvAlways, PTL

\* For one change record the Standby passes before AWS does, for the very same lock, and
\* AWS only after the soak, whatever the record says and however the files it is checked
\* against change between two reads (main() of the window validator).
THEOREM StandbyFirstAlways == UpgradeSpec => []StandbyFirst
<1>1. WindowInv => StandbyFirst
  <2> SUFFICES ASSUME WindowInv PROVE StandbyFirst
    OBVIOUS
  <2> DEFINE s == passed["standby"]
  <2> DEFINE a == passed["aws"]
  <2>1. a # NoValue => a.at >= record.soak.to
    BY DEF WindowInv, Permitted, Sites
  <2>2. ASSUME s # NoValue, a # NoValue PROVE s.at < a.at /\ s.lock = a.lock
    <3>1. s.at \in Int /\ a.at \in Int
      BY <2>2, BoundsAssumption DEF WindowInv, WindowTypeOK, Sites
    <3>2. record.standby.to \in Int /\ record.aws.from \in Int /\ record.aws.to \in Int
      BY RecordsAssumption DEF WindowInv, WindowTypeOK
    <3>3. /\ WindowOpen(record, "standby", s.at) /\ WindowOpen(record, "aws", a.at)
          /\ ValidRecord(record) /\ record.lock = s.lock /\ record.lock = a.lock
      BY <2>2 DEF WindowInv, Permitted, Sites
    <3>4. s.at <= record.standby.to /\ ~Within(s.at, record.aws)
      BY <3>3 DEF WindowOpen, Within
    <3>5. record.standby.to <= record.aws.from /\ record.aws.from <= a.at /\ a.at <= record.aws.to
      BY <3>3 DEF WindowOpen, Within, ValidRecord
    <3> QED BY <3>1, <3>2, <3>3, <3>4, <3>5 DEF Within
  <2> QED BY <2>1, <2>2 DEF StandbyFirst
<1> QED BY <1>1, WindowInvAlways, PTL

\* How far the finding about ApprovedSkewPasses goes: no change of a client version passes
\* at either site, whatever locks and records there are, because what
\* validate-client-release-lock.py accepts as the site of a skew is never what
\* validate-client-upgrade-window.py asks for.
THEOREM NoUpgradePasses ==
  UpgradeSpec => [](\A s \in Sites : passed[s] # NoValue => record.before = record.after)
<1>1. WindowInv => \A s \in Sites : passed[s] # NoValue => record.before = record.after
  BY DEF WindowInv, Permitted
<1> QED BY <1>1, WindowInvAlways, PTL

HIDE DEF Snapshots!Files, Snapshots!Steps, Snapshots!Midway, Snapshots!Goto, Snapshots!End,
         Snapshots!Nothing

---------------------------------------------------------------------------
(* The key ceremony: the inductive invariant.  First the file and its editors. *)

\* Node and address of a text belong together, or an operator typed one of them.
Paired(text) ==
    LET ip == text["NODE_IP"] id == text["INSTANCE_ID"] IN
    /\ ip \in Addresses => id = "typed" \/ <<ip, id>> \in held
    /\ id \in Instances => ip = "typed" \/ <<ip, id>> \in held

\* What a run copied differs from the file only where others wrote since.
Tracked ==
    \A r \in Runs : at[r] = "replace" =>
      \A k \in Keys : copy[r][k] = Text(env)[k] \/ k \in missed[r]

\* What a run is to write: an instance and the address it had, or one typed value.
SyncJob(j) == DOMAIN j = SyncKeys /\ <<j["NODE_IP"], j["INSTANCE_ID"]>> \in held
TypedJob(j) == \E k \in Keys : DOMAIN j = {k} /\ (k \in SyncKeys => j[k] = "typed")
Jobs ==
    \A r \in Runs :
      /\ at[r] = "address" => job[r]["INSTANCE_ID"] \in Instances
      /\ at[r] \in {"read", "replace"} => SyncJob(job[r]) \/ TypedJob(job[r])

Pairs ==
    /\ holder # None => <<address, holder>> \in held
    /\ Paired(Text(env))
    /\ \A r \in Runs : Paired(copy[r])

\* Then the envelope: what a seal that is at work has finished,
Written ==
    /\ seal = [step |-> seal.step, number |-> seal.number, arn |-> seal.arn, root |-> seal.root]
    /\ seal.step # "idle" => seal.number \in Seals
    /\ seal.step \in {"offline", "kms", "sums", "json", "mac", "finish"} =>
         enc = seal.number /\ sealed = 0
    /\ seal.step \in {"kms", "sums", "json", "mac", "finish"} => off = seal.number
    /\ seal.step \in {"sums", "json", "mac", "finish"} => seal.arn = NoArn \/ kms = seal.number
    /\ seal.step \in {"json", "mac", "finish"} => sums = Listed
    /\ seal.step \in {"mac", "finish"} => json = [seal |-> seal.number, arn |-> seal.arn]
    /\ seal.step = "finish" => mac = [key |-> seal.number, over |-> Covered]

\* what one that is complete consists of,
Complete ==
    sealed # 0 =>
      /\ sealed \in Seals /\ seal.step \in {"idle", "payload"}
      /\ enc = sealed /\ off = sealed /\ (json.arn = NoArn \/ kms = sealed)
      /\ sums = Listed /\ json.seal = sealed
      /\ mac = [key |-> sealed, over |-> Covered]

\* and whose key an unseal holds.
Keyed ==
    /\ unseal = [step |-> unseal.step, via |-> unseal.via, key |-> unseal.key]
    /\ mac.key # Absent => mac.key \in authentic
    /\ unseal.step \in {"mac", "decrypt", "digest"} => unseal.key \in Seals
    /\ unseal.step \in {"decrypt", "digest"} => unseal.key \in authentic
    /\ opened # 0 => opened \in authentic

LabInv == LabTypeOK /\ Tracked /\ Jobs /\ Pairs
SealInv == SealTypeOK /\ Written /\ Complete /\ Keyed

USE NamesAssumption, SealsAssumption

---------------------------------------------------------------------------
(* lab.env *)

LEMMA Texts ==
  /\ Blank \in [Keys -> Values] /\ \A k \in Keys : Blank[k] = None
  /\ Text(None) = Blank
  /\ \A e \in [Keys -> Values] : e # None /\ Text(e) = e
BY DEF Blank, Values, Text

\* A text that is not there or has none of the values.
LEMMA BlankPaired == Paired(Blank)
BY Texts DEF Paired, Keys, SyncKeys

LEMMA IsJob ==
  ASSUME NEW names \in SUBSET Keys, NEW j \in [names -> Values], names # {}
  PROVE  j \in PossibleJobs /\ j # NoJob
BY DEF PossibleJobs, NoJob

LEMMA JobTypes ==
  /\ NoJob \in PossibleJobs /\ DOMAIN NoJob = {}
  /\ \A j \in PossibleJobs : \A k \in DOMAIN j : k \in Keys /\ j[k] \in Values
  /\ \A k \in Keys, v \in Values :
       [x \in {k} |-> v] \in PossibleJobs /\ [x \in {k} |-> v] # NoJob
  /\ \A i \in Instances :
       [INSTANCE_ID |-> i] \in PossibleJobs /\ [INSTANCE_ID |-> i] # NoJob
  /\ \A a \in Addresses, i \in Instances :
       /\ [NODE_IP |-> a, INSTANCE_ID |-> i] \in PossibleJobs
       /\ [NODE_IP |-> a, INSTANCE_ID |-> i] # NoJob
<1>1. DOMAIN NoJob = {} /\ NoJob \in [{} -> Values]
  BY DEF NoJob
<1>2. NoJob \in PossibleJobs
  BY <1>1 DEF PossibleJobs
<1>3. ASSUME NEW j \in PossibleJobs, NEW k \in DOMAIN j PROVE k \in Keys /\ j[k] \in Values
  <2> PICK names \in SUBSET Keys : j \in [names -> Values]
    BY DEF PossibleJobs
  <2> QED BY <1>3
<1>4. ASSUME NEW k \in Keys, NEW v \in Values
      PROVE  [x \in {k} |-> v] \in PossibleJobs /\ [x \in {k} |-> v] # NoJob
  <2>1. [x \in {k} |-> v] \in [{k} -> Values] /\ {k} \in SUBSET Keys /\ {k} # {}
    OBVIOUS
  <2> QED BY <2>1, IsJob
<1>5. ASSUME NEW i \in Instances
      PROVE  [INSTANCE_ID |-> i] \in PossibleJobs /\ [INSTANCE_ID |-> i] # NoJob
  <2>1. [INSTANCE_ID |-> i] = [k \in {"INSTANCE_ID"} |-> i]
    OBVIOUS
  <2>2. "INSTANCE_ID" \in Keys /\ i \in Values
    BY DEF Keys, SyncKeys, Values
  <2> QED BY <1>4, <2>1, <2>2
<1>6. ASSUME NEW a \in Addresses, NEW i \in Instances
      PROVE  /\ [NODE_IP |-> a, INSTANCE_ID |-> i] \in PossibleJobs
             /\ [NODE_IP |-> a, INSTANCE_ID |-> i] # NoJob
  <2> DEFINE j == [NODE_IP |-> a, INSTANCE_ID |-> i]
  <2>1. DOMAIN j = SyncKeys /\ j["NODE_IP"] \in Values /\ j["INSTANCE_ID"] \in Values
    BY DEF Values, SyncKeys
  <2>2. j = [k \in SyncKeys |-> j[k]]
    BY <2>1 DEF SyncKeys
  <2>3. j \in [SyncKeys -> Values] /\ SyncKeys # {} /\ SyncKeys \in SUBSET Keys
    BY <2>1, <2>2 DEF SyncKeys, Keys
  <2> HIDE DEF j
  <2>4. j \in PossibleJobs /\ j # NoJob
    BY <2>3, IsJob
  <2> QED BY <2>4 DEF j
<1> QED BY <1>1, <1>2, <1>3, <1>4, <1>5, <1>6

\* The file or what stands for its absence.
LEMMA TextType == ASSUME LabTypeOK PROVE Text(env) \in [Keys -> Values]
BY Texts DEF LabTypeOK

USE DEF At, Goto, Remember, End, cloud, UNCHANGEDFiles, Steps

\* Writing a text in which node and address are paired, at the end of a run.
LEMMA WriteStep ==
  ASSUME LabInv, NEW r \in Runs, NEW e \in [Keys -> Values], Paired(e),
         Write(r, e), End(r), UNCHANGED cloud
  PROVE  LabInv'
<1> USE DEF Write
<1>1. LabTypeOK'
  <2>2. missed' \in [Runs -> SUBSET Keys]
    BY DEF LabInv, LabTypeOK
  <2>3. copy' \in [Runs -> [Keys -> Values]]
    BY Texts DEF LabInv, LabTypeOK
  <2>4. job' \in [Runs -> PossibleJobs] /\ at' \in [Runs -> Steps]
    BY JobTypes DEF LabInv, LabTypeOK
  <2>5. \A q \in Runs : at'[q] \in {"address", "read", "replace"} <=> job'[q] # NoJob
    BY DEF LabInv, LabTypeOK
  <2> HIDE DEF End, Write
  <2>6. env' \in [Keys -> Values] \cup {None}
    BY DEF Write
  <2> QED BY <2>2, <2>3, <2>4, <2>5, <2>6 DEF LabInv, LabTypeOK
<1>2. Tracked'
  <2> SUFFICES ASSUME NEW q \in Runs, at'[q] = "replace", NEW k \in Keys
               PROVE  copy'[q][k] = e[k] \/ k \in missed'[q]
    BY Texts DEF Tracked
  <2>1. q # r /\ at[q] = "replace" /\ copy'[q] = copy[q]
    BY DEF LabInv, LabTypeOK
  <2>2. missed'[q] = missed[q] \cup {l \in Keys : Text(env)[l] # e[l]}
    BY <2>1
  <2> QED BY <2>1, <2>2 DEF LabInv, Tracked
<1>3. Jobs'
  BY DEF LabInv, LabTypeOK, Jobs, SyncJob, TypedJob
<1>4. Pairs'
  BY Texts, BlankPaired DEF LabInv, LabTypeOK, Pairs, Paired
<1> QED BY <1>1, <1>2, <1>3, <1>4 DEF LabInv

LEMMA LeaveStep == ASSUME LabInv, NEW r \in Runs, Leave(r) PROVE LabInv'
<1> USE DEF Leave
<1>1. LabTypeOK'
  BY Texts, JobTypes DEF LabInv, LabTypeOK
<1>2. Tracked'
  BY DEF LabInv, LabTypeOK, Tracked
<1>3. Jobs'
  BY DEF LabInv, LabTypeOK, Jobs, SyncJob, TypedJob
<1>4. Pairs'
  BY BlankPaired DEF LabInv, LabTypeOK, Pairs, Paired
<1> QED BY <1>1, <1>2, <1>3, <1>4 DEF LabInv

LEMMA InitFileStep == ASSUME LabInv, NEW r \in Runs, InitFile(r) PROVE LabInv'
<1> USE DEF InitFile
<1>1. LabTypeOK'
  BY DEF LabInv, LabTypeOK
<1>2. Tracked'
  BY DEF LabInv, LabTypeOK, Tracked
<1>3. Jobs'
  BY DEF LabInv, LabTypeOK, Jobs, SyncJob, TypedJob
<1>4. Pairs'
  BY DEF LabInv, LabTypeOK, Pairs, Paired
<1> QED BY <1>1, <1>2, <1>3, <1>4 DEF LabInv

LEMMA LinkStep == ASSUME LabInv, NEW r \in Runs, Link(r) PROVE LabInv'
BY Texts, BlankPaired, WriteStep, LeaveStep DEF Link

LEMMA UpsertStep ==
  ASSUME LabInv, NEW r \in Runs, NEW k \in Keys, NEW v \in Typed(k), Upsert(r, k, v)
  PROVE  LabInv'
<1> USE DEF Upsert
<1>1. v \in Values /\ (k \in SyncKeys => v = "typed")
  BY DEF Typed, Values, SyncKeys
<1>2. [x \in {k} |-> v] \in PossibleJobs /\ [x \in {k} |-> v] # NoJob
  BY <1>1, JobTypes
<1>3. LabTypeOK'
  BY <1>1, <1>2 DEF LabInv, LabTypeOK
<1>4. Tracked'
  BY DEF LabInv, LabTypeOK, Tracked
<1>5. Jobs'
  <2>1. TypedJob([x \in {k} |-> v])
    BY <1>1 DEF TypedJob
  <2> QED BY <2>1 DEF LabInv, LabTypeOK, Jobs, SyncJob, TypedJob
<1>6. Pairs'
  BY DEF LabInv, LabTypeOK, Pairs, Paired
<1> QED BY <1>3, <1>4, <1>5, <1>6 DEF LabInv

LEMMA ReadStep == ASSUME LabInv, NEW r \in Runs, Read(r) PROVE LabInv'
<1> USE DEF Read
<1>1. LabTypeOK'
  BY TextType DEF LabInv, LabTypeOK
<1>2. Tracked'
  BY TextType DEF LabInv, LabTypeOK, Tracked
<1>3. Jobs'
  BY DEF LabInv, LabTypeOK, Jobs, SyncJob, TypedJob
<1>4. Pairs'
  BY TextType DEF LabInv, LabTypeOK, Pairs, Paired
<1> QED BY <1>1, <1>2, <1>3, <1>4 DEF LabInv

\* What replaces the file: the copy with the values of the job.
LEMMA Rendered ==
  ASSUME LabInv, NEW r \in Runs, at[r] = "replace"
  PROVE  Render(copy[r], job[r]) \in [Keys -> Values] /\ Paired(Render(copy[r], job[r]))
<1>1. copy[r] \in [Keys -> Values] /\ \A k \in DOMAIN job[r] : job[r][k] \in Values
  BY JobTypes DEF LabInv, LabTypeOK
<1>2. Paired(copy[r])
  BY DEF LabInv, Pairs
<1>3. Render(copy[r], job[r]) \in [Keys -> Values]
  BY <1>1 DEF Render
<1>4. ASSUME SyncJob(job[r]) PROVE Paired(Render(copy[r], job[r]))
  <2>1. \A l \in SyncKeys : Render(copy[r], job[r])[l] = job[r][l]
    BY <1>4 DEF SyncJob, Render, Keys
  <2>2. <<job[r]["NODE_IP"], job[r]["INSTANCE_ID"]>> \in held
    BY <1>4 DEF SyncJob
  <2> QED BY <2>1, <2>2 DEF Paired, SyncKeys
<1>5. ASSUME TypedJob(job[r]) PROVE Paired(Render(copy[r], job[r]))
  <2> PICK k \in Keys : DOMAIN job[r] = {k} /\ (k \in SyncKeys => job[r][k] = "typed")
    BY <1>5 DEF TypedJob
  <2>1. \A l \in SyncKeys : Render(copy[r], job[r])[l] = IF l = k THEN "typed" ELSE copy[r][l]
    BY DEF Render, Keys
  <2> QED BY <1>2, <2>1 DEF Paired, SyncKeys
<1> QED BY <1>3, <1>4, <1>5 DEF LabInv, Jobs

LEMMA ReplaceStep == ASSUME LabInv, NEW r \in Runs, Replace(r) PROVE LabInv'
BY Rendered, WriteStep DEF Replace

LEMMA SyncStep == ASSUME LabInv, NEW r \in Runs, Sync(r) PROVE LabInv'
<1> USE DEF Sync
<1>1. LabTypeOK'
  BY DEF LabInv, LabTypeOK
<1>2. Tracked'
  BY DEF LabInv, LabTypeOK, Tracked
<1>3. Jobs'
  BY DEF LabInv, LabTypeOK, Jobs, SyncJob, TypedJob
<1>4. Pairs'
  BY DEF LabInv, LabTypeOK, Pairs, Paired
<1> QED BY <1>1, <1>2, <1>3, <1>4 DEF LabInv

LEMMA ReadInstancesStep == ASSUME LabInv, NEW r \in Runs, ReadInstances(r) PROVE LabInv'
<1> PICK i \in live : Remember(r, [INSTANCE_ID |-> i])
  BY DEF ReadInstances
<1> USE DEF ReadInstances
<1> DEFINE j == [INSTANCE_ID |-> i]
<1>1. /\ i \in Instances /\ j \in PossibleJobs /\ j # NoJob
      /\ job' = [job EXCEPT ![r] = j] /\ j["INSTANCE_ID"] = i
  BY JobTypes DEF LabInv, LabTypeOK
<1> HIDE DEF j
<1>2. LabTypeOK'
  BY <1>1 DEF LabInv, LabTypeOK
<1>3. Tracked'
  BY DEF LabInv, LabTypeOK, Tracked
<1>4. Jobs'
  BY <1>1 DEF LabInv, LabTypeOK, Jobs, SyncJob, TypedJob
<1>5. Pairs'
  BY DEF LabInv, LabTypeOK, Pairs, Paired
<1> QED BY <1>2, <1>3, <1>4, <1>5 DEF LabInv

LEMMA ReadAddressStep == ASSUME LabInv, NEW r \in Runs, ReadAddress(r) PROVE LabInv'
<1> USE DEF ReadAddress, Attached
<1> DEFINE j == [NODE_IP |-> address, INSTANCE_ID |-> job[r].INSTANCE_ID]
<1>1. job[r].INSTANCE_ID \in Instances /\ address \in Addresses
  BY DEF LabInv, LabTypeOK, Jobs
<1>2. j \in PossibleJobs /\ j # NoJob
  BY <1>1, JobTypes
<1>3. SyncJob(j)
  <2>1. holder # None
    BY <1>1
  <2>2. DOMAIN j = SyncKeys /\ j["NODE_IP"] = address /\ j["INSTANCE_ID"] = holder
    BY DEF SyncKeys
  <2> QED BY <2>1, <2>2 DEF SyncJob, LabInv, Pairs
<1>4. job' = [job EXCEPT ![r] = j]
  OBVIOUS
<1> HIDE DEF j
<1>5. LabTypeOK'
  BY <1>2, <1>4 DEF LabInv, LabTypeOK
<1>6. Tracked'
  BY DEF LabInv, LabTypeOK, Tracked
<1>7. Jobs'
  <2>1. \A q \in Runs \ {r} : job'[q] = job[q] /\ at'[q] = at[q]
    BY <1>4 DEF LabInv, LabTypeOK
  <2>2. job'[r] = j /\ at'[r] = "read" /\ held' = held
    BY <1>4 DEF LabInv, LabTypeOK
  <2> QED BY <1>3, <2>1, <2>2 DEF LabInv, Jobs, SyncJob, TypedJob
<1>8. Pairs'
  BY DEF LabInv, LabTypeOK, Pairs, Paired
<1> QED BY <1>5, <1>6, <1>7, <1>8 DEF LabInv

LEMMA ProvisionStep == ASSUME LabInv, Provision PROVE LabInv'
<1> USE DEF Provision, Launch, Associate, Terminate, Allocate
<1>1. LabTypeOK'
  BY DEF LabInv, LabTypeOK
<1>2. Tracked'
  BY DEF LabInv, LabTypeOK, Tracked
<1>3. Jobs'
  BY DEF LabInv, LabTypeOK, Jobs, SyncJob, TypedJob
<1>4. Pairs'
  BY DEF LabInv, LabTypeOK, Pairs, Paired
<1> QED BY <1>1, <1>2, <1>3, <1>4 DEF LabInv

---------------------------------------------------------------------------
(* The envelope. *)

USE DEF Absent, Torn, Seals, Files, Untouched, Reading, Onward, Dies, Closes, Nothing, dir

LEMMA BeginSealStep == ASSUME SealInv, NEW arn, NEW root \in BOOLEAN, BeginSeal(arn, root) PROVE SealInv'
<1> USE DEF BeginSeal, Listed, Covered
<1>1. SealTypeOK'
  BY DEF SealInv, SealTypeOK, Written, Keyed
<1>2. Written'
  BY DEF SealInv, SealTypeOK, Written
<1>3. Complete'
  BY DEF SealInv, SealTypeOK, Written, Complete
<1>4. Keyed'
  BY DEF SealInv, SealTypeOK, Keyed
<1> QED BY <1>1, <1>2, <1>3, <1>4 DEF SealInv

LEMMA PayloadStep == ASSUME SealInv, Payload PROVE SealInv'
<1> USE DEF Payload, Listed, Covered, NoSums, NoJson, NoMac
<1>1. SealTypeOK'
  BY DEF SealInv, SealTypeOK, Written, Keyed
<1>2. Written'
  BY DEF SealInv, SealTypeOK, Written
<1>3. Complete'
  BY DEF SealInv, SealTypeOK, Written, Complete
<1>4. Keyed'
  BY DEF SealInv, SealTypeOK, Keyed
<1> QED BY <1>1, <1>2, <1>3, <1>4 DEF SealInv

LEMMA WrapOfflineStep == ASSUME SealInv, WrapOffline PROVE SealInv'
<1> USE DEF WrapOffline, Listed, Covered, NoSums, NoJson, NoMac
<1>1. SealTypeOK'
  BY DEF SealInv, SealTypeOK, Written, Keyed
<1>2. Written'
  BY DEF SealInv, SealTypeOK, Written
<1>3. Complete'
  BY DEF SealInv, SealTypeOK, Written, Complete
<1>4. Keyed'
  BY DEF SealInv, SealTypeOK, Keyed
<1> QED BY <1>1, <1>2, <1>3, <1>4 DEF SealInv

LEMMA WrapKmsStep == ASSUME SealInv, WrapKms PROVE SealInv'
<1> USE DEF WrapKms, Listed, Covered, NoSums, NoJson, NoMac
<1>1. SealTypeOK'
  BY DEF SealInv, SealTypeOK, Written, Keyed
<1>2. Written'
  BY DEF SealInv, SealTypeOK, Written
<1>3. Complete'
  BY DEF SealInv, SealTypeOK, Written, Complete
<1>4. Keyed'
  BY DEF SealInv, SealTypeOK, Keyed
<1> QED BY <1>1, <1>2, <1>3, <1>4 DEF SealInv

LEMMA ListFilesStep == ASSUME SealInv, ListFiles PROVE SealInv'
<1> USE DEF ListFiles, Listed, Covered, NoSums, NoJson, NoMac
<1>1. SealTypeOK'
  BY DEF SealInv, SealTypeOK, Written, Keyed
<1>2. Written'
  BY DEF SealInv, SealTypeOK, Written
<1>3. Complete'
  BY DEF SealInv, SealTypeOK, Written, Complete
<1>4. Keyed'
  BY DEF SealInv, SealTypeOK, Keyed
<1> QED BY <1>1, <1>2, <1>3, <1>4 DEF SealInv

LEMMA ManifestStep == ASSUME SealInv, Manifest PROVE SealInv'
<1> USE DEF Manifest, Listed, Covered, NoSums, NoJson, NoMac
<1>1. SealTypeOK'
  BY DEF SealInv, SealTypeOK, Written, Keyed
<1>2. Written'
  BY DEF SealInv, SealTypeOK, Written
<1>3. Complete'
  BY DEF SealInv, SealTypeOK, Written, Complete
<1>4. Keyed'
  BY DEF SealInv, SealTypeOK, Keyed
<1> QED BY <1>1, <1>2, <1>3, <1>4 DEF SealInv

LEMMA AuthenticateStep == ASSUME SealInv, Authenticate PROVE SealInv'
<1> USE DEF Authenticate, Listed, Covered, NoSums, NoJson, NoMac
<1>1. SealTypeOK'
  BY DEF SealInv, SealTypeOK, Written, Keyed
<1>2. Written'
  BY DEF SealInv, SealTypeOK, Written
<1>3. Complete'
  BY DEF SealInv, SealTypeOK, Written, Complete
<1>4. Keyed'
  BY DEF SealInv, SealTypeOK, Keyed
<1> QED BY <1>1, <1>2, <1>3, <1>4 DEF SealInv

LEMMA FinishStep == ASSUME SealInv, Finish PROVE SealInv'
<1> USE DEF Finish, Listed, Covered, NoSums, NoJson, NoMac
<1>1. SealTypeOK'
  BY DEF SealInv, SealTypeOK, Written, Keyed
<1>2. Written'
  BY DEF SealInv, SealTypeOK, Written
<1>3. Complete'
  BY DEF SealInv, SealTypeOK, Written, Complete
<1>4. Keyed'
  BY DEF SealInv, SealTypeOK, Keyed
<1> QED BY <1>1, <1>2, <1>3, <1>4 DEF SealInv

LEMMA SealFailsStep == ASSUME SealInv, SealFails PROVE SealInv'
<1> USE DEF SealFails, Listed, Covered, NoSums, NoJson, NoMac
<1>1. SealTypeOK'
  BY DEF SealInv, SealTypeOK, Written, Keyed
<1>2. Written'
  BY DEF SealInv, SealTypeOK, Written
<1>3. Complete'
  BY DEF SealInv, SealTypeOK, Written, Complete
<1>4. Keyed'
  BY DEF SealInv, SealTypeOK, Keyed
<1> QED BY <1>1, <1>2, <1>3, <1>4 DEF SealInv

LEMMA BeginUnsealStep == ASSUME SealInv, NEW via \in {"pass", "kms"}, BeginUnseal(via) PROVE SealInv'
<1> USE DEF BeginUnseal, Listed, Covered
<1>1. SealTypeOK'
  BY DEF SealInv, SealTypeOK, Written, Keyed
<1>2. Written'
  BY DEF SealInv, SealTypeOK, Written
<1>3. Complete'
  BY DEF SealInv, SealTypeOK, Written, Complete
<1>4. Keyed'
  BY DEF SealInv, SealTypeOK, Keyed
<1> QED BY <1>1, <1>2, <1>3, <1>4 DEF SealInv

LEMMA UnwrapStep == ASSUME SealInv, Unwrap PROVE SealInv'
<1> USE DEF Unwrap, Listed, Covered
<1>1. SealTypeOK'
  <2>1. CASE Unwrapped(unseal.via) \in Seals
    <3> DEFINE key == Unwrapped(unseal.via)
    <3>1. unseal' = [step |-> "mac", via |-> unseal.via, key |-> key] /\ key \in Seals
      BY <2>1 DEF SealInv, Keyed
    <3> HIDE DEF key
    <3> QED BY <3>1 DEF SealInv, SealTypeOK, Keyed
  <2>2. CASE unseal' = Nothing
    BY <2>2 DEF SealInv, SealTypeOK, Keyed
  <2> QED BY <2>1, <2>2
<1>2. Written'
  BY DEF SealInv, SealTypeOK, Written
<1>3. Complete'
  BY DEF SealInv, SealTypeOK, Written, Complete
<1>4. Keyed'
  <2>1. CASE Unwrapped(unseal.via) \in Seals
    <3> DEFINE key == Unwrapped(unseal.via)
    <3>1. unseal' = [step |-> "mac", via |-> unseal.via, key |-> key] /\ key \in Seals
      BY <2>1 DEF SealInv, Keyed
    <3> HIDE DEF key
    <3> QED BY <3>1 DEF SealInv, SealTypeOK, Keyed
  <2>2. CASE unseal' = Nothing
    BY <2>2 DEF SealInv, SealTypeOK, Keyed
  <2> QED BY <2>1, <2>2
<1> QED BY <1>1, <1>2, <1>3, <1>4 DEF SealInv

LEMMA CheckMacStep == ASSUME SealInv, CheckMac PROVE SealInv'
<1> USE DEF CheckMac, Listed, Covered, Authentic
<1>1. SealTypeOK'
  BY DEF SealInv, SealTypeOK, Written, Keyed
<1>2. Written'
  BY DEF SealInv, SealTypeOK, Written
<1>3. Complete'
  BY DEF SealInv, SealTypeOK, Written, Complete
<1>4. Keyed'
  BY DEF SealInv, SealTypeOK, Keyed
<1> QED BY <1>1, <1>2, <1>3, <1>4 DEF SealInv

LEMMA DecryptStep == ASSUME SealInv, Decrypt PROVE SealInv'
<1> USE DEF Decrypt, Listed, Covered
<1>1. SealTypeOK'
  BY DEF SealInv, SealTypeOK, Written, Keyed
<1>2. Written'
  BY DEF SealInv, SealTypeOK, Written
<1>3. Complete'
  BY DEF SealInv, SealTypeOK, Written, Complete
<1>4. Keyed'
  BY DEF SealInv, SealTypeOK, Keyed
<1> QED BY <1>1, <1>2, <1>3, <1>4 DEF SealInv

LEMMA DigestStep == ASSUME SealInv, Digest PROVE SealInv'
<1> USE DEF Digest, Listed, Covered
<1>1. SealTypeOK'
  BY DEF SealInv, SealTypeOK, Written, Keyed
<1>2. Written'
  BY DEF SealInv, SealTypeOK, Written
<1>3. Complete'
  BY DEF SealInv, SealTypeOK, Written, Complete
<1>4. Keyed'
  BY DEF SealInv, SealTypeOK, Keyed
<1> QED BY <1>1, <1>2, <1>3, <1>4 DEF SealInv

LEMMA UnsealFailsStep == ASSUME SealInv, UnsealFails PROVE SealInv'
<1> USE DEF UnsealFails, Listed, Covered
<1>1. SealTypeOK'
  BY DEF SealInv, SealTypeOK, Written, Keyed
<1>2. Written'
  BY DEF SealInv, SealTypeOK, Written
<1>3. Complete'
  BY DEF SealInv, SealTypeOK, Written, Complete
<1>4. Keyed'
  BY DEF SealInv, SealTypeOK, Keyed
<1> QED BY <1>1, <1>2, <1>3, <1>4 DEF SealInv

---------------------------------------------------------------------------
(* Both together. *)

LEMMA InitInv == Init => LabInv /\ SealInv
<1> SUFFICES ASSUME Init PROVE LabInv /\ SealInv
  OBVIOUS
<1>1. LabTypeOK /\ Tracked /\ Jobs
  BY Texts, JobTypes DEF Init, LabInit, LabTypeOK, Tracked, Jobs
<1>2. Pairs
  BY Texts, BlankPaired DEF Init, LabInit, Pairs, Paired
<1>3. SealInv
  <2> USE DEF Init, SealInit
  <2>1. SealTypeOK
    <3>1. sums.enc = 0 /\ sums.off = 0 /\ sums.kms = 0 /\ json.seal = 0 /\ mac.key = 0
      BY DEF NoSums, NoJson, NoMac
    <3>2. seal.step = "idle" /\ seal.number = 0 /\ seal.root = FALSE
      OBVIOUS
    <3>3. unseal.step = "idle" /\ unseal.key = 0 /\ unseal.via = "pass" /\ 0 \in 0..MaxSeals
      OBVIOUS
    <3> QED BY <3>1, <3>2, <3>3 DEF SealTypeOK
  <2>2. Written /\ Complete
    BY DEF Written, Complete
  <2>3. Keyed
    BY DEF Keyed, NoMac
  <2> QED BY <2>1, <2>2, <2>3 DEF SealInv
<1> QED BY <1>1, <1>2, <1>3 DEF LabInv

LEMMA LabNext == LabInv /\ [Step]_vars => LabInv'
<1> SUFFICES ASSUME LabInv, [Step]_vars PROVE LabInv'
  OBVIOUS
<1>1. ASSUME NEW r \in Runs, Edit(r) PROVE LabInv'
  BY <1>1, InitFileStep, LinkStep, UpsertStep, ReadStep, ReplaceStep, SyncStep,
     ReadInstancesStep, ReadAddressStep, LeaveStep DEF Edit, Fail
<1>2. CASE Provision
  BY <1>2, ProvisionStep
<1>3. CASE UNCHANGED labVars
  <2> USE <1>3 DEF labVars
  <2>1. LabTypeOK' /\ Tracked'
    BY DEF LabInv, LabTypeOK, Tracked
  <2>2. Jobs' /\ Pairs'
    BY DEF LabInv, Jobs, SyncJob, TypedJob, Pairs, Paired
  <2> QED BY <2>1, <2>2 DEF LabInv
<1> QED BY <1>1, <1>2, <1>3 DEF Step, EditStep, CeremonyStep, vars

LEMMA SealNext == SealInv /\ [Step]_vars => SealInv'
<1> SUFFICES ASSUME SealInv, [Step]_vars PROVE SealInv'
  OBVIOUS
<1>1. CASE Ceremony
  BY <1>1, BeginSealStep DEF Ceremony
<1>2. CASE SealStep
  BY <1>2, PayloadStep, WrapOfflineStep, WrapKmsStep, ListFilesStep, ManifestStep,
     AuthenticateStep, FinishStep, SealFailsStep DEF SealStep
<1>3. CASE UnsealStep
  BY <1>3, BeginUnsealStep, UnwrapStep, CheckMacStep, DecryptStep, DigestStep, UnsealFailsStep
     DEF UnsealStep
<1>4. CASE UNCHANGED sealVars
  BY <1>4 DEF sealVars, SealInv, SealTypeOK, Written, Complete, Keyed, Listed, Covered
<1> QED BY <1>1, <1>2, <1>3, <1>4 DEF Step, EditStep, CeremonyStep, vars

\* The inductive invariant holds throughout (init-if-absent.py,
\* upsert-lab-env.py, sync-aws-runtime-outputs.py and seal-keystores.sh).
THEOREM Invariance == Spec => [](LabInv /\ SealInv)
<1>1. (LabInv /\ SealInv) /\ [Step]_vars => (LabInv /\ SealInv)'
  BY LabNext, SealNext
<1> QED BY <1>1, InitInv, PTL DEF Spec

\* Types of lab.env with its editors and of the envelope.
THEOREM TypeCorrect == Spec => []TypeOK
<1>1. LabInv /\ SealInv => TypeOK
  BY DEF LabInv, SealInv, TypeOK
<1> QED BY <1>1, Invariance, PTL

\* Unless an operator typed one of them, the instance in lab.env had the address in
\* lab.env, whatever runs overlap, and never is half of what a sync found there.
THEOREM PairRealAlways == Spec => []PairReal
<1>1. LabInv /\ SealInv => PairReal
  BY DEF LabInv, Pairs, Paired, PairReal
<1> QED BY <1>1, Invariance, PTL

\* UNSEAL=OK gives the keystores of one authenticated seal, and SEAL=OK means
\* that this seal opens both ways until the next one writes.
THEOREM EnvelopeSoundAlways == Spec => []EnvelopeSound
<1>1. ASSUME SealInv PROVE EnvelopeSound
  <2>1. opened # 0 => opened \in authentic
    BY <1>1 DEF SealInv, Keyed
  <2>2. ASSUME sealed # 0 PROVE Opens("pass") = sealed /\ (json.arn # NoArn => Opens("kms") = sealed)
    <3>1. /\ sealed \in Seals /\ enc = sealed /\ off = sealed /\ (json.arn = NoArn \/ kms = sealed)
          /\ sums = Listed /\ json.seal = sealed /\ mac = [key |-> sealed, over |-> Covered]
      BY <1>1, <2>2 DEF SealInv, Complete
    <3>2. Matches
      BY <3>1 DEF Matches, Listed, NoSums
    <3>3. Authentic(sealed)
      BY <3>1 DEF Authentic
    <3>4. Unwrapped("pass") = sealed /\ (json.arn # NoArn => Unwrapped("kms") = sealed)
      BY <3>1 DEF Unwrapped
    <3> QED BY <3>1, <3>2, <3>3, <3>4 DEF Opens
  <2> QED BY <2>1, <2>2 DEF EnvelopeSound
<1> QED BY <1>1, Invariance, PTL

\* Runs that do not overlap lose nothing of each other.
THEOREM ProgressKeptAlways == Spec => ProgressKept
<1>1. ASSUME LabInv, [Step]_vars, NEW k \in Keys,
             Text(env)[k] # None, Text(env')[k] # Text(env)[k]
      PROVE  \E r \in Runs : /\ at[r] = "replace" /\ at'[r] = "idle"
                             /\ k \in DOMAIN job[r] \cup missed[r]
  <2>1. env # None /\ env' # env
    BY <1>1, Texts
  <2>2. PICK r \in Runs : Link(r) \/ Replace(r)
    BY <1>1, <2>1 DEF Step, EditStep, CeremonyStep, Ceremony, vars, labVars, Edit, Provision, InitFile, Upsert,
       Read, Sync, ReadInstances, ReadAddress, Fail, Leave, Launch, Associate, Terminate, Allocate
  <2>3. Replace(r)
    BY <2>1, <2>2 DEF Link, Leave
  <2>4. at[r] = "replace" /\ at'[r] = "idle" /\ env' = Render(copy[r], job[r])
    BY <1>1, <2>3 DEF Replace, Write, LabInv, LabTypeOK
  <2>5. Text(env') = Render(copy[r], job[r])
    BY <1>1, <2>4, Rendered, Texts
  <2>6. k \in DOMAIN job[r] \/ copy[r][k] # Text(env)[k]
    BY <1>1, <2>5 DEF Render
  <2> QED BY <1>1, <2>4, <2>6 DEF LabInv, Tracked
<1>2. LabInv /\ [Step]_vars =>
        [\A k \in Keys :
           LET old == Text(env)[k] new == Text(env')[k] IN
           (old # None /\ new # old) =>
              \E r \in Runs : /\ at[r] = "replace" /\ at'[r] = "idle"
                              /\ k \in DOMAIN job[r] \cup missed[r]]_labVars
  BY <1>1
<1> QED BY <1>2, Invariance, PTL DEF Spec, ProgressKept
=============================================================================
