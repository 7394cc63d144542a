----------------------------- MODULE StateFile -----------------------------
(***************************************************************************)
(* The file of the Active-Standby state document under concurrent runs of  *)
(* shared/scripts/transition-active-standby-state.py: main(), lock_file(), *)
(* write_bytes_atomic(), fsync_parent() and atomic_write().                *)
(*                                                                         *)
(* A document is the sequence of the runs whose transitions it contains,   *)
(* so its length is its state_version.  An operator reads the document     *)
(* without the lock and prepares a request against the version found.      *)
(* file is what the kernel shows under the document's name, disk the       *)
(* contents a power loss may leave there.  Any system call of a run may    *)
(* fail, and a run may be killed at any point.                             *)
(***************************************************************************)
EXTENDS Naturals, Sequences

CONSTANTS
  Runs,   \* runs of the transition authority
  Nobody

ASSUME NobodyAssumption == Nobody \notin Runs

VARIABLES
  pc,       \* where each run stands
  file,     \* the document, as the kernel shows it
  disk,     \* the documents a power loss may leave
  lock,     \* holder of the flock, or Nobody
  saw,      \* per run, the document its request was prepared against
  base,     \* per run, the document it read under the lock
  undone,   \* documents that were visible and then taken back (history)
  stuck     \* runs whose rollback failed (history)

vars == <<pc, file, disk, lock, saw, base, undone, stuck>>

Elements(doc) == {doc[i] : i \in DOMAIN doc}

RunningPCs == {"prepared", "locked", "temp", "replace", "moved", "rollback", "restored",
               "passing", "failing"}
EndPCs     == {"passed", "failed", "dead"}
Holding    == RunningPCs \ {"prepared"}     \* between lock_file() and the release

Goto(p, label) == pc' = [pc EXCEPT ![p] = label]

\* The name now refers to doc; no fsync of the directory yet.
SetFile(doc) == file' = doc /\ disk' = disk \cup {doc}

Init ==
  /\ pc = [p \in Runs |-> "idle"]
  /\ file = <<>> /\ disk = {<<>>}
  /\ lock = Nobody
  /\ saw = [p \in Runs |-> <<>>] /\ base = [p \in Runs |-> <<>>]
  /\ undone = {} /\ stuck = {}

---------------------------------------------------------------------------
\* The operator writes expected_state_version from the document as it stands.
Prepare(p) ==
  /\ pc[p] = "idle"
  /\ saw' = [saw EXCEPT ![p] = file]
  /\ Goto(p, "prepared")
  /\ UNCHANGED <<file, disk, lock, base, undone, stuck>>

\* Fault variant: the flock does not exclude anybody.
LockShared(p) ==
  /\ pc[p] = "prepared"
  /\ lock' = p
  /\ Goto(p, "locked")
  /\ UNCHANGED <<file, disk, saw, base, undone, stuck>>

\* lock_file: LOCK_EX on a lock file that is never removed.
Lock(p) ==
  /\ pc[p] = "prepared"
  /\ lock = Nobody
  /\ lock' = p
  /\ Goto(p, "locked")
  /\ UNCHANGED <<file, disk, saw, base, undone, stuck>>

\* Opening or locking the lock file fails.
LockFails(p) ==
  /\ pc[p] = "prepared"
  /\ Goto(p, "failed")
  /\ UNCHANGED <<file, disk, lock, saw, base, undone, stuck>>

\* Fault variant: expected_state_version is not compared.
LoadUnchecked(p) ==
  /\ pc[p] = "locked"
  /\ base' = [base EXCEPT ![p] = file]
  /\ Goto(p, "temp")
  /\ UNCHANGED <<file, disk, lock, saw, undone, stuck>>

\* Read under the lock; expected_state_version must match, and transition()
\* must admit the request.
Load(p) ==
  /\ pc[p] = "locked"
  /\ Len(saw[p]) = Len(file)
  /\ base' = [base EXCEPT ![p] = file]
  /\ Goto(p, "temp")
  /\ UNCHANGED <<file, disk, lock, saw, undone, stuck>>

\* expected_version_mismatch, or any other TransitionError.
Refuse(p) ==
  /\ pc[p] = "locked"
  /\ Goto(p, "failing")
  /\ UNCHANGED <<file, disk, lock, saw, base, undone, stuck>>

\* write_bytes_atomic up to the fsync of the temporary file.
WriteTemp(p) ==
  /\ pc[p] = "temp"
  /\ Goto(p, "replace")
  /\ UNCHANGED <<file, disk, lock, saw, base, undone, stuck>>

Replace(p) ==
  /\ pc[p] = "replace"
  /\ SetFile(Append(base[p], p))
  /\ Goto(p, "moved")
  /\ UNCHANGED <<lock, saw, base, undone, stuck>>

\* An OSError before the replace: nothing to take back.
WriteFails(p) ==
  /\ pc[p] \in {"temp", "replace"}
  /\ Goto(p, "failing")
  /\ UNCHANGED <<file, disk, lock, saw, base, undone, stuck>>

\* Fault variant: fsync_parent is left out.
SyncParentSkipped(p) ==
  /\ pc[p] = "moved"
  /\ Goto(p, "passing")
  /\ UNCHANGED <<file, disk, lock, saw, base, undone, stuck>>

SyncParent(p) ==
  /\ pc[p] = "moved"
  /\ disk' = {file}
  /\ Goto(p, "passing")
  /\ UNCHANGED <<file, lock, saw, base, undone, stuck>>

SyncParentFails(p) ==
  /\ pc[p] = "moved"
  /\ Goto(p, "rollback")
  /\ UNCHANGED <<file, disk, lock, saw, base, undone, stuck>>

\* atomic_write's handler: the prior bytes are written back.
Restore(p) ==
  /\ pc[p] = "rollback"
  /\ SetFile(base[p])
  /\ undone' = undone \cup {file}
  /\ Goto(p, "restored")
  /\ UNCHANGED <<lock, saw, base, stuck>>

\* Fault variant: the restored name is not fsynced.
SyncRestoredSkipped(p) ==
  /\ pc[p] = "restored"
  /\ Goto(p, "failing")
  /\ UNCHANGED <<file, disk, lock, saw, base, undone, stuck>>

SyncRestored(p) ==
  /\ pc[p] = "restored"
  /\ disk' = {file}
  /\ Goto(p, "failing")
  /\ UNCHANGED <<file, lock, saw, base, undone, stuck>>

\* The second OSError is swallowed, whichever call raises it.
RollbackFails(p) ==
  /\ pc[p] \in {"rollback", "restored"}
  /\ stuck' = stuck \cup {p}
  /\ Goto(p, "failing")
  /\ UNCHANGED <<file, disk, lock, saw, base, undone>>

\* finally: unlock; then the verdict is reported.
Release(p) ==
  /\ pc[p] \in {"passing", "failing"}
  /\ lock' = Nobody
  /\ Goto(p, IF pc[p] = "passing" THEN "passed" ELSE "failed")
  /\ UNCHANGED <<file, disk, saw, base, undone, stuck>>

\* The kernel drops the flock of a killed run.
Kill(p) ==
  /\ pc[p] \in RunningPCs
  /\ lock' = IF lock = p THEN Nobody ELSE lock
  /\ Goto(p, "dead")
  /\ UNCHANGED <<file, disk, saw, base, undone, stuck>>

PowerLoss ==
  /\ \E doc \in disk :
       /\ file' = doc /\ disk' = {doc}
       /\ undone' = undone \cup ({file} \ {doc})
  /\ pc' = [p \in Runs |-> IF pc[p] \in RunningPCs THEN "dead" ELSE pc[p]]
  /\ lock' = Nobody
  /\ UNCHANGED <<saw, base, stuck>>

Work(p) ==
  \/ Lock(p) \/ Load(p) \/ Refuse(p)
  \/ WriteTemp(p) \/ Replace(p) \/ SyncParent(p)
  \/ Restore(p) \/ SyncRestored(p)
  \/ Release(p)

Fault(p) ==
  LockFails(p) \/ WriteFails(p) \/ SyncParentFails(p) \/ RollbackFails(p) \/ Kill(p)

Next == (\E p \in Runs : Prepare(p) \/ Work(p) \/ Fault(p)) \/ PowerLoss

Spec == Init /\ [][Next]_vars

---------------------------------------------------------------------------
(* Properties.                                                             *)

\* Runs move through main()'s steps, documents are sequences of runs, and the
\* flock belongs to the run between lock_file() and its release: never two there.
TypeOK ==
  /\ pc \in [Runs -> {"idle"} \cup RunningPCs \cup EndPCs]
  /\ file \in Seq(Runs) /\ disk \subseteq Seq(Runs) /\ file \in disk
  /\ lock \in Runs \cup {Nobody}
  /\ \A p \in Runs : pc[p] \in Holding <=> lock = p
  /\ saw \in [Runs -> Seq(Runs)] /\ base \in [Runs -> Seq(Runs)]
  /\ undone \subseteq Seq(Runs) /\ stuck \subseteq Runs

Prefix(s, t) == Len(s) <= Len(t) /\ \A i \in 1..Len(s) : s[i] = t[i]

\* ACTIVE_STANDBY_TRANSITION=PASS is durable: the document, as the run left it,
\* is the beginning of every later one, through later runs, their rollbacks,
\* kills and power losses.  What was reported is never taken out or rewritten.
PassIsDurable ==
  \A p \in Runs : pc[p] = "passed" => \A doc \in disk : Prefix(Append(base[p], p), doc)

\* Of the runs prepared against one version at most one passes, however they
\* interleave, and whatever rollbacks and power losses took back in between.
OneWinnerPerVersion ==
  \A p, q \in Runs :
    (p # q /\ pc[p] = "passed" /\ pc[q] = "passed") => Len(saw[p]) # Len(saw[q])

\* A request takes effect on the document its operator looked at.  The check
\* is on the version alone, so this needs that the document was not taken back
\* in between: a run whose rollback, or a power loss, withdrew it lets another
\* document reach the same version.
AppliedToWhatWasSeen ==
  \A p \in Runs : pc[p] = "passed" => (saw[p] = base[p] \/ saw[p] \in undone)

\* A transition that was rolled back stays out: of a run that reported FAIL,
\* unless its rollback failed, no document on disk has anything, so that no
\* power loss brings back what was refused.
RolledBackForGood ==
  \A p \in Runs : pc[p] = "failed" /\ p \notin stuck => \A doc \in disk : p \notin Elements(doc)

\* What assert_fail of test_active_standby_state_contract.py expects of every
\* FAIL: the document is as it was before, the refused transition is not in it.
FailLeavesDocument ==
  \A p \in Runs : pc[p] = "failed" => p \notin Elements(file)
=============================================================================
