--------------------------- MODULE EvidenceStore ---------------------------
(***************************************************************************)
(* The durable store of absence evidence:                                  *)
(* shared/scripts/vc-evidence-store.py as observe-absence.sh (collectors)  *)
(* and vc-gate.sh (gates) drive it.  One basename owns three names of the  *)
(* evidence directory: the lock directory, the JSON document and its       *)
(* checksum.  Every run of a collector or of a gate is one process with a  *)
(* fresh token, so the process itself stands for its token and for the     *)
(* bytes it writes.                                                        *)
(*                                                                         *)
(* dir is the directory the running kernel shows; disk[n] is the set of    *)
(* values a power loss may leave under name n, which only an fsync of the  *)
(* directory narrows to one.  Helpers run one system call per step and any *)
(* of them may fail, be signalled, or be killed.                           *)
(***************************************************************************)
EXTENDS FiniteSets

CONSTANTS
  Collectors,   \* runs of observe-absence.sh
  Gates,        \* runs of vc-gate.sh
  None          \* an absent directory entry

ASSUME RunAssumption == Collectors \cap Gates = {} /\ None \notin Collectors \cup Gates

Runs    == Collectors \cup Gates
Names   == {"lock", "json", "sum"}
Kinds   == {"json", "sum"}
Entries == Runs \cup {None}

VARIABLES
  pc,         \* where each run stands
  dir,        \* directory entries, as the kernel shows them
  disk,       \* directory entries a power loss may leave
  owner,      \* token in the owner file of the lock directory, or None
  temp,       \* per run, the temporary files it has made
  synced,     \* files whose bytes were fsynced
  torn,       \* files whose bytes a power loss destroyed
  seen,       \* per gate, the pair its snapshot pinned
  withdrawn,  \* runs whose failure path was taken before the release
  accepted,   \* collectors whose collector-finish removed the lock
  retired     \* collectors whose evidence a later collector-begin discarded

fileVars == <<dir, disk, owner, temp, synced>>
vars == <<pc, dir, disk, owner, temp, synced, torn, seen, withdrawn, accepted, retired>>

---------------------------------------------------------------------------
(* Control points.  A command that fsyncs the directory moves along         *)
(* AfterSync, one that unlinks an entry along AfterUnlink.                 *)

AfterSync ==
  [mkdir |-> "created",      owned |-> "begun",          noSum |-> "observing",
   temps |-> "prepared",     sumMoved |-> "sumPublished", jsonMoved |-> "published",
   abNoSum |-> "abClean",    abNoTemps |-> "abReady",    rmdired |-> "ended"]

AfterUnlink ==
  [begun |-> "noJson", noJson |-> "noSum", abort |-> "abNoJson", abNoJson |-> "abNoSum"]

BeginPCs   == {"mkdir", "created", "owned"}
SessionPCs == {"observing", "jsonTemp", "temps", "prepared", "sumMoved",
               "sumPublished", "jsonMoved", "published"}
AbortPCs   == {"abort", "abNoJson", "abNoSum", "abClean", "abNoTemps", "abReady"}
GatePCs    == {"begun", "gotJson", "snapshotted"}
EndPCs     == {"idle", "ended", "refused", "dead"}

\* Points at which a run holds the lock (it has not yet removed the directory).
HoldPCs == BeginPCs \cup SessionPCs \cup AbortPCs \cup GatePCs
             \cup {"noJson", "noSum", "ownerGone"}
PCs     == HoldPCs \cup EndPCs \cup {"rmdired"}

Goto(p, label) == pc' = [pc EXCEPT ![p] = label]

\* A directory operation that no fsync has followed yet.
SetEntry(n, v) ==
  /\ dir'  = [dir EXCEPT ![n] = v]
  /\ disk' = [disk EXCEPT ![n] = @ \cup {v}]

\* _verified_lock: the lock directory exists and its owner file has my token.
Verified(p) == dir["lock"] # None /\ owner = p

\* The bytes a reader gets under a name; a torn file matches no run.
ReadEntry(n) == IF <<n, dir[n]>> \in torn THEN None ELSE dir[n]

Init ==
  /\ pc   = [p \in Runs |-> "idle"]
  /\ dir  = [n \in Names |-> None]
  /\ disk = [n \in Names |-> {None}]
  /\ owner = None
  /\ temp = [p \in Runs |-> {}]
  /\ synced = {} /\ torn = {}
  /\ seen = [g \in Gates |-> [json |-> None, sum |-> None]]
  /\ withdrawn = {} /\ accepted = {} /\ retired = {}

---------------------------------------------------------------------------
(* begin(): collector-begin and gate-acquire.                              *)

\* Fault variant: mkdir tolerates a lock directory that already exists.
MkdirExistOk(p) ==
  /\ pc[p] = "idle"
  /\ SetEntry("lock", p)
  /\ owner' = None
  /\ Goto(p, "mkdir")
  /\ UNCHANGED <<temp, synced, torn, seen, withdrawn, accepted, retired>>

Mkdir(p) ==
  /\ pc[p] = "idle"
  /\ dir["lock"] = None
  /\ SetEntry("lock", p)
  /\ owner' = None
  /\ Goto(p, "mkdir")
  /\ UNCHANGED <<temp, synced, torn, seen, withdrawn, accepted, retired>>

\* observation_already_in_progress: the caller exits without the lock.
Refuse(p) ==
  /\ pc[p] = "idle"
  /\ dir["lock"] # None
  /\ Goto(p, "refused")
  /\ UNCHANGED <<fileVars, torn, seen, withdrawn, accepted, retired>>

\* Fault variant: the owner file is created but its token is never written.
CreateOwnerEmpty(p) ==
  /\ pc[p] = "created"
  /\ owner' = "empty"
  /\ Goto(p, "owned")
  /\ UNCHANGED <<dir, disk, temp, synced, torn, seen, withdrawn, accepted, retired>>

\* Token written and fsynced inside the lock directory, then the lock
\* directory itself fsynced.
CreateOwner(p) ==
  /\ pc[p] = "created"
  /\ owner' = p
  /\ Goto(p, "owned")
  /\ UNCHANGED <<dir, disk, temp, synced, torn, seen, withdrawn, accepted, retired>>

\* Fault variant: the fsync of the directory is skipped.
SyncRootSkipped(p) ==
  /\ pc[p] \in DOMAIN AfterSync
  /\ Goto(p, AfterSync[pc[p]])
  /\ retired' = IF pc[p] = "noSum" THEN retired \cup accepted ELSE retired
  /\ UNCHANGED <<fileVars, torn, seen, withdrawn, accepted>>

\* fsync of the evidence directory: what the kernel shows is now durable.
\* The one that ends an invalidating begin() is when the earlier evidence is
\* discarded for good and the token is handed to the observer.
SyncRoot(p) ==
  /\ pc[p] \in DOMAIN AfterSync
  /\ disk' = [n \in Names |-> {dir[n]}]
  /\ Goto(p, AfterSync[pc[p]])
  /\ retired' = IF pc[p] = "noSum" THEN retired \cup accepted ELSE retired
  /\ UNCHANGED <<dir, owner, temp, synced, torn, seen, withdrawn, accepted>>

\* _unlink_regular of the JSON, then of the checksum: by an invalidating
\* begin() and by abort(), which verifies the token first.
UnlinkEntry(p) ==
  /\ p \in Collectors
  /\ pc[p] \in DOMAIN AfterUnlink
  /\ pc[p] = "abort" => Verified(p)
  /\ SetEntry(IF pc[p] \in {"begun", "abort"} THEN "json" ELSE "sum", None)
  /\ Goto(p, AfterUnlink[pc[p]])
  /\ UNCHANGED <<owner, temp, synced, torn, seen, withdrawn, accepted, retired>>

---------------------------------------------------------------------------
(* prepare(), commit_checksum(), commit_json().                            *)

\* Both temporary files are written and fsynced, JSON first; a leftover of
\* the same token is unlinked before.
WriteTemp(p) ==
  /\ \/ pc[p] = "observing" /\ Verified(p) /\ Goto(p, "jsonTemp")
        /\ temp' = [temp EXCEPT ![p] = {"json"}]
        /\ synced' = synced \cup {<<"json", p>>}
     \/ pc[p] = "jsonTemp" /\ Goto(p, "temps")
        /\ temp' = [temp EXCEPT ![p] = @ \cup {"sum"}]
        /\ synced' = synced \cup {<<"sum", p>>}
  /\ UNCHANGED <<dir, disk, owner, torn, seen, withdrawn, accepted, retired>>

\* The rename of a temporary file over a destination that must not exist.
Publish(p, n) ==
  /\ Verified(p)
  /\ n \in temp[p]
  /\ dir[n] = None
  /\ SetEntry(n, p)
  /\ temp' = [temp EXCEPT ![p] = @ \ {n}]
  /\ UNCHANGED <<owner, synced, torn, seen, withdrawn, accepted, retired>>

CommitChecksum(p) ==
  /\ pc[p] = "prepared"
  /\ Publish(p, "sum")
  /\ Goto(p, "sumMoved")

CommitJson(p) ==
  /\ pc[p] = "sumPublished"
  /\ dir["sum"] # None
  /\ Publish(p, "json")
  /\ Goto(p, "jsonMoved")

---------------------------------------------------------------------------
(* abort() and release().                                                  *)

UnlinkTemps(p) ==
  /\ pc[p] = "abClean"
  /\ temp' = [temp EXCEPT ![p] = {}]
  /\ Goto(p, "abNoTemps")
  /\ UNCHANGED <<dir, disk, owner, synced, torn, seen, withdrawn, accepted, retired>>

\* First half of release(): by collector-finish, by the end of abort(), and
\* by gate-release.
UnlinkOwner(p) ==
  /\ pc[p] \in {"published", "abReady", "snapshotted"}
  /\ Verified(p)
  /\ owner' = None
  /\ Goto(p, "ownerGone")
  /\ UNCHANGED <<dir, disk, temp, synced, torn, seen, withdrawn, accepted, retired>>

Rmdir(p) ==
  /\ pc[p] = "ownerGone"
  /\ SetEntry("lock", None)
  /\ accepted' = IF p \in Collectors \ withdrawn THEN accepted \cup {p} ELSE accepted
  /\ Goto(p, "rmdired")
  /\ UNCHANGED <<owner, temp, synced, torn, seen, withdrawn, retired>>

---------------------------------------------------------------------------
(* The gate's snapshot: the pair is opened by name, JSON first, and read   *)
(* through the pinned descriptors.                                         *)

\* Fault variant: the snapshot is taken before gate-acquire.
GateReadUnlocked(g) ==
  /\ \/ pc[g] = "idle" /\ seen[g].json = None
        /\ seen' = [seen EXCEPT ![g].json = ReadEntry("json"), ![g].sum = ReadEntry("sum")]
        /\ UNCHANGED pc
     \/ pc[g] = "begun" /\ Goto(g, "gotJson") /\ UNCHANGED seen
     \/ pc[g] = "gotJson" /\ Goto(g, "snapshotted") /\ UNCHANGED seen
  /\ UNCHANGED <<fileVars, torn, withdrawn, accepted, retired>>

GateRead(g) ==
  /\ \/ pc[g] = "begun" /\ Goto(g, "gotJson")
        /\ seen' = [seen EXCEPT ![g].json = ReadEntry("json")]
     \/ pc[g] = "gotJson" /\ Goto(g, "snapshotted")
        /\ seen' = [seen EXCEPT ![g].sum = ReadEntry("sum")]
  /\ UNCHANGED <<fileVars, torn, withdrawn, accepted, retired>>

\* GATE=PASS as far as the evidence pair goes: nothing failed, the lock was
\* durably released, and the checksum is that of the JSON read.
Passed(g) ==
  /\ pc[g] = "ended" /\ g \notin withdrawn
  /\ seen[g].json # None /\ seen[g].json = seen[g].sum

---------------------------------------------------------------------------
(* Failures.                                                               *)

\* Fault variant: abort is forgotten, the lock is released over what is there.
FailNoAbort(p) ==
  /\ \/ p \in Collectors /\ pc[p] \in SessionPCs /\ Goto(p, "abReady")
     \/ p \in Gates /\ pc[p] \in GatePCs /\ Goto(p, "snapshotted")
  /\ withdrawn' = withdrawn \cup {p}
  /\ UNCHANGED <<fileVars, torn, seen, accepted, retired>>

\* An error or a signal while the caller knows its token: the observer's EXIT
\* trap runs collector-abort, the gate records a failure and still releases.
Fail(p) ==
  /\ \/ p \in Collectors /\ pc[p] \in SessionPCs /\ Goto(p, "abort")
     \/ p \in Gates /\ pc[p] \in GatePCs /\ Goto(p, "snapshotted")
  /\ withdrawn' = withdrawn \cup {p}
  /\ UNCHANGED <<fileVars, torn, seen, accepted, retired>>

\* SIGKILL at any point, and an error where nobody will clean up: inside
\* begin() (the caller never learns the token), inside abort(), inside the
\* exec'ed collector-finish and inside gate-release.
Kill(p) ==
  /\ pc[p] \notin EndPCs
  /\ Goto(p, "dead")
  /\ UNCHANGED <<fileVars, torn, seen, withdrawn, accepted, retired>>

\* Directories a power loss may leave, and the files it may then tear.
Images == {d \in [Names -> Entries] : \A n \in Names : d[n] \in disk[n]}
Tearable(d) ==
  {f \in (Kinds \X Collectors) \ synced : f[1] \in temp[f[2]] \/ d[f[1]] = f[2]}

\* The host loses power: every process is gone and the directory comes back
\* as one of the images.
Crash ==
  /\ dir' \in Images
  /\ disk' = [n \in Names |-> {dir'[n]}]
  /\ \E lost \in SUBSET Tearable(dir') : torn' = torn \cup lost
  /\ pc' = [p \in Runs |-> IF pc[p] \in EndPCs THEN pc[p] ELSE "dead"]
  /\ UNCHANGED <<owner, temp, synced, seen, withdrawn, accepted, retired>>

---------------------------------------------------------------------------
CollectorStep(p) == WriteTemp(p) \/ CommitChecksum(p) \/ CommitJson(p) \/ UnlinkTemps(p)

\* One step of run p that the code takes by itself.
Step(p) ==
  \/ Mkdir(p) \/ Refuse(p) \/ CreateOwner(p) \/ SyncRoot(p) \/ UnlinkEntry(p)
  \/ UnlinkOwner(p) \/ Rmdir(p)
  \/ p \in Collectors /\ CollectorStep(p)
  \/ p \in Gates /\ GateRead(p)

Next ==
  \/ \E p \in Runs : Step(p) \/ Fail(p) \/ Kill(p)
  \/ Crash

Spec == Init /\ [][Next]_vars

---------------------------------------------------------------------------
(* Properties.                                                             *)

\* Every variable keeps its type.
TypeOK ==
  /\ pc \in [Runs -> PCs]
  /\ dir \in [Names -> Entries]
  /\ disk \in [Names -> SUBSET Entries]
  /\ owner \in Entries
  /\ temp \in [Runs -> SUBSET Kinds]
  /\ synced \subseteq Kinds \X Collectors /\ torn \subseteq Kinds \X Collectors
  /\ seen \in [Gates -> [json : Entries, sum : Entries]]
  /\ withdrawn \subseteq Runs
  /\ accepted \subseteq Collectors /\ retired \subseteq Collectors

\* A directory whose evidence a reader may take at face value.
Complete(d) ==
  /\ d["json"] = d["sum"]
  /\ d["json"] # None => /\ d["json"] \in accepted
                         /\ {<<"json", d["json"]>>, <<"sum", d["json"]>>} \subseteq synced

\* "Every crash transition is durable and fail closed": in the directory the
\* kernel shows, and in every directory a power loss could leave at this
\* moment, either the lock is there or the pair is whole: both files of one
\* collector that reached its final commit, or neither.
FailClosed == \A d \in Images \cup {dir} : d["lock"] = None => Complete(d)

\* A gate passes only on evidence whose collector finished: never on that of
\* a run that was aborted, killed before the commit point, or torn.
PassOnlyAccepted == \A g \in Gates : Passed(g) => seen[g].json \in accepted \ withdrawn

\* Once collector-begin has handed out its token, evidence that was there
\* before is gone for good: no power loss brings it back.
NoResurrection == \A d \in Images : d["json"] \notin retired

\* The pair does not move under a gate between gate-acquire and gate-release.
SnapshotStable ==
  [][\A g \in Gates : pc[g] \in GatePCs /\ pc'[g] \in GatePCs
       => \A n \in Kinds : dir'[n] = dir[n]]_vars

\* A durable lock left by a dead run is never removed, by anyone or by a
\* further power loss.
OrphanLockStays ==
  [][\A p \in Runs : pc[p] = "dead" /\ disk["lock"] = {p} => dir'["lock"] = p]_vars
=============================================================================
