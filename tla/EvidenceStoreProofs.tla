------------------------ MODULE EvidenceStoreProofs ------------------------
(***************************************************************************)
(* Proofs about EvidenceStore for every number of collectors and gates.    *)
(* IInv records what the directory and the disk hold at each control point *)
(* of the run that owns the lock; the published properties follow from it. *)
(***************************************************************************)
EXTENDS EvidenceStore, TLAPS

\* The pair is whole, on disk as in the kernel: one accepted collector's
\* files with their bytes fsynced, or nothing.
SettledAt(v) ==
  /\ disk["json"] = {v} /\ disk["sum"] = {v}
  /\ v # None => {<<"json", v>>, <<"sum", v>>} \subseteq synced

Settled == \E v \in accepted \cup {None} : SettledAt(v)

\* The kernel's view is one of the views a power loss may leave.
DirOnDisk == \A n \in Names : dir[n] \in disk[n]

\* Runs stay at the control points of their own role.
RoleInv ==
  \A p \in Runs :
    /\ p \in Gates => pc[p] \in BeginPCs \cup GatePCs \cup {"ownerGone", "rmdired"} \cup EndPCs
    /\ p \in Collectors => pc[p] \notin {"gotJson", "snapshotted"}

\* A run between mkdir and rmdir owns the lock, durably from its first fsync on.
HolderInv ==
  \A p \in Runs : pc[p] \in HoldPCs =>
    /\ dir["lock"] = p
    /\ pc[p] # "mkdir" => disk["lock"] = {p}

\* Wherever a power loss could leave no lock, the pair is settled; it also is
\* while a gate, or a collector that has discarded nothing yet, holds the lock.
SettledInv ==
  /\ None \in disk["lock"] => Settled
  /\ \A p \in Runs :
       \/ pc[p] \in BeginPCs \cup {"begun"}
       \/ p \in Gates /\ pc[p] \in HoldPCs
       => Settled

EmptyDisk == disk["json"] = {None} /\ disk["sum"] = {None}
Synced(p) == {<<"json", p>>, <<"sum", p>>} \subseteq synced

\* What the pair looks like at each point of a collector's critical section.
Phase(p) ==
  /\ pc[p] = "noJson" => dir["json"] = None
  /\ pc[p] = "noSum" => dir["json"] = None /\ dir["sum"] = None
  /\ pc[p] \in {"observing", "jsonTemp", "temps", "prepared"} => EmptyDisk
  /\ pc[p] = "jsonTemp" => <<"json", p>> \in synced
  /\ pc[p] \in {"temps", "prepared", "sumMoved", "sumPublished", "jsonMoved", "published"}
         => Synced(p)
  /\ pc[p] = "sumMoved" => disk["json"] = {None} /\ dir["sum"] = p
  /\ pc[p] = "sumPublished" => disk["json"] = {None} /\ disk["sum"] = {p}
  /\ pc[p] = "jsonMoved" => dir["json"] = p /\ disk["sum"] = {p}
                              /\ disk["json"] \subseteq {None, p}
  /\ pc[p] = "published" => SettledAt(p)
  /\ pc[p] = "abNoJson" => dir["json"] = None
  /\ pc[p] = "abNoSum" => dir["json"] = None /\ dir["sum"] = None
  /\ pc[p] \in {"abClean", "abNoTemps", "abReady"} => EmptyDisk
  /\ pc[p] = "ownerGone" => IF p \in withdrawn THEN EmptyDisk ELSE SettledAt(p)

PhaseInv == \A p \in Collectors : Phase(p)

\* The ghosts: a run is withdrawn exactly on its failure path, accepted only
\* past its rmdir, retired only once accepted; what a gate has read was
\* accepted, and no retired file can come back.
GhostRuns ==
  \A p \in Collectors :
    /\ pc[p] \in BeginPCs \cup SessionPCs \cup {"idle", "begun", "noJson", "noSum"}
         => p \notin withdrawn
    /\ pc[p] \in AbortPCs => p \in withdrawn
    /\ pc[p] \in HoldPCs \cup {"idle"} => p \notin accepted

GhostSets ==
  /\ accepted \cap withdrawn = {}
  /\ retired \subseteq accepted
  /\ disk["json"] \cap retired = {}

SeenInv == \A g \in Gates : seen[g].json \in accepted \cup {None}

IInv == TypeOK /\ DirOnDisk /\ RoleInv /\ HolderInv /\ SettledInv /\ PhaseInv
          /\ GhostRuns /\ GhostSets /\ SeenInv

---------------------------------------------------------------------------
(* The vocabulary of control points and names is expanded everywhere.      *)
USE RunAssumption
    DEF Runs, Names, Kinds, Entries, Goto, SetEntry,
        PCs, HoldPCs, BeginPCs, SessionPCs, AbortPCs, GatePCs, EndPCs

LEMMA InitInv == Init => IInv
  BY DEF Init, IInv, TypeOK, DirOnDisk, RoleInv, HolderInv, SettledInv, Settled,
     SettledAt, PhaseInv, Phase, EmptyDisk, Synced, GhostRuns, GhostSets, SeenInv

\* Two runs are never both inside the critical section.
LEMMA HolderAlone ==
  ASSUME HolderInv, NEW x \in Runs, NEW y \in Runs,
         pc[x] \in HoldPCs, pc[y] \in HoldPCs
  PROVE  x = y
  BY DEF HolderInv

\* Taking the lock: mkdir succeeds only where no lock is, so the pair is settled.
LEMMA MkdirInv ==
  ASSUME IInv, NEW p \in Runs, Mkdir(p)
  PROVE  IInv'
<1>1. TypeOK'
  BY DEF IInv, Mkdir, TypeOK
<1>2. DirOnDisk'
  BY DEF IInv, Mkdir, TypeOK, DirOnDisk
<1>3. RoleInv'
  BY DEF IInv, Mkdir, TypeOK, RoleInv
<1>4. HolderInv'
  BY DEF IInv, Mkdir, TypeOK, DirOnDisk, HolderInv
<1>5. SettledInv'
  BY DEF IInv, Mkdir, TypeOK, DirOnDisk, RoleInv, HolderInv, SettledInv,
     Settled, SettledAt, PhaseInv, Phase, EmptyDisk, Synced, GhostRuns
<1>6. PhaseInv'
  <2> SUFFICES ASSUME NEW q \in Collectors PROVE Phase(q)'
    BY DEF PhaseInv
  <2>1. CASE q = p
    BY <2>1 DEF IInv, Mkdir, TypeOK, DirOnDisk, RoleInv, HolderInv,
       SettledInv, Settled, SettledAt, PhaseInv, Phase, EmptyDisk, Synced,
       GhostRuns
  <2>2. CASE q # p
    <3>1. pc'[q] = pc[q]
      BY <2>2 DEF IInv, Mkdir, TypeOK
    <3>2. CASE pc[q] \notin HoldPCs
      BY <3>1, <3>2 DEF Phase
    <3>3. CASE pc[q] \in HoldPCs
      BY <2>2, <3>1, <3>3, HolderAlone DEF IInv, Mkdir, TypeOK, DirOnDisk,
         RoleInv, HolderInv, SettledInv, Settled, SettledAt, PhaseInv, Phase,
         EmptyDisk, Synced, GhostRuns
    <3>q. QED BY <3>2, <3>3
  <2>q. QED BY <2>1, <2>2
<1>7. GhostRuns'
  BY DEF IInv, Mkdir, TypeOK, RoleInv, HolderInv, GhostRuns
<1>8. GhostSets'
  BY DEF IInv, Mkdir, TypeOK, DirOnDisk, RoleInv, PhaseInv, Phase,
     SettledAt, EmptyDisk, Synced, GhostRuns, GhostSets
<1>9. SeenInv'
  BY DEF IInv, Mkdir, TypeOK, DirOnDisk, SettledInv, Settled, SettledAt,
     SeenInv
<1>q. QED BY <1>1, <1>2, <1>3, <1>4, <1>5, <1>6, <1>7, <1>8, <1>9 DEF IInv

\* A run that finds the lock leaves everything alone.
LEMMA RefuseInv ==
  ASSUME IInv, NEW p \in Runs, Refuse(p)
  PROVE  IInv'
<1>1. TypeOK'
  BY DEF IInv, Refuse, fileVars, TypeOK
<1>2. DirOnDisk'
  BY DEF IInv, Refuse, fileVars, TypeOK, DirOnDisk
<1>3. RoleInv'
  BY DEF IInv, Refuse, fileVars, TypeOK, RoleInv
<1>4. HolderInv'
  BY DEF IInv, Refuse, fileVars, TypeOK, DirOnDisk, HolderInv
<1>5. SettledInv'
  <2>1. Settled => Settled'
    BY DEF Refuse, fileVars, Settled, SettledAt
  <2>2. Settled' => SettledInv'
    BY DEF SettledInv
  <2>q. QED BY <2>1, <2>2 DEF IInv, Refuse, fileVars, TypeOK, RoleInv,
               HolderInv, SettledInv
<1>6. PhaseInv'
  <2> SUFFICES ASSUME NEW q \in Collectors PROVE Phase(q)'
    BY DEF PhaseInv
  <2>1. CASE q = p
    BY <2>1 DEF IInv, Refuse, fileVars, TypeOK, DirOnDisk, RoleInv,
       HolderInv, SettledInv, Settled, SettledAt, PhaseInv, Phase, EmptyDisk,
       Synced, GhostRuns
  <2>2. CASE q # p
    <3>1. pc'[q] = pc[q]
      BY <2>2 DEF IInv, Refuse, fileVars, TypeOK
    <3>2. CASE pc[q] \notin HoldPCs
      BY <3>1, <3>2 DEF Phase
    <3>3. CASE pc[q] \in HoldPCs
      BY <2>2, <3>1, <3>3, HolderAlone DEF IInv, Refuse, fileVars, TypeOK,
         DirOnDisk, RoleInv, HolderInv, SettledInv, Settled, SettledAt,
         PhaseInv, Phase, EmptyDisk, Synced, GhostRuns
    <3>q. QED BY <3>2, <3>3
  <2>q. QED BY <2>1, <2>2
<1>7. GhostRuns'
  BY DEF IInv, Refuse, fileVars, TypeOK, RoleInv, HolderInv, GhostRuns
<1>8. GhostSets'
  BY DEF IInv, Refuse, fileVars, TypeOK, DirOnDisk, RoleInv, PhaseInv,
     Phase, SettledAt, EmptyDisk, Synced, GhostRuns, GhostSets
<1>9. SeenInv'
  BY DEF IInv, Refuse, fileVars, TypeOK, DirOnDisk, SettledInv, Settled,
     SettledAt, SeenInv
<1>q. QED BY <1>1, <1>2, <1>3, <1>4, <1>5, <1>6, <1>7, <1>8, <1>9 DEF IInv

\* Writing the token touches neither the pair nor the lock entry.
LEMMA CreateOwnerInv ==
  ASSUME IInv, NEW p \in Runs, CreateOwner(p)
  PROVE  IInv'
<1>1. TypeOK'
  BY DEF IInv, CreateOwner, TypeOK
<1>2. DirOnDisk'
  BY DEF IInv, CreateOwner, TypeOK, DirOnDisk
<1>3. RoleInv'
  BY DEF IInv, CreateOwner, TypeOK, RoleInv
<1>4. HolderInv'
  BY DEF IInv, CreateOwner, TypeOK, DirOnDisk, HolderInv
<1>5. SettledInv'
  <2>1. Settled => Settled'
    BY DEF CreateOwner, Settled, SettledAt
  <2>2. Settled' => SettledInv'
    BY DEF SettledInv
  <2>q. QED BY <2>1, <2>2 DEF IInv, CreateOwner, TypeOK, RoleInv, HolderInv,
               SettledInv
<1>6. PhaseInv'
  <2> SUFFICES ASSUME NEW q \in Collectors PROVE Phase(q)'
    BY DEF PhaseInv
  <2>1. CASE q = p
    BY <2>1 DEF IInv, CreateOwner, TypeOK, DirOnDisk, RoleInv, HolderInv,
       SettledInv, Settled, SettledAt, PhaseInv, Phase, EmptyDisk, Synced,
       GhostRuns
  <2>2. CASE q # p
    <3>1. pc'[q] = pc[q]
      BY <2>2 DEF IInv, CreateOwner, TypeOK
    <3>2. CASE pc[q] \notin HoldPCs
      BY <3>1, <3>2 DEF Phase
    <3>3. CASE pc[q] \in HoldPCs
      BY <2>2, <3>1, <3>3, HolderAlone DEF IInv, CreateOwner, TypeOK,
         DirOnDisk, RoleInv, HolderInv, SettledInv, Settled, SettledAt,
         PhaseInv, Phase, EmptyDisk, Synced, GhostRuns
    <3>q. QED BY <3>2, <3>3
  <2>q. QED BY <2>1, <2>2
<1>7. GhostRuns'
  BY DEF IInv, CreateOwner, TypeOK, RoleInv, HolderInv, GhostRuns
<1>8. GhostSets'
  BY DEF IInv, CreateOwner, TypeOK, DirOnDisk, RoleInv, PhaseInv, Phase,
     SettledAt, EmptyDisk, Synced, GhostRuns, GhostSets
<1>9. SeenInv'
  BY DEF IInv, CreateOwner, TypeOK, DirOnDisk, SettledInv, Settled,
     SettledAt, SeenInv
<1>q. QED BY <1>1, <1>2, <1>3, <1>4, <1>5, <1>6, <1>7, <1>8, <1>9 DEF IInv

\* Unlinking a file of the pair: only under a durable lock.
LEMMA UnlinkEntryInv ==
  ASSUME IInv, NEW p \in Runs, UnlinkEntry(p)
  PROVE  IInv'
<1>1. TypeOK'
  BY DEF IInv, UnlinkEntry, AfterUnlink, TypeOK
<1>2. DirOnDisk'
  BY DEF IInv, UnlinkEntry, AfterUnlink, TypeOK, DirOnDisk
<1>3. RoleInv'
  BY DEF IInv, UnlinkEntry, AfterUnlink, TypeOK, RoleInv
<1>4. HolderInv'
  BY DEF IInv, UnlinkEntry, AfterUnlink, TypeOK, DirOnDisk, HolderInv
<1>5. SettledInv'
  BY DEF IInv, UnlinkEntry, AfterUnlink, TypeOK, DirOnDisk, RoleInv,
     HolderInv, SettledInv, Settled, SettledAt, PhaseInv, Phase, EmptyDisk,
     Synced, GhostRuns
<1>6. PhaseInv'
  <2> SUFFICES ASSUME NEW q \in Collectors PROVE Phase(q)'
    BY DEF PhaseInv
  <2>1. CASE q = p
    BY <2>1 DEF IInv, UnlinkEntry, AfterUnlink, TypeOK, DirOnDisk, RoleInv,
       HolderInv, SettledInv, Settled, SettledAt, PhaseInv, Phase, EmptyDisk,
       Synced, GhostRuns
  <2>2. CASE q # p
    <3>1. pc'[q] = pc[q]
      BY <2>2 DEF IInv, UnlinkEntry, AfterUnlink, TypeOK
    <3>2. CASE pc[q] \notin HoldPCs
      BY <3>1, <3>2 DEF Phase
    <3>3. CASE pc[q] \in HoldPCs
      BY <2>2, <3>1, <3>3, HolderAlone DEF IInv, UnlinkEntry, AfterUnlink,
         TypeOK, DirOnDisk, RoleInv, HolderInv, SettledInv, Settled, SettledAt,
         PhaseInv, Phase, EmptyDisk, Synced, GhostRuns
    <3>q. QED BY <3>2, <3>3
  <2>q. QED BY <2>1, <2>2
<1>7. GhostRuns'
  BY DEF IInv, UnlinkEntry, AfterUnlink, TypeOK, RoleInv, HolderInv,
     GhostRuns
<1>8. GhostSets'
  BY DEF IInv, UnlinkEntry, AfterUnlink, TypeOK, DirOnDisk, RoleInv,
     PhaseInv, Phase, SettledAt, EmptyDisk, Synced, GhostRuns, GhostSets
<1>9. SeenInv'
  BY DEF IInv, UnlinkEntry, AfterUnlink, TypeOK, DirOnDisk, SettledInv,
     Settled, SettledAt, SeenInv
<1>q. QED BY <1>1, <1>2, <1>3, <1>4, <1>5, <1>6, <1>7, <1>8, <1>9 DEF IInv

\* An fsync narrows every name to what the kernel shows; by whichever run, it
\* never unsettles a pair, and it is what discards superseded evidence.
LEMMA SyncRootInv ==
  ASSUME IInv, NEW p \in Runs, SyncRoot(p)
  PROVE  IInv'
<1>1. TypeOK'
  BY DEF IInv, SyncRoot, AfterSync, TypeOK
<1>2. DirOnDisk'
  BY DEF IInv, SyncRoot, AfterSync, TypeOK, DirOnDisk
<1>3. RoleInv'
  BY DEF IInv, SyncRoot, AfterSync, TypeOK, RoleInv
<1>4. HolderInv'
  BY DEF IInv, SyncRoot, AfterSync, TypeOK, DirOnDisk, HolderInv
<1>5. SettledInv'
  <2>1. \A n \in Names : disk'[n] = {dir[n]} /\ dir'[n] = dir[n]
    BY DEF SyncRoot
  <2>2. Settled => Settled'
    <3> SUFFICES ASSUME NEW v \in accepted \cup {None}, SettledAt(v)
                 PROVE  SettledAt(v)'
      BY DEF Settled, SyncRoot
    <3>1. dir["json"] = v /\ dir["sum"] = v
      BY DEF SettledAt, IInv, DirOnDisk
    <3>q. QED BY <2>1, <3>1 DEF SettledAt, SyncRoot
  <2>3. None \in disk'["lock"] => None \in disk["lock"]
    BY <2>1 DEF IInv, DirOnDisk
  <2>4. ASSUME NEW q \in Runs,
               \/ pc'[q] \in BeginPCs \cup {"begun"}
               \/ q \in Gates /\ pc'[q] \in HoldPCs
        PROVE  Settled
    BY <2>4 DEF IInv, SyncRoot, AfterSync, TypeOK, RoleInv, SettledInv
  <2>q. QED BY <2>2, <2>3, <2>4 DEF IInv, SettledInv
<1>6. PhaseInv'
  <2> SUFFICES ASSUME NEW q \in Collectors PROVE Phase(q)'
    BY DEF PhaseInv
  <2>1. CASE q = p
    BY <2>1 DEF IInv, SyncRoot, AfterSync, TypeOK, DirOnDisk, RoleInv,
       HolderInv, SettledInv, Settled, SettledAt, PhaseInv, Phase, EmptyDisk,
       Synced, GhostRuns
  <2>2. CASE q # p
    <3>1. pc'[q] = pc[q]
      BY <2>2 DEF IInv, SyncRoot, AfterSync, TypeOK
    <3>2. CASE pc[q] \notin HoldPCs
      BY <3>1, <3>2 DEF Phase
    <3>3. CASE pc[q] \in HoldPCs
      BY <2>2, <3>1, <3>3, HolderAlone DEF IInv, SyncRoot, AfterSync,
         TypeOK, DirOnDisk, RoleInv, HolderInv, SettledInv, Settled, SettledAt,
         PhaseInv, Phase, EmptyDisk, Synced, GhostRuns
    <3>q. QED BY <3>2, <3>3
  <2>q. QED BY <2>1, <2>2
<1>7. GhostRuns'
  BY DEF IInv, SyncRoot, AfterSync, TypeOK, RoleInv, HolderInv, GhostRuns
<1>8. GhostSets'
  <2>1. disk'["json"] = {dir["json"]} /\ dir["json"] \in disk["json"]
    BY DEF SyncRoot, IInv, DirOnDisk
  <2>2. CASE pc[p] = "noSum"
    <3>1. dir["json"] = None
      BY <2>2 DEF IInv, RoleInv, PhaseInv, Phase
    <3>2. disk'["json"] \cap retired' = {}
      BY <2>1, <3>1 DEF SyncRoot, IInv, TypeOK
    <3>q. QED BY <2>2, <3>2 DEF IInv, SyncRoot, GhostSets
  <2>3. CASE pc[p] # "noSum"
    BY <2>1, <2>3 DEF SyncRoot, IInv, GhostSets
  <2>q. QED BY <2>2, <2>3
<1>9. SeenInv'
  BY DEF IInv, SyncRoot, AfterSync, TypeOK, DirOnDisk, SettledInv, Settled,
     SettledAt, SeenInv
<1>q. QED BY <1>1, <1>2, <1>3, <1>4, <1>5, <1>6, <1>7, <1>8, <1>9 DEF IInv

\* Temporary files are private to the run and fsynced when written.
LEMMA WriteTempInv ==
  ASSUME IInv, NEW p \in Collectors, WriteTemp(p)
  PROVE  IInv'
<1>1. TypeOK'
  BY DEF IInv, WriteTemp, TypeOK
<1>2. DirOnDisk'
  BY DEF IInv, WriteTemp, TypeOK, DirOnDisk
<1>3. RoleInv'
  BY DEF IInv, WriteTemp, TypeOK, RoleInv
<1>4. HolderInv'
  BY DEF IInv, WriteTemp, TypeOK, DirOnDisk, HolderInv
<1>5. SettledInv'
  BY DEF IInv, WriteTemp, TypeOK, DirOnDisk, RoleInv, HolderInv, SettledInv,
     Settled, SettledAt, PhaseInv, Phase, EmptyDisk, Synced, GhostRuns
<1>6. PhaseInv'
  <2> SUFFICES ASSUME NEW q \in Collectors PROVE Phase(q)'
    BY DEF PhaseInv
  <2>1. CASE q = p
    BY <2>1 DEF IInv, WriteTemp, TypeOK, DirOnDisk, RoleInv, HolderInv,
       SettledInv, Settled, SettledAt, PhaseInv, Phase, EmptyDisk, Synced,
       GhostRuns
  <2>2. CASE q # p
    <3>1. pc'[q] = pc[q]
      BY <2>2 DEF IInv, WriteTemp, TypeOK
    <3>2. CASE pc[q] \notin HoldPCs
      BY <3>1, <3>2 DEF Phase
    <3>3. CASE pc[q] \in HoldPCs
      BY <2>2, <3>1, <3>3, HolderAlone DEF IInv, WriteTemp, TypeOK,
         DirOnDisk, RoleInv, HolderInv, SettledInv, Settled, SettledAt,
         PhaseInv, Phase, EmptyDisk, Synced, GhostRuns
    <3>q. QED BY <3>2, <3>3
  <2>q. QED BY <2>1, <2>2
<1>7. GhostRuns'
  BY DEF IInv, WriteTemp, TypeOK, RoleInv, HolderInv, GhostRuns
<1>8. GhostSets'
  BY DEF IInv, WriteTemp, TypeOK, DirOnDisk, RoleInv, PhaseInv, Phase,
     SettledAt, EmptyDisk, Synced, GhostRuns, GhostSets
<1>9. SeenInv'
  BY DEF IInv, WriteTemp, TypeOK, DirOnDisk, SettledInv, Settled, SettledAt,
     SeenInv
<1>q. QED BY <1>1, <1>2, <1>3, <1>4, <1>5, <1>6, <1>7, <1>8, <1>9 DEF IInv

\* Publication, checksum first.
LEMMA CommitChecksumInv ==
  ASSUME IInv, NEW p \in Collectors, CommitChecksum(p)
  PROVE  IInv'
<1>1. TypeOK'
  BY DEF IInv, CommitChecksum, Publish, TypeOK
<1>2. DirOnDisk'
  BY DEF IInv, CommitChecksum, Publish, TypeOK, DirOnDisk
<1>3. RoleInv'
  BY DEF IInv, CommitChecksum, Publish, TypeOK, RoleInv
<1>4. HolderInv'
  BY DEF IInv, CommitChecksum, Publish, TypeOK, DirOnDisk, HolderInv
<1>5. SettledInv'
  BY DEF IInv, CommitChecksum, Publish, TypeOK, DirOnDisk, RoleInv,
     HolderInv, SettledInv, Settled, SettledAt, PhaseInv, Phase, EmptyDisk,
     Synced, GhostRuns
<1>6. PhaseInv'
  <2> SUFFICES ASSUME NEW q \in Collectors PROVE Phase(q)'
    BY DEF PhaseInv
  <2>1. CASE q = p
    BY <2>1 DEF IInv, CommitChecksum, Publish, TypeOK, DirOnDisk, RoleInv,
       HolderInv, SettledInv, Settled, SettledAt, PhaseInv, Phase, EmptyDisk,
       Synced, GhostRuns
  <2>2. CASE q # p
    <3>1. pc'[q] = pc[q]
      BY <2>2 DEF IInv, CommitChecksum, Publish, TypeOK
    <3>2. CASE pc[q] \notin HoldPCs
      BY <3>1, <3>2 DEF Phase
    <3>3. CASE pc[q] \in HoldPCs
      BY <2>2, <3>1, <3>3, HolderAlone DEF IInv, CommitChecksum, Publish,
         TypeOK, DirOnDisk, RoleInv, HolderInv, SettledInv, Settled, SettledAt,
         PhaseInv, Phase, EmptyDisk, Synced, GhostRuns
    <3>q. QED BY <3>2, <3>3
  <2>q. QED BY <2>1, <2>2
<1>7. GhostRuns'
  BY DEF IInv, CommitChecksum, Publish, TypeOK, RoleInv, HolderInv,
     GhostRuns
<1>8. GhostSets'
  BY DEF IInv, CommitChecksum, Publish, TypeOK, DirOnDisk, RoleInv,
     PhaseInv, Phase, SettledAt, EmptyDisk, Synced, GhostRuns, GhostSets
<1>9. SeenInv'
  BY DEF IInv, CommitChecksum, Publish, TypeOK, DirOnDisk, SettledInv,
     Settled, SettledAt, SeenInv
<1>q. QED BY <1>1, <1>2, <1>3, <1>4, <1>5, <1>6, <1>7, <1>8, <1>9 DEF IInv

\* Publication, JSON last.
LEMMA CommitJsonInv ==
  ASSUME IInv, NEW p \in Collectors, CommitJson(p)
  PROVE  IInv'
<1>1. TypeOK'
  BY DEF IInv, CommitJson, Publish, TypeOK
<1>2. DirOnDisk'
  BY DEF IInv, CommitJson, Publish, TypeOK, DirOnDisk
<1>3. RoleInv'
  BY DEF IInv, CommitJson, Publish, TypeOK, RoleInv
<1>4. HolderInv'
  BY DEF IInv, CommitJson, Publish, TypeOK, DirOnDisk, HolderInv
<1>5. SettledInv'
  BY DEF IInv, CommitJson, Publish, TypeOK, DirOnDisk, RoleInv, HolderInv,
     SettledInv, Settled, SettledAt, PhaseInv, Phase, EmptyDisk, Synced,
     GhostRuns
<1>6. PhaseInv'
  <2> SUFFICES ASSUME NEW q \in Collectors PROVE Phase(q)'
    BY DEF PhaseInv
  <2>1. CASE q = p
    BY <2>1 DEF IInv, CommitJson, Publish, TypeOK, DirOnDisk, RoleInv,
       HolderInv, SettledInv, Settled, SettledAt, PhaseInv, Phase, EmptyDisk,
       Synced, GhostRuns
  <2>2. CASE q # p
    <3>1. pc'[q] = pc[q]
      BY <2>2 DEF IInv, CommitJson, Publish, TypeOK
    <3>2. CASE pc[q] \notin HoldPCs
      BY <3>1, <3>2 DEF Phase
    <3>3. CASE pc[q] \in HoldPCs
      BY <2>2, <3>1, <3>3, HolderAlone DEF IInv, CommitJson, Publish,
         TypeOK, DirOnDisk, RoleInv, HolderInv, SettledInv, Settled, SettledAt,
         PhaseInv, Phase, EmptyDisk, Synced, GhostRuns
    <3>q. QED BY <3>2, <3>3
  <2>q. QED BY <2>1, <2>2
<1>7. GhostRuns'
  BY DEF IInv, CommitJson, Publish, TypeOK, RoleInv, HolderInv, GhostRuns
<1>8. GhostSets'
  BY DEF IInv, CommitJson, Publish, TypeOK, DirOnDisk, RoleInv, PhaseInv,
     Phase, SettledAt, EmptyDisk, Synced, GhostRuns, GhostSets
<1>9. SeenInv'
  BY DEF IInv, CommitJson, Publish, TypeOK, DirOnDisk, SettledInv, Settled,
     SettledAt, SeenInv
<1>q. QED BY <1>1, <1>2, <1>3, <1>4, <1>5, <1>6, <1>7, <1>8, <1>9 DEF IInv

\* Temporary files are no part of the pair.
LEMMA UnlinkTempsInv ==
  ASSUME IInv, NEW p \in Collectors, UnlinkTemps(p)
  PROVE  IInv'
<1>1. TypeOK'
  BY DEF IInv, UnlinkTemps, TypeOK
<1>2. DirOnDisk'
  BY DEF IInv, UnlinkTemps, TypeOK, DirOnDisk
<1>3. RoleInv'
  BY DEF IInv, UnlinkTemps, TypeOK, RoleInv
<1>4. HolderInv'
  BY DEF IInv, UnlinkTemps, TypeOK, DirOnDisk, HolderInv
<1>5. SettledInv'
  BY DEF IInv, UnlinkTemps, TypeOK, DirOnDisk, RoleInv, HolderInv,
     SettledInv, Settled, SettledAt, PhaseInv, Phase, EmptyDisk, Synced,
     GhostRuns
<1>6. PhaseInv'
  <2> SUFFICES ASSUME NEW q \in Collectors PROVE Phase(q)'
    BY DEF PhaseInv
  <2>1. CASE q = p
    BY <2>1 DEF IInv, UnlinkTemps, TypeOK, DirOnDisk, RoleInv, HolderInv,
       SettledInv, Settled, SettledAt, PhaseInv, Phase, EmptyDisk, Synced,
       GhostRuns
  <2>2. CASE q # p
    <3>1. pc'[q] = pc[q]
      BY <2>2 DEF IInv, UnlinkTemps, TypeOK
    <3>2. CASE pc[q] \notin HoldPCs
      BY <3>1, <3>2 DEF Phase
    <3>3. CASE pc[q] \in HoldPCs
      BY <2>2, <3>1, <3>3, HolderAlone DEF IInv, UnlinkTemps, TypeOK,
         DirOnDisk, RoleInv, HolderInv, SettledInv, Settled, SettledAt,
         PhaseInv, Phase, EmptyDisk, Synced, GhostRuns
    <3>q. QED BY <3>2, <3>3
  <2>q. QED BY <2>1, <2>2
<1>7. GhostRuns'
  BY DEF IInv, UnlinkTemps, TypeOK, RoleInv, HolderInv, GhostRuns
<1>8. GhostSets'
  BY DEF IInv, UnlinkTemps, TypeOK, DirOnDisk, RoleInv, PhaseInv, Phase,
     SettledAt, EmptyDisk, Synced, GhostRuns, GhostSets
<1>9. SeenInv'
  BY DEF IInv, UnlinkTemps, TypeOK, DirOnDisk, SettledInv, Settled,
     SettledAt, SeenInv
<1>q. QED BY <1>1, <1>2, <1>3, <1>4, <1>5, <1>6, <1>7, <1>8, <1>9 DEF IInv

\* The owner file goes before the lock directory does.
LEMMA UnlinkOwnerInv ==
  ASSUME IInv, NEW p \in Runs, UnlinkOwner(p)
  PROVE  IInv'
<1>1. TypeOK'
  BY DEF IInv, UnlinkOwner, TypeOK
<1>2. DirOnDisk'
  BY DEF IInv, UnlinkOwner, TypeOK, DirOnDisk
<1>3. RoleInv'
  BY DEF IInv, UnlinkOwner, TypeOK, RoleInv
<1>4. HolderInv'
  BY DEF IInv, UnlinkOwner, TypeOK, DirOnDisk, HolderInv
<1>5. SettledInv'
  <2>1. Settled => Settled'
    BY DEF UnlinkOwner, Settled, SettledAt
  <2>2. Settled' => SettledInv'
    BY DEF SettledInv
  <2>q. QED BY <2>1, <2>2 DEF IInv, UnlinkOwner, TypeOK, RoleInv, HolderInv,
               SettledInv
<1>6. PhaseInv'
  <2> SUFFICES ASSUME NEW q \in Collectors PROVE Phase(q)'
    BY DEF PhaseInv
  <2>1. CASE q = p
    BY <2>1 DEF IInv, UnlinkOwner, TypeOK, DirOnDisk, RoleInv, HolderInv,
       SettledInv, Settled, SettledAt, PhaseInv, Phase, EmptyDisk, Synced,
       GhostRuns
  <2>2. CASE q # p
    <3>1. pc'[q] = pc[q]
      BY <2>2 DEF IInv, UnlinkOwner, TypeOK
    <3>2. CASE pc[q] \notin HoldPCs
      BY <3>1, <3>2 DEF Phase
    <3>3. CASE pc[q] \in HoldPCs
      BY <2>2, <3>1, <3>3, HolderAlone DEF IInv, UnlinkOwner, TypeOK,
         DirOnDisk, RoleInv, HolderInv, SettledInv, Settled, SettledAt,
         PhaseInv, Phase, EmptyDisk, Synced, GhostRuns
    <3>q. QED BY <3>2, <3>3
  <2>q. QED BY <2>1, <2>2
<1>7. GhostRuns'
  BY DEF IInv, UnlinkOwner, TypeOK, RoleInv, HolderInv, GhostRuns
<1>8. GhostSets'
  BY DEF IInv, UnlinkOwner, TypeOK, DirOnDisk, RoleInv, PhaseInv, Phase,
     SettledAt, EmptyDisk, Synced, GhostRuns, GhostSets
<1>9. SeenInv'
  BY DEF IInv, UnlinkOwner, TypeOK, DirOnDisk, SettledInv, Settled,
     SettledAt, SeenInv
<1>q. QED BY <1>1, <1>2, <1>3, <1>4, <1>5, <1>6, <1>7, <1>8, <1>9 DEF IInv

\* The commit point: the pair is settled before the lock can disappear.
LEMMA RmdirInv ==
  ASSUME IInv, NEW p \in Runs, Rmdir(p)
  PROVE  IInv'
<1>1. TypeOK'
  BY DEF IInv, Rmdir, TypeOK
<1>2. DirOnDisk'
  BY DEF IInv, Rmdir, TypeOK, DirOnDisk
<1>3. RoleInv'
  BY DEF IInv, Rmdir, TypeOK, RoleInv
<1>4. HolderInv'
  BY DEF IInv, Rmdir, TypeOK, DirOnDisk, HolderInv
<1>5. SettledInv'
  <2>1. UNCHANGED synced /\ disk'["json"] = disk["json"] /\ disk'["sum"] = disk["sum"]
    BY DEF Rmdir, IInv, TypeOK
  <2>2. accepted \subseteq accepted'
    BY DEF Rmdir
  <2>3. \A v : SettledAt(v) => SettledAt(v)'
    BY <2>1 DEF SettledAt
  <2>4. Settled => Settled'
    BY <2>2, <2>3 DEF Settled
  <2>5. CASE p \in Gates
    BY <2>4, <2>5 DEF IInv, Rmdir, SettledInv
  <2>6. CASE p \in Collectors
    <3>1. IF p \in withdrawn THEN SettledAt(None) ELSE SettledAt(p)
      BY <2>6 DEF IInv, Rmdir, PhaseInv, Phase, EmptyDisk, SettledAt
    <3>q. QED BY <2>3, <2>6, <3>1 DEF Rmdir, Settled, SettledInv
  <2>q. QED BY <2>5, <2>6 DEF SettledInv
<1>6. PhaseInv'
  <2> SUFFICES ASSUME NEW q \in Collectors PROVE Phase(q)'
    BY DEF PhaseInv
  <2>1. CASE q = p
    BY <2>1 DEF IInv, Rmdir, TypeOK, DirOnDisk, RoleInv, HolderInv,
       SettledInv, Settled, SettledAt, PhaseInv, Phase, EmptyDisk, Synced,
       GhostRuns
  <2>2. CASE q # p
    <3>1. pc'[q] = pc[q]
      BY <2>2 DEF IInv, Rmdir, TypeOK
    <3>2. CASE pc[q] \notin HoldPCs
      BY <3>1, <3>2 DEF Phase
    <3>3. CASE pc[q] \in HoldPCs
      BY <2>2, <3>1, <3>3, HolderAlone DEF IInv, Rmdir, TypeOK, DirOnDisk,
         RoleInv, HolderInv, SettledInv, Settled, SettledAt, PhaseInv, Phase,
         EmptyDisk, Synced, GhostRuns
    <3>q. QED BY <3>2, <3>3
  <2>q. QED BY <2>1, <2>2
<1>7. GhostRuns'
  BY DEF IInv, Rmdir, TypeOK, RoleInv, HolderInv, GhostRuns
<1>8. GhostSets'
  BY DEF IInv, Rmdir, TypeOK, DirOnDisk, RoleInv, PhaseInv, Phase,
     SettledAt, EmptyDisk, Synced, GhostRuns, GhostSets
<1>9. SeenInv'
  BY DEF IInv, Rmdir, TypeOK, DirOnDisk, SettledInv, Settled, SettledAt,
     SeenInv
<1>q. QED BY <1>1, <1>2, <1>3, <1>4, <1>5, <1>6, <1>7, <1>8, <1>9 DEF IInv

\* A gate reads a settled pair.
LEMMA GateReadInv ==
  ASSUME IInv, NEW p \in Gates, GateRead(p)
  PROVE  IInv'
<1>1. TypeOK'
  BY DEF IInv, GateRead, fileVars, ReadEntry, TypeOK
<1>2. DirOnDisk'
  BY DEF IInv, GateRead, fileVars, ReadEntry, TypeOK, DirOnDisk
<1>3. RoleInv'
  BY DEF IInv, GateRead, fileVars, ReadEntry, TypeOK, RoleInv
<1>4. HolderInv'
  BY DEF IInv, GateRead, fileVars, ReadEntry, TypeOK, DirOnDisk, HolderInv
<1>5. SettledInv'
  <2>1. Settled => Settled'
    BY DEF GateRead, fileVars, ReadEntry, Settled, SettledAt
  <2>2. Settled' => SettledInv'
    BY DEF SettledInv
  <2>q. QED BY <2>1, <2>2 DEF IInv, GateRead, fileVars, ReadEntry, TypeOK,
               RoleInv, HolderInv, SettledInv
<1>6. PhaseInv'
  <2> SUFFICES ASSUME NEW q \in Collectors PROVE Phase(q)'
    BY DEF PhaseInv
  <2>1. CASE q = p
    BY <2>1 DEF IInv, GateRead, fileVars, ReadEntry, TypeOK, DirOnDisk,
       RoleInv, HolderInv, SettledInv, Settled, SettledAt, PhaseInv, Phase,
       EmptyDisk, Synced, GhostRuns
  <2>2. CASE q # p
    <3>1. pc'[q] = pc[q]
      BY <2>2 DEF IInv, GateRead, fileVars, ReadEntry, TypeOK
    <3>2. CASE pc[q] \notin HoldPCs
      BY <3>1, <3>2 DEF Phase
    <3>3. CASE pc[q] \in HoldPCs
      BY <2>2, <3>1, <3>3, HolderAlone DEF IInv, GateRead, fileVars,
         ReadEntry, TypeOK, DirOnDisk, RoleInv, HolderInv, SettledInv, Settled,
         SettledAt, PhaseInv, Phase, EmptyDisk, Synced, GhostRuns
    <3>q. QED BY <3>2, <3>3
  <2>q. QED BY <2>1, <2>2
<1>7. GhostRuns'
  BY DEF IInv, GateRead, fileVars, ReadEntry, TypeOK, RoleInv, HolderInv,
     GhostRuns
<1>8. GhostSets'
  BY DEF IInv, GateRead, fileVars, ReadEntry, TypeOK, DirOnDisk, RoleInv,
     PhaseInv, Phase, SettledAt, EmptyDisk, Synced, GhostRuns, GhostSets
<1>9. SeenInv'
  <2>1. accepted' = accepted /\ seen \in [Gates -> [json : Entries, sum : Entries]]
    BY DEF IInv, TypeOK, GateRead
  <2>2. CASE pc[p] = "begun"
    <3>1. PICK v \in accepted \cup {None} : disk["json"] = {v}
      BY <2>2 DEF IInv, SettledInv, Settled, SettledAt
    <3>2. ReadEntry("json") \in accepted \cup {None}
      BY <3>1 DEF IInv, DirOnDisk, ReadEntry
    <3>3. seen' = [seen EXCEPT ![p].json = ReadEntry("json")]
      BY <2>2 DEF GateRead
    <3>q. QED BY <2>1, <3>2, <3>3 DEF IInv, SeenInv
  <2>3. CASE pc[p] = "gotJson"
    <3>1. seen' = [seen EXCEPT ![p].sum = ReadEntry("sum")]
      BY <2>3 DEF GateRead
    <3>q. QED BY <2>1, <3>1 DEF IInv, SeenInv
  <2>q. QED BY <2>2, <2>3 DEF GateRead
<1>q. QED BY <1>1, <1>2, <1>3, <1>4, <1>5, <1>6, <1>7, <1>8, <1>9 DEF IInv

\* Failure of a run that still holds the lock.
LEMMA FailInv ==
  ASSUME IInv, NEW p \in Runs, Fail(p)
  PROVE  IInv'
<1>1. TypeOK'
  BY DEF IInv, Fail, fileVars, TypeOK
<1>2. DirOnDisk'
  BY DEF IInv, Fail, fileVars, TypeOK, DirOnDisk
<1>3. RoleInv'
  BY DEF IInv, Fail, fileVars, TypeOK, RoleInv
<1>4. HolderInv'
  BY DEF IInv, Fail, fileVars, TypeOK, DirOnDisk, HolderInv
<1>5. SettledInv'
  <2>1. Settled => Settled'
    BY DEF Fail, fileVars, Settled, SettledAt
  <2>2. Settled' => SettledInv'
    BY DEF SettledInv
  <2>q. QED BY <2>1, <2>2 DEF IInv, Fail, fileVars, TypeOK, RoleInv,
               HolderInv, SettledInv
<1>6. PhaseInv'
  <2> SUFFICES ASSUME NEW q \in Collectors PROVE Phase(q)'
    BY DEF PhaseInv
  <2>1. CASE q = p
    BY <2>1 DEF IInv, Fail, fileVars, TypeOK, DirOnDisk, RoleInv, HolderInv,
       SettledInv, Settled, SettledAt, PhaseInv, Phase, EmptyDisk, Synced,
       GhostRuns
  <2>2. CASE q # p
    <3>1. pc'[q] = pc[q]
      BY <2>2 DEF IInv, Fail, fileVars, TypeOK
    <3>2. CASE pc[q] \notin HoldPCs
      BY <3>1, <3>2 DEF Phase
    <3>3. CASE pc[q] \in HoldPCs
      BY <2>2, <3>1, <3>3, HolderAlone DEF IInv, Fail, fileVars, TypeOK,
         DirOnDisk, RoleInv, HolderInv, SettledInv, Settled, SettledAt,
         PhaseInv, Phase, EmptyDisk, Synced, GhostRuns
    <3>q. QED BY <3>2, <3>3
  <2>q. QED BY <2>1, <2>2
<1>7. GhostRuns'
  BY DEF IInv, Fail, fileVars, TypeOK, RoleInv, HolderInv, GhostRuns
<1>8. GhostSets'
  BY DEF IInv, Fail, fileVars, TypeOK, DirOnDisk, RoleInv, PhaseInv, Phase,
     SettledAt, EmptyDisk, Synced, GhostRuns, GhostSets
<1>9. SeenInv'
  BY DEF IInv, Fail, fileVars, TypeOK, DirOnDisk, SettledInv, Settled,
     SettledAt, SeenInv
<1>q. QED BY <1>1, <1>2, <1>3, <1>4, <1>5, <1>6, <1>7, <1>8, <1>9 DEF IInv

\* A killed run keeps the lock it had.
LEMMA KillInv ==
  ASSUME IInv, NEW p \in Runs, Kill(p)
  PROVE  IInv'
<1>1. TypeOK'
  BY DEF IInv, Kill, fileVars, TypeOK
<1>2. DirOnDisk'
  BY DEF IInv, Kill, fileVars, TypeOK, DirOnDisk
<1>3. RoleInv'
  BY DEF IInv, Kill, fileVars, TypeOK, RoleInv
<1>4. HolderInv'
  BY DEF IInv, Kill, fileVars, TypeOK, DirOnDisk, HolderInv
<1>5. SettledInv'
  <2>1. Settled => Settled'
    BY DEF Kill, fileVars, Settled, SettledAt
  <2>2. Settled' => SettledInv'
    BY DEF SettledInv
  <2>q. QED BY <2>1, <2>2 DEF IInv, Kill, fileVars, TypeOK, RoleInv,
               HolderInv, SettledInv
<1>6. PhaseInv'
  <2> SUFFICES ASSUME NEW q \in Collectors PROVE Phase(q)'
    BY DEF PhaseInv
  <2>1. CASE q = p
    BY <2>1 DEF IInv, Kill, fileVars, TypeOK, DirOnDisk, RoleInv, HolderInv,
       SettledInv, Settled, SettledAt, PhaseInv, Phase, EmptyDisk, Synced,
       GhostRuns
  <2>2. CASE q # p
    <3>1. pc'[q] = pc[q]
      BY <2>2 DEF IInv, Kill, fileVars, TypeOK
    <3>2. CASE pc[q] \notin HoldPCs
      BY <3>1, <3>2 DEF Phase
    <3>3. CASE pc[q] \in HoldPCs
      BY <2>2, <3>1, <3>3, HolderAlone DEF IInv, Kill, fileVars, TypeOK,
         DirOnDisk, RoleInv, HolderInv, SettledInv, Settled, SettledAt,
         PhaseInv, Phase, EmptyDisk, Synced, GhostRuns
    <3>q. QED BY <3>2, <3>3
  <2>q. QED BY <2>1, <2>2
<1>7. GhostRuns'
  BY DEF IInv, Kill, fileVars, TypeOK, RoleInv, HolderInv, GhostRuns
<1>8. GhostSets'
  BY DEF IInv, Kill, fileVars, TypeOK, DirOnDisk, RoleInv, PhaseInv, Phase,
     SettledAt, EmptyDisk, Synced, GhostRuns, GhostSets
<1>9. SeenInv'
  BY DEF IInv, Kill, fileVars, TypeOK, DirOnDisk, SettledInv, Settled,
     SettledAt, SeenInv
<1>q. QED BY <1>1, <1>2, <1>3, <1>4, <1>5, <1>6, <1>7, <1>8, <1>9 DEF IInv

\* A power loss leaves one of the images and no live run.
LEMMA CrashInv ==
  ASSUME IInv, Crash
  PROVE  IInv'
<1>0. /\ \A p \in Runs : pc'[p] \in EndPCs
      /\ \A p \in Runs : pc'[p] = "idle" => pc[p] = "idle"
      /\ dir' \in [Names -> Entries]
      /\ \A n \in Names : dir'[n] \in disk[n] /\ disk'[n] = {dir'[n]}
  BY DEF Crash, Images, IInv, TypeOK
<1>1. TypeOK'
  BY <1>0 DEF Crash, Images, Tearable, IInv, TypeOK
<1>2. DirOnDisk' /\ RoleInv' /\ HolderInv' /\ PhaseInv'
  BY <1>0 DEF DirOnDisk, RoleInv, HolderInv, PhaseInv, Phase
<1>3. SettledInv'
  <2>1. Settled => Settled'
    <3> SUFFICES ASSUME NEW v \in accepted \cup {None}, SettledAt(v)
                 PROVE  SettledAt(v)'
      BY DEF Settled, Crash
    <3>q. QED BY <1>0 DEF SettledAt, Crash
  <2>q. QED BY <1>0, <2>1 DEF SettledInv, IInv
<1>4. GhostRuns' /\ GhostSets' /\ SeenInv'
  BY <1>0 DEF Crash, IInv, GhostRuns, GhostSets, SeenInv
<1>q. QED BY <1>1, <1>2, <1>3, <1>4 DEF IInv

LEMMA StutterInv ==
  ASSUME IInv, UNCHANGED vars
  PROVE  IInv'
<1>1. TypeOK' /\ DirOnDisk' /\ RoleInv' /\ HolderInv'
  BY DEF vars, IInv, TypeOK, DirOnDisk, RoleInv, HolderInv
<1>2. SettledInv'
  BY DEF vars, IInv, SettledInv, Settled, SettledAt
<1>3. PhaseInv'
  BY DEF vars, IInv, SettledAt, PhaseInv, Phase, EmptyDisk, Synced
<1>4. GhostRuns' /\ GhostSets' /\ SeenInv'
  BY DEF vars, IInv, GhostRuns, GhostSets, SeenInv
<1>q. QED BY <1>1, <1>2, <1>3, <1>4 DEF IInv

LEMMA NextInv == IInv /\ [Next]_vars => IInv'
<1> SUFFICES ASSUME IInv, [Next]_vars PROVE IInv'
  OBVIOUS
<1>1. ASSUME NEW p \in Runs, Step(p) PROVE IInv'
  BY <1>1, MkdirInv, RefuseInv, CreateOwnerInv, SyncRootInv, UnlinkEntryInv,
     UnlinkOwnerInv, RmdirInv, WriteTempInv, CommitChecksumInv, CommitJsonInv,
     UnlinkTempsInv, GateReadInv DEF Step, CollectorStep
<1>2. ASSUME NEW p \in Runs, Fail(p) PROVE IInv'
  BY <1>2, FailInv
<1>3. ASSUME NEW p \in Runs, Kill(p) PROVE IInv'
  BY <1>3, KillInv
<1>4. CASE Crash
  BY <1>4, CrashInv
<1>5. CASE UNCHANGED vars
  BY <1>5, StutterInv
<1>q. QED BY <1>1, <1>2, <1>3, <1>4, <1>5 DEF Next

\* IInv is an inductive invariant of the store.
THEOREM Invariance == Spec => []IInv
  BY InitInv, NextInv, PTL DEF Spec

---------------------------------------------------------------------------
\* The types of vc-evidence-store.py's state hold for any set of runs.
THEOREM TypeCorrect == Spec => []TypeOK
<1>1. IInv => TypeOK
  BY DEF IInv
<1>q. QED BY <1>1, Invariance, PTL

\* "Every crash transition is durable and fail closed": whatever a power loss
\* leaves, an unlocked pair is whole or absent.
THEOREM FailClosedAlways == Spec => []FailClosed
<1>1. IInv => FailClosed
  <2> SUFFICES ASSUME IInv, NEW d \in Images \cup {dir}, d["lock"] = None
               PROVE  Complete(d)
    BY DEF FailClosed
  <2>1. \A n \in Names : d[n] \in disk[n]
    BY DEF Images, IInv, DirOnDisk
  <2>2. PICK v \in accepted \cup {None} : SettledAt(v)
    BY <2>1 DEF IInv, SettledInv, Settled
  <2>3. d["json"] = v /\ d["sum"] = v
    BY <2>1, <2>2 DEF SettledAt
  <2>q. QED BY <2>2, <2>3 DEF Complete, SettledAt
<1>q. QED BY <1>1, Invariance, PTL

\* vc-gate.sh passes only on the evidence of a collector that finished.
THEOREM PassOnlyAcceptedAlways == Spec => []PassOnlyAccepted
<1>1. IInv => PassOnlyAccepted
  BY DEF IInv, SeenInv, GhostSets, PassOnlyAccepted, Passed
<1>q. QED BY <1>1, Invariance, PTL

\* Evidence that a later collector-begin discarded never comes back.
THEOREM NoResurrectionAlways == Spec => []NoResurrection
<1>1. IInv => NoResurrection
  BY DEF IInv, GhostSets, NoResurrection, Images
<1>q. QED BY <1>1, Invariance, PTL

\* The durable lock of a dead run survives every step, crashes included.
THEOREM OrphanLockStaysAlways == Spec => OrphanLockStays
<1>1. IInv /\ [Next]_vars =>
        [\A p \in Runs : pc[p] = "dead" /\ disk["lock"] = {p} => dir'["lock"] = p]_vars
  <2> SUFFICES ASSUME IInv, Next, NEW p \in Runs, pc[p] = "dead", disk["lock"] = {p}
               PROVE  dir'["lock"] = p
    OBVIOUS
  <2>1. dir["lock"] = p
    BY DEF IInv, DirOnDisk
  <2>2. CASE Crash
    BY <2>2 DEF Crash, Images
  <2>3. ASSUME NEW q \in Runs, Fail(q) \/ Kill(q) PROVE dir'["lock"] = p
    BY <2>1, <2>3 DEF Fail, Kill, fileVars
  <2>4. ASSUME NEW q \in Runs, Step(q) PROVE dir'["lock"] = p
    <3>1. ~Mkdir(q)
      BY <2>1 DEF Mkdir
    <3>2. ~Rmdir(q)
      BY <2>1 DEF Rmdir, IInv, HolderInv
    <3>q. QED BY <2>1, <2>4, <3>1, <3>2
          DEF Step, CollectorStep, Refuse, CreateOwner, SyncRoot, UnlinkEntry,
              UnlinkOwner, WriteTemp, CommitChecksum, CommitJson, Publish,
              UnlinkTemps, GateRead, fileVars, IInv, TypeOK
  <2>q. QED BY <2>2, <2>3, <2>4 DEF Next
<1>q. QED BY <1>1, Invariance, PTL DEF Spec, OrphanLockStays

\* The pair does not move between gate-acquire and gate-release.
THEOREM SnapshotStableAlways == Spec => SnapshotStable
<1>1. IInv /\ [Next]_vars =>
        [\A g \in Gates : pc[g] \in GatePCs /\ pc'[g] \in GatePCs
           => \A n \in Kinds : dir'[n] = dir[n]]_vars
  <2> SUFFICES ASSUME IInv, Next, NEW g \in Gates, pc[g] \in GatePCs,
                      pc'[g] \in GatePCs, NEW n \in Kinds
               PROVE  dir'[n] = dir[n]
    OBVIOUS
  <2>1. CASE Crash
    BY <2>1 DEF Crash, IInv, TypeOK
  <2>2. ASSUME NEW q \in Runs, Fail(q) \/ Kill(q) PROVE dir'[n] = dir[n]
    BY <2>2 DEF Fail, Kill, fileVars
  <2>3. ASSUME NEW q \in Runs, Step(q) PROVE dir'[n] = dir[n]
    <3>1. \A c \in Collectors : pc[c] \notin HoldPCs
      BY HolderAlone DEF IInv
    <3>2. ~UnlinkEntry(q)
      BY <3>1 DEF UnlinkEntry, AfterUnlink
    <3>3. q \in Collectors => ~CommitChecksum(q) /\ ~CommitJson(q)
      BY <3>1 DEF CommitChecksum, CommitJson
    <3>q. QED BY <2>3, <3>2, <3>3
          DEF Step, CollectorStep, Mkdir, Rmdir, Refuse, CreateOwner, SyncRoot,
              UnlinkOwner, WriteTemp, UnlinkTemps, GateRead, fileVars, IInv, TypeOK
  <2>q. QED BY <2>1, <2>2, <2>3 DEF Next
<1>q. QED BY <1>1, Invariance, PTL DEF Spec, SnapshotStable
=============================================================================
