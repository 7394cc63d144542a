-------------------------- MODULE StateFileProofs --------------------------
(***************************************************************************)
(* Theorems about StateFile, for any number of runs: what PASS means.      *)
(*                                                                         *)
(* The lock makes the steps between Load and Release one run's at a time,  *)
(* so the document moves only from a run's base to that base with the run  *)
(* appended, and back.  A reported PASS has the directory fsync behind it, *)
(* which leaves no document without the run for a power loss to bring      *)
(* back; every later base begins with what it left.  Nobody but the run    *)
(* itself puts it into a document, so a run that failed is in none, once   *)
(* its own rollback has been made durable.                                 *)
(***************************************************************************)
EXTENDS StateFile, TLAPS

Loaded  == {"temp", "replace", "moved", "rollback", "restored", "passing"}

\* doc begins with what p left, which has the version p was prepared against and one more.
Has(doc, p) == Prefix(Append(base[p], p), doc) /\ Len(saw[p]) = Len(base[p])

\* The document between Load and Release.
Moves ==
  \A p \in Runs :
    /\ pc[p] \in {"temp", "replace", "restored"} => file = base[p]
    /\ pc[p] \in {"moved", "rollback", "passing"} => file = Append(base[p], p)
    /\ pc[p] = "passing" => disk = {file}

\* What a run was prepared against was withdrawn or is what it loaded.
Loads ==
  \A p \in Runs :
    /\ pc[p] \in {"prepared", "locked"} => Prefix(saw[p], file) \/ saw[p] \in undone
    /\ pc[p] \in Loaded => /\ Len(saw[p]) = Len(base[p])
                           /\ saw[p] = base[p] \/ saw[p] \in undone

\* A transition that passed is in everything there is and will be.
Kept ==
  \A p \in Runs : pc[p] = "passed" =>
    /\ \A doc \in disk : Has(doc, p)
    /\ \A q \in Runs : pc[q] \in Loaded => Has(base[q], p)

\* In no document a power loss could leave.
Absent(p) == \A doc \in disk : p \notin Elements(doc)

\* A run is in a document from its own Replace on, until its rollback is durable.
Authored ==
  \A p \in Runs :
    /\ pc[p] \in {"idle", "prepared", "locked", "temp", "replace"} => Absent(p)
    /\ pc[p] \in {"moved", "rollback", "restored"} => p \notin Elements(base[p])
    /\ pc[p] \in {"failing", "failed"} /\ p \notin stuck => Absent(p)

IInv ==
  /\ TypeOK /\ Moves /\ Loads /\ Kept /\ Authored
  /\ OneWinnerPerVersion /\ AppliedToWhatWasSeen

---------------------------------------------------------------------------
\* A run appended to a document.
LEMMA Appended ==
  ASSUME NEW S, NEW s \in Seq(S), NEW r \in S
  PROVE  Append(s, r) \in Seq(S) /\ Len(Append(s, r)) = Len(s) + 1
OBVIOUS

\* ... has that run and those it had.
LEMMA AppendedElements ==
  ASSUME NEW S, NEW s \in Seq(S), NEW r \in S, NEW q, q # r
  PROVE  q \in Elements(Append(s, r)) <=> q \in Elements(s)
<1>1. /\ DOMAIN Append(s, r) = 1..(Len(s) + 1) /\ DOMAIN s = 1..Len(s) /\ Len(s) \in Nat
      /\ \A i \in 1..Len(s) : Append(s, r)[i] = s[i]
      /\ Append(s, r)[Len(s) + 1] = r
  OBVIOUS
<1>2. \A i \in 1..(Len(s) + 1) : i = Len(s) + 1 \/ i \in 1..Len(s)
  BY <1>1
<1>3. 1..Len(s) \subseteq 1..(Len(s) + 1)
  BY <1>1
<1> QED BY <1>1, <1>2, <1>3 DEF Elements

\* Prefixes of one document are told apart by their length; a prefix of a
\* document with a run appended is all of it or a prefix of what was there.
LEMMA Prefixes ==
  ASSUME NEW S, NEW s \in Seq(S), NEW t \in Seq(S), NEW r \in S
  PROVE  /\ Prefix(t, t)
         /\ Prefix(s, t) /\ Len(s) = Len(t) => s = t
         /\ Prefix(s, t) => Prefix(s, Append(t, r))
         /\ Prefix(s, Append(t, r)) => s = Append(t, r) \/ Prefix(s, t)
<1>1. Prefix(t, t)
  BY DEF Prefix
<1>2. ASSUME NEW u \in Seq(S), Prefix(s, u), Len(s) = Len(u) PROVE s = u
  BY <1>2 DEF Prefix
<1>3. Append(t, r) \in Seq(S) /\ Len(Append(t, r)) = Len(t) + 1 /\ Len(t) \in Nat /\ Len(s) \in Nat
  OBVIOUS
<1>4. \A i \in 1..Len(t) : Append(t, r)[i] = t[i]
  OBVIOUS
<1>5. ASSUME Prefix(s, t) PROVE Prefix(s, Append(t, r))
  BY <1>3, <1>4, <1>5 DEF Prefix
<1>6. ASSUME Prefix(s, Append(t, r)), Len(s) # Len(t) + 1 PROVE Prefix(s, t)
  BY <1>3, <1>4, <1>6 DEF Prefix
<1>7. ASSUME Prefix(s, Append(t, r)), Len(s) = Len(t) + 1 PROVE s = Append(t, r)
  BY <1>2, <1>3, <1>7
<1> QED BY <1>1, <1>2, <1>5, <1>6, <1>7

USE NobodyAssumption
USE DEF Goto, SetFile, RunningPCs, EndPCs, Holding, Loaded

\* While a run holds the lock no other run is between Lock and Release.
LEMMA OneHolder ==
  ASSUME IInv, NEW p \in Runs, pc[p] \in Holding
  PROVE  lock = p /\ \A q \in Runs : q # p => pc[q] \notin Holding
BY DEF IInv, TypeOK

---------------------------------------------------------------------------
(* Every step preserves the inductive invariant: one lemma per action, one  *)
(* step per conjunct.                                                      *)

LEMMA PrepareStep == ASSUME IInv, NEW p \in Runs, Prepare(p) PROVE IInv'
<1>1. TypeOK'
  BY DEF IInv, Prepare, TypeOK
<1>2. Authored'
  BY DEF IInv, Prepare, TypeOK, Authored, Absent
<1>3. Moves'
  BY DEF IInv, Prepare, TypeOK, Moves
<1>4. Loads'
  <2>1. Prefix(file, file)
    BY Prefixes DEF IInv, TypeOK
  <2> QED BY <2>1 DEF IInv, Prepare, TypeOK, Loads
<1>5. Kept'
  BY DEF IInv, Prepare, TypeOK, Kept, Has
<1>6. OneWinnerPerVersion'
  BY DEF IInv, Prepare, TypeOK, OneWinnerPerVersion
<1>7. AppliedToWhatWasSeen'
  BY DEF IInv, Prepare, TypeOK, AppliedToWhatWasSeen
<1> QED BY <1>1, <1>2, <1>3, <1>4, <1>5, <1>6, <1>7 DEF IInv

LEMMA LockStep == ASSUME IInv, NEW p \in Runs, Lock(p) PROVE IInv'
<1>1. TypeOK'
  BY DEF IInv, Lock, TypeOK
<1>2. Authored'
  BY DEF IInv, Lock, TypeOK, Authored, Absent
<1>3. Moves'
  BY DEF IInv, Lock, TypeOK, Moves
<1>4. Loads'
  BY DEF IInv, Lock, TypeOK, Loads
<1>5. Kept'
  BY DEF IInv, Lock, TypeOK, Kept, Has
<1>6. OneWinnerPerVersion'
  BY DEF IInv, Lock, TypeOK, OneWinnerPerVersion
<1>7. AppliedToWhatWasSeen'
  BY DEF IInv, Lock, TypeOK, AppliedToWhatWasSeen
<1> QED BY <1>1, <1>2, <1>3, <1>4, <1>5, <1>6, <1>7 DEF IInv

LEMMA LockFailsStep == ASSUME IInv, NEW p \in Runs, LockFails(p) PROVE IInv'
<1>1. TypeOK'
  BY DEF IInv, LockFails, TypeOK
<1>2. Authored'
  BY DEF IInv, LockFails, TypeOK, Authored, Absent
<1>3. Moves'
  BY DEF IInv, LockFails, TypeOK, Moves
<1>4. Loads'
  BY DEF IInv, LockFails, TypeOK, Loads
<1>5. Kept'
  BY DEF IInv, LockFails, TypeOK, Kept, Has
<1>6. OneWinnerPerVersion'
  BY DEF IInv, LockFails, TypeOK, OneWinnerPerVersion
<1>7. AppliedToWhatWasSeen'
  BY DEF IInv, LockFails, TypeOK, AppliedToWhatWasSeen
<1> QED BY <1>1, <1>2, <1>3, <1>4, <1>5, <1>6, <1>7 DEF IInv

LEMMA LoadStep == ASSUME IInv, NEW p \in Runs, Load(p) PROVE IInv'
<1>h. lock = p /\ \A q \in Runs : q # p => pc[q] \notin Holding
  BY OneHolder DEF Load
<1>1. TypeOK'
  BY <1>h DEF IInv, Load, TypeOK
<1>2. Authored'
  BY <1>h DEF IInv, Load, TypeOK, Authored, Absent
<1>3. Moves'
  BY <1>h DEF IInv, Load, TypeOK, Moves
<1>4. Loads'
  <2>1. saw[p] = file \/ saw[p] \in undone
    <3>1. saw[p] \in Seq(Runs) /\ file \in Seq(Runs) /\ Len(saw[p]) = Len(file)
      BY DEF IInv, TypeOK, Load
    <3>2. Prefix(saw[p], file) \/ saw[p] \in undone
      BY DEF IInv, Loads, Load
    <3> QED BY <3>1, <3>2, Prefixes
  <2>2. \A q \in Runs : base'[q] = IF q = p THEN file ELSE base[q]
    BY DEF IInv, TypeOK, Load
  <2>3. \A q \in Runs : pc'[q] = IF q = p THEN "temp" ELSE pc[q]
    BY DEF IInv, TypeOK, Load
  <2> QED BY <2>1, <2>2, <2>3 DEF IInv, Load, Loads
<1>5. Kept'
  BY <1>h DEF IInv, Load, TypeOK, Kept, Has
<1>6. OneWinnerPerVersion'
  BY <1>h DEF IInv, Load, TypeOK, OneWinnerPerVersion
<1>7. AppliedToWhatWasSeen'
  BY <1>h DEF IInv, Load, TypeOK, AppliedToWhatWasSeen
<1> QED BY <1>1, <1>2, <1>3, <1>4, <1>5, <1>6, <1>7 DEF IInv

LEMMA RefuseStep == ASSUME IInv, NEW p \in Runs, Refuse(p) PROVE IInv'
<1>h. lock = p /\ \A q \in Runs : q # p => pc[q] \notin Holding
  BY OneHolder DEF Refuse
<1>1. TypeOK'
  BY <1>h DEF IInv, Refuse, TypeOK
<1>2. Authored'
  BY <1>h DEF IInv, Refuse, TypeOK, Authored, Absent
<1>3. Moves'
  BY <1>h DEF IInv, Refuse, TypeOK, Moves
<1>4. Loads'
  BY <1>h DEF IInv, Refuse, TypeOK, Loads
<1>5. Kept'
  BY <1>h DEF IInv, Refuse, TypeOK, Kept, Has
<1>6. OneWinnerPerVersion'
  BY <1>h DEF IInv, Refuse, TypeOK, OneWinnerPerVersion
<1>7. AppliedToWhatWasSeen'
  BY <1>h DEF IInv, Refuse, TypeOK, AppliedToWhatWasSeen
<1> QED BY <1>1, <1>2, <1>3, <1>4, <1>5, <1>6, <1>7 DEF IInv

LEMMA WriteTempStep == ASSUME IInv, NEW p \in Runs, WriteTemp(p) PROVE IInv'
<1>h. lock = p /\ \A q \in Runs : q # p => pc[q] \notin Holding
  BY OneHolder DEF WriteTemp
<1>1. TypeOK'
  BY <1>h DEF IInv, WriteTemp, TypeOK
<1>2. Authored'
  BY <1>h DEF IInv, WriteTemp, TypeOK, Authored, Absent
<1>3. Moves'
  BY <1>h DEF IInv, WriteTemp, TypeOK, Moves
<1>4. Loads'
  BY <1>h DEF IInv, WriteTemp, TypeOK, Loads
<1>5. Kept'
  BY <1>h DEF IInv, WriteTemp, TypeOK, Kept, Has
<1>6. OneWinnerPerVersion'
  BY <1>h DEF IInv, WriteTemp, TypeOK, OneWinnerPerVersion
<1>7. AppliedToWhatWasSeen'
  BY <1>h DEF IInv, WriteTemp, TypeOK, AppliedToWhatWasSeen
<1> QED BY <1>1, <1>2, <1>3, <1>4, <1>5, <1>6, <1>7 DEF IInv

LEMMA ReplaceStep == ASSUME IInv, NEW p \in Runs, Replace(p) PROVE IInv'
<1>h. lock = p /\ \A q \in Runs : q # p => pc[q] \notin Holding
  BY OneHolder DEF Replace
<1>a. base[p] = file /\ base[p] \in Seq(Runs) /\ Append(base[p], p) \in Seq(Runs)
  BY Appended DEF IInv, TypeOK, Moves, Replace
<1>1. TypeOK'
  BY <1>h, <1>a DEF IInv, Replace, TypeOK
<1>2. Authored'
  <2>1. \A q \in Runs : q # p => (Absent(q) => Absent(q)')
    <3>1. \A q \in Runs : q # p => (q \in Elements(Append(base[p], p)) <=> q \in Elements(file))
      BY <1>a, AppendedElements
    <3> QED BY <3>1 DEF IInv, TypeOK, Replace, Absent
  <2>2. p \notin Elements(base[p])
    BY <1>a DEF IInv, TypeOK, Authored, Absent, Replace
  <2>3. \A q \in Runs : pc'[q] = IF q = p THEN "moved" ELSE pc[q]
    BY DEF IInv, TypeOK, Replace
  <2>4. UNCHANGED <<base, stuck>>
    BY DEF Replace
  <2> QED BY <2>1, <2>2, <2>3, <2>4 DEF IInv, Authored
<1>3. Moves'
  BY <1>h DEF IInv, Replace, TypeOK, Moves
<1>4. Loads'
  <2>1. ASSUME NEW q \in Runs, Prefix(saw[q], file) PROVE Prefix(saw[q], file')
    BY <1>a, <2>1, Prefixes DEF IInv, TypeOK, Replace
  <2>2. \A q \in Runs : pc'[q] = IF q = p THEN "moved" ELSE pc[q]
    BY DEF IInv, TypeOK, Replace
  <2> QED BY <2>1, <2>2 DEF IInv, Loads, Replace
<1>5. Kept'
  <2>1. ASSUME NEW q \in Runs, pc[q] = "passed" PROVE Has(Append(base[p], p), q)
    <3>1. Has(base[p], q)
      BY <2>1 DEF IInv, Kept, Replace
    <3>2. Append(base[q], q) \in Seq(Runs)
      BY Appended DEF IInv, TypeOK
    <3> QED BY <1>a, <3>1, <3>2, Prefixes DEF Has
  <2>2. /\ \A q \in Runs : pc'[q] = "passed" => pc[q] = "passed"
        /\ \A q \in Runs : pc'[q] \in Loaded => pc[q] \in Loaded
    BY DEF IInv, TypeOK, Replace
  <2>3. disk' = disk \cup {Append(base[p], p)} /\ UNCHANGED <<saw, base>>
    BY DEF Replace
  <2> QED BY <2>1, <2>2, <2>3 DEF IInv, Kept, Has
<1>6. OneWinnerPerVersion'
  BY <1>h DEF IInv, Replace, TypeOK, OneWinnerPerVersion
<1>7. AppliedToWhatWasSeen'
  BY <1>h DEF IInv, Replace, TypeOK, AppliedToWhatWasSeen
<1> QED BY <1>1, <1>2, <1>3, <1>4, <1>5, <1>6, <1>7 DEF IInv

LEMMA WriteFailsStep == ASSUME IInv, NEW p \in Runs, WriteFails(p) PROVE IInv'
<1>h. lock = p /\ \A q \in Runs : q # p => pc[q] \notin Holding
  BY OneHolder DEF WriteFails
<1>1. TypeOK'
  BY <1>h DEF IInv, WriteFails, TypeOK
<1>2. Authored'
  BY <1>h DEF IInv, WriteFails, TypeOK, Authored, Absent
<1>3. Moves'
  BY <1>h DEF IInv, WriteFails, TypeOK, Moves
<1>4. Loads'
  BY <1>h DEF IInv, WriteFails, TypeOK, Loads
<1>5. Kept'
  BY <1>h DEF IInv, WriteFails, TypeOK, Kept, Has
<1>6. OneWinnerPerVersion'
  BY <1>h DEF IInv, WriteFails, TypeOK, OneWinnerPerVersion
<1>7. AppliedToWhatWasSeen'
  BY <1>h DEF IInv, WriteFails, TypeOK, AppliedToWhatWasSeen
<1> QED BY <1>1, <1>2, <1>3, <1>4, <1>5, <1>6, <1>7 DEF IInv

LEMMA SyncParentStep == ASSUME IInv, NEW p \in Runs, SyncParent(p) PROVE IInv'
<1>h. lock = p /\ \A q \in Runs : q # p => pc[q] \notin Holding
  BY OneHolder DEF SyncParent
<1>1. TypeOK'
  BY <1>h DEF IInv, SyncParent, TypeOK
<1>2. Authored'
  BY <1>h DEF IInv, SyncParent, TypeOK, Authored, Absent
<1>3. Moves'
  BY <1>h DEF IInv, SyncParent, TypeOK, Moves
<1>4. Loads'
  BY <1>h DEF IInv, SyncParent, TypeOK, Loads
<1>5. Kept'
  BY <1>h DEF IInv, SyncParent, TypeOK, Kept, Has
<1>6. OneWinnerPerVersion'
  BY <1>h DEF IInv, SyncParent, TypeOK, OneWinnerPerVersion
<1>7. AppliedToWhatWasSeen'
  BY <1>h DEF IInv, SyncParent, TypeOK, AppliedToWhatWasSeen
<1> QED BY <1>1, <1>2, <1>3, <1>4, <1>5, <1>6, <1>7 DEF IInv

LEMMA SyncParentFailsStep == ASSUME IInv, NEW p \in Runs, SyncParentFails(p) PROVE IInv'
<1>h. lock = p /\ \A q \in Runs : q # p => pc[q] \notin Holding
  BY OneHolder DEF SyncParentFails
<1>1. TypeOK'
  BY <1>h DEF IInv, SyncParentFails, TypeOK
<1>2. Authored'
  BY <1>h DEF IInv, SyncParentFails, TypeOK, Authored, Absent
<1>3. Moves'
  BY <1>h DEF IInv, SyncParentFails, TypeOK, Moves
<1>4. Loads'
  BY <1>h DEF IInv, SyncParentFails, TypeOK, Loads
<1>5. Kept'
  BY <1>h DEF IInv, SyncParentFails, TypeOK, Kept, Has
<1>6. OneWinnerPerVersion'
  BY <1>h DEF IInv, SyncParentFails, TypeOK, OneWinnerPerVersion
<1>7. AppliedToWhatWasSeen'
  BY <1>h DEF IInv, SyncParentFails, TypeOK, AppliedToWhatWasSeen
<1> QED BY <1>1, <1>2, <1>3, <1>4, <1>5, <1>6, <1>7 DEF IInv

LEMMA RestoreStep == ASSUME IInv, NEW p \in Runs, Restore(p) PROVE IInv'
<1>h. lock = p /\ \A q \in Runs : q # p => pc[q] \notin Holding
  BY OneHolder DEF Restore
<1>1. TypeOK'
  BY <1>h DEF IInv, Restore, TypeOK
<1>2. Authored'
  <2>1. \A q \in Runs : q # p => (Absent(q) => Absent(q)')
    <3>1. file = Append(base[p], p) /\ base[p] \in Seq(Runs)
      BY DEF IInv, TypeOK, Moves, Restore
    <3>2. \A q \in Runs : q # p => (q \in Elements(file) <=> q \in Elements(base[p]))
      BY <3>1, AppendedElements
    <3> QED BY <3>2 DEF IInv, TypeOK, Restore, Absent
  <2>2. \A q \in Runs : pc'[q] = IF q = p THEN "restored" ELSE pc[q]
    BY DEF IInv, TypeOK, Restore
  <2>3. UNCHANGED <<base, stuck>> /\ pc[p] = "rollback"
    BY DEF Restore
  <2> QED BY <2>1, <2>2, <2>3 DEF IInv, Authored
<1>3. Moves'
  BY <1>h DEF IInv, Restore, TypeOK, Moves
<1>4. Loads'
  <2>1. ASSUME NEW q \in Runs, Prefix(saw[q], file) PROVE Prefix(saw[q], base[p]) \/ saw[q] = file
    <3>1. file = Append(base[p], p)
      BY DEF IInv, Moves, Restore
    <3>2. saw[q] \in Seq(Runs) /\ base[p] \in Seq(Runs)
      BY DEF IInv, TypeOK
    <3> QED BY <2>1, <3>1, <3>2, Prefixes
  <2>2. \A q \in Runs : pc'[q] = IF q = p THEN "restored" ELSE pc[q]
    BY DEF IInv, TypeOK, Restore
  <2> QED BY <2>1, <2>2 DEF IInv, Loads, Restore
<1>5. Kept'
  BY <1>h DEF IInv, Restore, TypeOK, Kept, Has
<1>6. OneWinnerPerVersion'
  BY <1>h DEF IInv, Restore, TypeOK, OneWinnerPerVersion
<1>7. AppliedToWhatWasSeen'
  BY <1>h DEF IInv, Restore, TypeOK, AppliedToWhatWasSeen
<1> QED BY <1>1, <1>2, <1>3, <1>4, <1>5, <1>6, <1>7 DEF IInv

LEMMA SyncRestoredStep == ASSUME IInv, NEW p \in Runs, SyncRestored(p) PROVE IInv'
<1>h. lock = p /\ \A q \in Runs : q # p => pc[q] \notin Holding
  BY OneHolder DEF SyncRestored
<1>1. TypeOK'
  BY <1>h DEF IInv, SyncRestored, TypeOK
<1>2. Authored'
  <2>1. p \notin Elements(file) /\ disk' = {file}
    BY DEF IInv, Authored, Moves, SyncRestored
  <2>2. \A q \in Runs : Absent(q) => Absent(q)'
    BY <2>1 DEF IInv, TypeOK, SyncRestored, Absent
  <2>3. Absent(p)'
    BY <2>1 DEF Absent
  <2>4. \A q \in Runs : pc'[q] = IF q = p THEN "failing" ELSE pc[q]
    BY DEF IInv, TypeOK, SyncRestored
  <2>5. UNCHANGED <<base, stuck>>
    BY DEF SyncRestored
  <2> QED BY <2>2, <2>3, <2>4, <2>5 DEF IInv, Authored
<1>3. Moves'
  BY <1>h DEF IInv, SyncRestored, TypeOK, Moves
<1>4. Loads'
  BY <1>h DEF IInv, SyncRestored, TypeOK, Loads
<1>5. Kept'
  BY <1>h DEF IInv, SyncRestored, TypeOK, Kept, Has
<1>6. OneWinnerPerVersion'
  BY <1>h DEF IInv, SyncRestored, TypeOK, OneWinnerPerVersion
<1>7. AppliedToWhatWasSeen'
  BY <1>h DEF IInv, SyncRestored, TypeOK, AppliedToWhatWasSeen
<1> QED BY <1>1, <1>2, <1>3, <1>4, <1>5, <1>6, <1>7 DEF IInv

LEMMA RollbackFailsStep == ASSUME IInv, NEW p \in Runs, RollbackFails(p) PROVE IInv'
<1>h. lock = p /\ \A q \in Runs : q # p => pc[q] \notin Holding
  BY OneHolder DEF RollbackFails
<1>1. TypeOK'
  BY <1>h DEF IInv, RollbackFails, TypeOK
<1>2. Authored'
  BY <1>h DEF IInv, RollbackFails, TypeOK, Authored, Absent
<1>3. Moves'
  BY <1>h DEF IInv, RollbackFails, TypeOK, Moves
<1>4. Loads'
  BY <1>h DEF IInv, RollbackFails, TypeOK, Loads
<1>5. Kept'
  BY <1>h DEF IInv, RollbackFails, TypeOK, Kept, Has
<1>6. OneWinnerPerVersion'
  BY <1>h DEF IInv, RollbackFails, TypeOK, OneWinnerPerVersion
<1>7. AppliedToWhatWasSeen'
  BY <1>h DEF IInv, RollbackFails, TypeOK, AppliedToWhatWasSeen
<1> QED BY <1>1, <1>2, <1>3, <1>4, <1>5, <1>6, <1>7 DEF IInv

LEMMA ReleaseStep == ASSUME IInv, NEW p \in Runs, Release(p) PROVE IInv'
<1>h. lock = p /\ \A q \in Runs : q # p => pc[q] \notin Holding
  BY OneHolder DEF Release
<1>1. TypeOK'
  BY <1>h DEF IInv, Release, TypeOK
<1>2. Authored'
  BY <1>h DEF IInv, Release, TypeOK, Authored, Absent
<1>3. Moves'
  BY <1>h DEF IInv, Release, TypeOK, Moves
<1>4. Loads'
  BY <1>h DEF IInv, Release, TypeOK, Loads
<1>a. \A q \in Runs : q # p => pc'[q] = pc[q]
  BY DEF IInv, TypeOK, Release
<1>b. pc'[p] = "passed" => pc[p] = "passing"
  BY DEF IInv, TypeOK, Release
<1>c. UNCHANGED <<file, disk, saw, base, undone>> /\ pc'[p] \in EndPCs
  BY DEF IInv, TypeOK, Release
<1>d. pc[p] = "passing" =>
        /\ Len(saw[p]) = Len(base[p]) /\ (saw[p] = base[p] \/ saw[p] \in undone)
        /\ \A doc \in disk : Has(doc, p)
  <2>1. base[p] \in Seq(Runs)
    BY DEF IInv, TypeOK
  <2>2. pc[p] = "passing" => disk = {Append(base[p], p)} /\ Len(saw[p]) = Len(base[p])
    BY DEF IInv, Moves, Loads
  <2>3. pc[p] = "passing" => \A doc \in disk : Has(doc, p)
    <3>1. Prefix(Append(base[p], p), Append(base[p], p))
      BY <2>1, Appended, Prefixes
    <3> QED BY <2>2, <3>1 DEF Has
  <2> QED BY <2>2, <2>3 DEF IInv, Loads
<1>5. Kept'
  BY <1>h, <1>a, <1>b, <1>c, <1>d DEF IInv, Kept, Has
<1>6. OneWinnerPerVersion'
  <2>1. ASSUME NEW q \in Runs, pc[q] = "passed", pc[p] = "passing" PROVE Len(saw[q]) < Len(saw[p])
    <3>1. Prefix(Append(base[q], q), base[p]) /\ Len(saw[q]) = Len(base[q])
      BY <2>1 DEF IInv, Kept, Has
    <3>2. Len(Append(base[q], q)) = Len(base[q]) + 1 /\ Len(base[q]) \in Nat /\ Len(base[p]) \in Nat
      BY Appended DEF IInv, TypeOK
    <3> QED BY <1>d, <2>1, <3>1, <3>2 DEF Prefix
  <2>2. \A q \in Runs : Len(saw[q]) \in Nat
    BY DEF IInv, TypeOK
  <2> QED BY <1>a, <1>b, <1>c, <2>1, <2>2 DEF IInv, OneWinnerPerVersion
<1>7. AppliedToWhatWasSeen'
  BY <1>a, <1>b, <1>c, <1>d DEF IInv, AppliedToWhatWasSeen
<1> QED BY <1>1, <1>2, <1>3, <1>4, <1>5, <1>6, <1>7 DEF IInv

LEMMA KillStep == ASSUME IInv, NEW p \in Runs, Kill(p) PROVE IInv'
<1>1. TypeOK'
  BY DEF IInv, Kill, TypeOK
<1>2. Authored'
  BY DEF IInv, Kill, TypeOK, Authored, Absent
<1>3. Moves'
  BY DEF IInv, Kill, TypeOK, Moves
<1>4. Loads'
  BY DEF IInv, Kill, TypeOK, Loads
<1>5. Kept'
  BY DEF IInv, Kill, TypeOK, Kept, Has
<1>6. OneWinnerPerVersion'
  BY DEF IInv, Kill, TypeOK, OneWinnerPerVersion
<1>7. AppliedToWhatWasSeen'
  BY DEF IInv, Kill, TypeOK, AppliedToWhatWasSeen
<1> QED BY <1>1, <1>2, <1>3, <1>4, <1>5, <1>6, <1>7 DEF IInv

LEMMA PowerLossStep == ASSUME IInv, PowerLoss PROVE IInv'
<1>1. TypeOK'
  BY DEF IInv, PowerLoss, TypeOK
<1>2. Authored'
  <2>1. \A q \in Runs : Absent(q) => Absent(q)'
    BY DEF PowerLoss, Absent
  <2>2. \A q \in Runs : pc'[q] = IF pc[q] \in RunningPCs THEN "dead" ELSE pc[q]
    BY DEF PowerLoss
  <2>3. UNCHANGED <<base, stuck>>
    BY DEF PowerLoss
  <2> QED BY <2>1, <2>2, <2>3 DEF IInv, Authored
<1>3. Moves'
  BY DEF IInv, PowerLoss, TypeOK, Moves
<1>4. Loads'
  BY DEF IInv, PowerLoss, TypeOK, Loads
<1>5. Kept'
  BY DEF IInv, PowerLoss, TypeOK, Kept, Has
<1>6. OneWinnerPerVersion'
  BY DEF IInv, PowerLoss, TypeOK, OneWinnerPerVersion
<1>7. AppliedToWhatWasSeen'
  BY DEF IInv, PowerLoss, TypeOK, AppliedToWhatWasSeen
<1> QED BY <1>1, <1>2, <1>3, <1>4, <1>5, <1>6, <1>7 DEF IInv

---------------------------------------------------------------------------
\* The initial state satisfies the inductive invariant.
LEMMA InitIInv == ASSUME Init PROVE IInv
<1>1. TypeOK
  BY DEF Init, TypeOK
<1>2. Authored /\ Moves /\ Loads /\ Kept
  BY DEF Init, Authored, Absent, Elements, Moves, Loads, Kept
<1>3. OneWinnerPerVersion /\ AppliedToWhatWasSeen
  BY DEF Init, OneWinnerPerVersion, AppliedToWhatWasSeen
<1> QED BY <1>1, <1>2, <1>3 DEF IInv

\* The steps together.
LEMMA NextIInv == ASSUME IInv, [Next]_vars PROVE IInv'
<1>1. ASSUME NEW p \in Runs, Prepare(p) PROVE IInv'
  BY <1>1, PrepareStep
<1>2. ASSUME NEW p \in Runs, Lock(p) PROVE IInv'
  BY <1>2, LockStep
<1>3. ASSUME NEW p \in Runs, LockFails(p) PROVE IInv'
  BY <1>3, LockFailsStep
<1>4. ASSUME NEW p \in Runs, Load(p) PROVE IInv'
  BY <1>4, LoadStep
<1>5. ASSUME NEW p \in Runs, Refuse(p) PROVE IInv'
  BY <1>5, RefuseStep
<1>6. ASSUME NEW p \in Runs, WriteTemp(p) PROVE IInv'
  BY <1>6, WriteTempStep
<1>7. ASSUME NEW p \in Runs, Replace(p) PROVE IInv'
  BY <1>7, ReplaceStep
<1>8. ASSUME NEW p \in Runs, WriteFails(p) PROVE IInv'
  BY <1>8, WriteFailsStep
<1>9. ASSUME NEW p \in Runs, SyncParent(p) PROVE IInv'
  BY <1>9, SyncParentStep
<1>10. ASSUME NEW p \in Runs, SyncParentFails(p) PROVE IInv'
  BY <1>10, SyncParentFailsStep
<1>11. ASSUME NEW p \in Runs, Restore(p) PROVE IInv'
  BY <1>11, RestoreStep
<1>12. ASSUME NEW p \in Runs, SyncRestored(p) PROVE IInv'
  BY <1>12, SyncRestoredStep
<1>13. ASSUME NEW p \in Runs, RollbackFails(p) PROVE IInv'
  BY <1>13, RollbackFailsStep
<1>14. ASSUME NEW p \in Runs, Release(p) PROVE IInv'
  BY <1>14, ReleaseStep
<1>15. ASSUME NEW p \in Runs, Kill(p) PROVE IInv'
  BY <1>15, KillStep
<1>16. CASE PowerLoss
  BY <1>16, PowerLossStep
<1>17. CASE UNCHANGED vars
  <2> USE <1>17 DEF vars
  <2>1. TypeOK'
    BY DEF IInv, TypeOK
  <2>2. Authored'
    BY DEF IInv, Authored, Absent
  <2>3. Moves'
    BY DEF IInv, Moves
  <2>4. Loads'
    BY DEF IInv, Loads
  <2>5. Kept'
    BY DEF IInv, Kept, Has
  <2>6. OneWinnerPerVersion'
    BY DEF IInv, OneWinnerPerVersion
  <2>7. AppliedToWhatWasSeen'
    BY DEF IInv, AppliedToWhatWasSeen
  <2> QED BY <2>1, <2>2, <2>3, <2>4, <2>5, <2>6, <2>7 DEF IInv
<1> QED
  BY <1>1, <1>2, <1>3, <1>4, <1>5, <1>6, <1>7, <1>8, <1>9, <1>10, <1>11, <1>12, <1>13,
     <1>14, <1>15, <1>16, <1>17 DEF Next, Work, Fault

---------------------------------------------------------------------------
\* The inductive invariant holds throughout (main() of
\* transition-active-standby-state.py with its lock and atomic_write()).
THEOREM Invariance == Spec => []IInv
<1> QED BY InitIInv, NextIInv, PTL DEF Spec

\* Types of the model, and that the flock belongs to the one run between Lock
\* and Release, for any number of runs.
THEOREM TypeCorrect == Spec => []TypeOK
<1>1. IInv => TypeOK
  BY DEF IInv
<1> QED BY <1>1, Invariance, PTL

\* ACTIVE_STANDBY_TRANSITION=PASS is durable: no later run, rollback, kill or
\* power loss takes the transition out of the document or rewrites what is before it.
THEOREM PassIsDurableAlways == Spec => []PassIsDurable
<1>1. IInv => PassIsDurable
  BY DEF IInv, Kept, Has, PassIsDurable
<1> QED BY <1>1, Invariance, PTL

\* Two runs prepared against one state_version never both pass.
THEOREM OneWinnerPerVersionAlways == Spec => []OneWinnerPerVersion
<1>1. IInv => OneWinnerPerVersion
  BY DEF IInv
<1> QED BY <1>1, Invariance, PTL

\* A transition that passed was applied to the document its operator looked
\* at, unless that document had been taken back.
THEOREM AppliedToWhatWasSeenAlways == Spec => []AppliedToWhatWasSeen
<1>1. IInv => AppliedToWhatWasSeen
  BY DEF IInv
<1> QED BY <1>1, Invariance, PTL

\* FAIL stays out: unless the rollback itself failed, nothing of a refused
\* transition is in any document a power loss may leave.
THEOREM RolledBackForGoodAlways == Spec => []RolledBackForGood
<1>1. IInv => RolledBackForGood
  BY DEF IInv, Authored, Absent, RolledBackForGood
<1> QED BY <1>1, Invariance, PTL
=============================================================================
