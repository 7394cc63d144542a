----------------------------- MODULE PairCommit -----------------------------
(***************************************************************************)
(* The two-file update that shared/scripts/render-client-release-          *)
(* snapshots.py and render-client-upgrade-package.py share: remember the   *)
(* first file, prepare both temporary files, rename one, rename the other, *)
(* and put the first one back when the second rename fails.  Nothing locks *)
(* the pair.  Any system call may fail and any process be killed; a        *)
(* temporary file left behind has a name of its own and is never read.     *)
(***************************************************************************)
CONSTANTS Procs, Contents, None

VARIABLES
  file,       \* the two files: contents, or None
  pc,         \* where a process is
  want,       \* the pair of contents it renders
  prior,      \* what the first file held when it looked
  last,       \* the pair last rendered completely (history)
  alone,      \* by process: no other has run since it began (history)
  broken      \* a kill, a failed restore or an overlap since (history)

Files == {1, 2}
Pairs == [Files -> Contents]
Midway == {"second", "restore"}       \* the first file is new, the second is not
Steps == {"idle", "prior", "first"} \cup Midway

Nothing == [f \in Files |-> None]

Goto(p, s) == pc' = [pc EXCEPT ![p] = s]
\* A process ends, and what it remembers with it.
End(p) ==
    /\ Goto(p, "idle")
    /\ want' = [want EXCEPT ![p] = Nothing] /\ prior' = [prior EXCEPT ![p] = None]
NobodyElse(p) == \A q \in Procs \ {p} : pc[q] = "idle"

(* The sources are read: what is to be written is settled. *)
Begin(p, pair) ==
    /\ pc[p] = "idle" /\ Goto(p, "prior")
    /\ want' = [want EXCEPT ![p] = pair]
    /\ alone' = [q \in Procs |-> q = p /\ NobodyElse(p)]
    /\ broken' = (broken \/ ~NobodyElse(p))
    /\ UNCHANGED <<file, prior, last>>

(* read_prior_output(), then prepare_atomic_temp() twice *)
Prepare(p) ==
    /\ pc[p] = "prior" /\ Goto(p, "first")
    /\ prior' = [prior EXCEPT ![p] = file[1]]
    /\ UNCHANGED <<file, want, last, alone, broken>>

(* commit_pair(): the two renames *)
ReplaceFirst(p) ==
    /\ pc[p] = "first" /\ Goto(p, "second")
    /\ file' = [file EXCEPT ![1] = want[p][1]]
    /\ UNCHANGED <<want, prior, last, alone, broken>>
ReplaceSecond(p) ==
    /\ pc[p] = "second" /\ End(p)
    /\ file' = [file EXCEPT ![2] = want[p][2]]
    /\ last' = want[p]
    /\ broken' = (broken /\ ~alone[p])
    /\ UNCHANGED alone

(* A call fails before anything is replaced. *)
Refuse(p) ==
    /\ pc[p] \in {"prior", "first"} /\ End(p)
    /\ UNCHANGED <<file, last, alone, broken>>

SecondFails(p) ==
    /\ pc[p] = "second" /\ Goto(p, "restore")
    /\ UNCHANGED <<file, want, prior, last, alone, broken>>

(* Fault variant: the first output is removed, as if it had been absent. *)
RemoveFirst(p) ==
    /\ pc[p] = "restore" /\ End(p)
    /\ file' = [file EXCEPT ![1] = None]
    /\ UNCHANGED <<last, alone, broken>>
(* restore_prior_output(); a first file that was absent is removed again. *)
Restore(p) ==
    /\ pc[p] = "restore" /\ End(p)
    /\ file' = [file EXCEPT ![1] = prior[p]]
    /\ UNCHANGED <<last, alone, broken>>
RestoreFails(p) ==
    /\ pc[p] = "restore" /\ End(p) /\ broken' = TRUE
    /\ UNCHANGED <<file, last, alone>>

Kill(p) ==
    /\ pc[p] # "idle" /\ End(p)
    /\ broken' = (broken \/ pc[p] \in Midway)
    /\ UNCHANGED <<file, last, alone>>

Continue(p) ==
    \/ Prepare(p) \/ ReplaceFirst(p) \/ ReplaceSecond(p)
    \/ Refuse(p) \/ SecondFails(p) \/ Restore(p) \/ RestoreFails(p) \/ Kill(p)

PairInit(pair) ==
    /\ file = pair /\ last = pair /\ broken = FALSE
    /\ pc = [p \in Procs |-> "idle"] /\ want = [p \in Procs |-> Nothing]
    /\ prior = [p \in Procs |-> None] /\ alone = [p \in Procs |-> FALSE]

PairTypeOK ==
    /\ file \in [Files -> Contents \cup {None}]
    /\ pc \in [Procs -> Steps]
    /\ want \in [Procs -> [Files -> Contents \cup {None}]]
    /\ prior \in [Procs -> Contents \cup {None}]
    /\ last \in [Files -> Contents \cup {None}]
    /\ alone \in [Procs -> BOOLEAN] /\ broken \in BOOLEAN

(* Whatever fails, the two files together are what one rendering wrote,    *)
(* except while one is between its renames - unless a process was killed   *)
(* there, a restore failed too, or two renderings overlapped.              *)
PairWhole == ~broken /\ (\A p \in Procs : pc[p] \notin Midway) => file = last
=============================================================================
