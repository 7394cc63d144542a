--------------------------- MODULE ObserveAbsence ---------------------------
(***************************************************************************)
(* One run of observe-absence.sh (F2) against its beacon node: it asks,    *)
(* epoch by epoch, whether the validator was seen alive, until enough      *)
(* completed epochs were silent and finality has moved, and then writes    *)
(* the negative evidence the activation gate requires.                     *)
(*                                                                         *)
(* Every answer of the node is a step of its own, and the chain, the       *)
(* clock, signals and failing requests move between any two of them.  The  *)
(* chain is counted in epochs: what the script calls head_slot / 32 is     *)
(* head here.  The evidence is what the variables of the run hold when     *)
(* outcome becomes "observed"; how it reaches the directory is the module  *)
(* EvidenceStore.                                                          *)
(***************************************************************************)
EXTENDS Integers, FiniteSets

CONSTANTS MinEpochs,  \* --min-epochs
          MaxWait,    \* --max-wait-min, in ticks of the clock
          MaxHead,    \* bound: the last epoch the chain reaches
          MaxLive     \* bound: epochs in which the validator is included

ASSUME ObserverAssumption == /\ MinEpochs \in Nat \ {0}
                             /\ MaxWait \in Nat \ {0}
                             /\ MaxHead \in Nat
                             /\ MaxLive \in Nat

VARIABLES
  head, fin,     \* head and finalized epoch the node answers with
  live,          \* epochs for which the node has seen the validator
  prompt,        \* those it saw before the epoch was over
  steady,        \* every epoch was finalized as early as the protocol can
  regressed,     \* the node fell back once (restart from an older state)
  clock,
  pc,            \* next request or decision of the script
  startFin, startEpoch, lastChecked,   \* baseline, and last_checked
  target, epoch, finSeen,              \* of this poll: target, e, fin
  consec, silent,                      \* consec, and the epochs in results
  endFin, outcome

chain == <<head, fin, live, prompt, steady, regressed>>
baseline == <<startFin, startEpoch>>
poll == <<target, epoch, finSeen>>
record == <<lastChecked, consec, silent>>
vars == <<chain, clock, pc, baseline, poll, record, endFin, outcome>>

Epochs == 0..MaxHead

Requests == {"precheck", "startFin", "startHead", "head", "fin", "ask", "endFin"}

TypeOK ==
  /\ head \in Epochs /\ fin \in Epochs /\ fin + 2 <= head
  /\ live \subseteq Epochs /\ prompt \subseteq live
  /\ steady \in BOOLEAN /\ regressed \in BOOLEAN
  /\ clock \in 0..MaxWait
  /\ pc \in Requests \union {"poll", "judge", "publish", "done"}
  /\ startFin \in Epochs /\ startEpoch \in Epochs
  /\ lastChecked \in -1..MaxHead /\ target \in -1..MaxHead
  /\ epoch \in Epochs /\ finSeen \in Epochs
  /\ consec \in Epochs /\ silent \subseteq Epochs
  /\ endFin \in Epochs
  /\ outcome \in {"none", "observed", "duplicate", "timeout", "regressed",
                  "unfinalized", "failed"}

Init ==
  /\ head \in {h \in Epochs : 2 <= h /\ h <= 3}
  /\ fin \in {f \in Epochs : f + 2 <= head}
  /\ live = {} /\ prompt = {}
  /\ steady = (fin = head - 2) /\ regressed = FALSE
  /\ clock = 0
  /\ pc = "precheck"
  /\ startFin = 0 /\ startEpoch = 0 /\ lastChecked = -1
  /\ target = -1 /\ epoch = 0 /\ finSeen = 0
  /\ consec = 0 /\ silent = {}
  /\ endFin = 0 /\ outcome = "none"

-----------------------------------------------------------------------------
(* The chain, as its node reports it, and the clock.                       *)

\* An epoch ends.  The checkpoint of the epoch before the last is final at
\* the earliest then; finality may also lag or catch up.
NewEpoch ==
  /\ head < MaxHead
  /\ head' = head + 1
  /\ \E f \in Epochs : /\ fin <= f /\ f + 2 <= head + 1
                       /\ fin' = f
                       /\ steady' = (steady /\ f = head - 1)
  /\ UNCHANGED <<live, prompt, regressed, clock, pc, baseline, poll, record,
                 endFin, outcome>>

\* A vote of the validator is included: during its epoch, or late, during
\* the one after, which is the last that may include it.
Include ==
  /\ Cardinality(live) < MaxLive
  /\ \E e \in {head - 1, head} :
       /\ e \notin live
       /\ live' = live \union {e}
       /\ prompt' = IF e = head THEN prompt \union {e} ELSE prompt
  /\ UNCHANGED <<head, fin, steady, regressed, clock, pc, baseline, poll,
                 record, endFin, outcome>>

\* The node falls back to an older head and an older finalized epoch.
Regress ==
  /\ ~regressed
  /\ \E h \in Epochs, f \in Epochs :
       /\ h < head /\ f <= fin /\ f + 2 <= h
       /\ head' = h /\ fin' = f
  /\ regressed' = TRUE /\ steady' = FALSE
  /\ UNCHANGED <<live, prompt, clock, pc, baseline, poll, record, endFin,
                 outcome>>

Tick ==
  /\ clock < MaxWait
  /\ clock' = clock + 1
  /\ UNCHANGED <<chain, pc, baseline, poll, record, endFin, outcome>>

Environment == NewEpoch \/ Include \/ Regress \/ Tick

-----------------------------------------------------------------------------
(* The script.                                                             *)

\* Every way out of the script.
End(reason) == pc' = "done" /\ outcome' = reason

\* The node is synchronised, on the expected chain, and knows the validator.
Precheck ==
  /\ pc = "precheck" /\ pc' = "startFin"
  /\ UNCHANGED <<chain, clock, baseline, poll, record, endFin, outcome>>

ReadStartFin ==
  /\ pc = "startFin" /\ pc' = "startHead"
  /\ startFin' = fin
  /\ UNCHANGED <<chain, clock, startEpoch, poll, record, endFin, outcome>>

ReadStartHead ==
  /\ pc = "startHead" /\ pc' = "poll"
  /\ startEpoch' = head /\ lastChecked' = head - 1
  /\ UNCHANGED <<chain, clock, startFin, poll, consec, silent, endFin, outcome>>

\* Fault variant: the deadline is never reached.
InTimeAlways == TRUE

InTime == clock < MaxWait

\* The head of the loop: the only place where the deadline is looked at.
Poll ==
  /\ pc = "poll"
  /\ IF InTime THEN pc' = "head" /\ UNCHANGED outcome ELSE End("timeout")
  /\ UNCHANGED <<chain, clock, baseline, poll, record, endFin>>

\* Fault variant: the epoch under way counts as complete.
CompletedCurrent == head

\* The newest epoch that is over.
Completed == head - 1

ReadHead ==
  /\ pc = "head" /\ pc' = "fin"
  /\ target' = Completed
  /\ UNCHANGED <<chain, clock, baseline, epoch, finSeen, record, endFin, outcome>>

ReadFin ==
  /\ pc = "fin"
  /\ finSeen' = fin
  /\ IF target > lastChecked
     THEN pc' = "ask" /\ epoch' = lastChecked + 1
     ELSE pc' = "judge" /\ UNCHANGED epoch
  /\ UNCHANGED <<chain, clock, baseline, target, record, endFin, outcome>>

\* Fault variant: one epoch too many.
LastOfPollLate == epoch > target

\* Fault variant: one epoch per poll, however far the head has moved.
LastOfPollFirst == TRUE

\* The pass over the epochs of this poll is complete.
LastOfPoll == epoch = target

\* One liveness request.  A validator that was seen ends the run at once.
Ask ==
  /\ pc = "ask"
  /\ IF epoch \in live
     THEN End("duplicate") /\ UNCHANGED <<epoch, record>>
     ELSE /\ consec' = consec + 1
          /\ silent' = silent \union {epoch}
          /\ epoch' = epoch + 1
          /\ IF LastOfPoll THEN pc' = "judge" /\ lastChecked' = target
                           ELSE UNCHANGED <<pc, lastChecked>>
          /\ UNCHANGED outcome
  /\ UNCHANGED <<chain, clock, baseline, target, finSeen, endFin>>

\* Enough silent epochs, and finality has advanced by as many.
Enough == consec >= MinEpochs /\ finSeen - startFin >= MinEpochs

Judge ==
  /\ pc = "judge"
  /\ IF Enough THEN pc' = "endFin" /\ UNCHANGED outcome
     ELSE IF finSeen < startFin THEN End("regressed")
     ELSE pc' = "poll" /\ UNCHANGED outcome
  /\ UNCHANGED <<chain, clock, baseline, poll, record, endFin>>

\* Fault variant: the boundary is recorded but not compared.
SettledUnchecked(f) == TRUE

\* The last epoch that was asked about must be final.
Settled(f) == lastChecked <= f

ReadEndFin ==
  /\ pc = "endFin"
  /\ endFin' = fin
  /\ IF Settled(fin) THEN pc' = "publish" /\ UNCHANGED outcome
                     ELSE End("unfinalized")
  /\ UNCHANGED <<chain, clock, baseline, poll, record>>

\* The evidence store accepts the record, or refuses it.
Publish ==
  /\ pc = "publish"
  /\ \E r \in {"observed", "failed"} : End(r)
  /\ UNCHANGED <<chain, clock, baseline, poll, record, endFin>>

\* No answer, or one that is not in the expected form.
RequestFails ==
  /\ pc \in Requests
  /\ End("failed")
  /\ UNCHANGED <<chain, clock, baseline, poll, record, endFin>>

Signal ==
  /\ pc # "done"
  /\ End("failed")
  /\ UNCHANGED <<chain, clock, baseline, poll, record, endFin>>

Script == \/ Precheck \/ ReadStartFin \/ ReadStartHead \/ Poll \/ ReadHead
          \/ ReadFin \/ Ask \/ Judge \/ ReadEndFin \/ Publish

Done == pc = "done" /\ UNCHANGED vars

Next == Script \/ RequestFails \/ Signal \/ Environment \/ Done

\* The script is scheduled, each of its requests has a time limit
\* (curl --max-time 10), and time passes.  Nothing is assumed of the chain.
Spec == Init /\ [][Next]_vars /\ WF_vars(Script) /\ WF_vars(Tick)

-----------------------------------------------------------------------------
\* The evidence names an unbroken run of epochs, from the baseline to
\* last_checked_epoch, each answered once and silent, although the head may
\* jump ahead or fall back between polls and the counter, the list and
\* last_checked are kept apart (lines 261-310).
NoEpochSkipped ==
  outcome = "observed" =>
    /\ silent = startEpoch..lastChecked
    /\ consec = lastChecked - startEpoch + 1
    /\ consec >= MinEpochs

\* A validator whose vote for an observed epoch was included before that
\* epoch was over is never recorded as absent: the script asks about an
\* epoch only when it is complete (lines 262, 273).  A node that has fallen back
\* may see the same epoch again, after the question.
PromptSignerIsSeen ==
  outcome = "observed" /\ ~regressed => silent \intersect prompt = {}

\* The finalized epochs in the evidence advance by at least MIN_EPOCHS,
\* as the record of the observation claims, although the end is read anew
\* after the comparison with the start and is itself compared with
\* last_checked only (lines 311-328).
FinalityAdvanced ==
  outcome = "observed" => endFin - startFin >= MinEpochs

\* The script ends, whatever the chain does: a head that stands still, a
\* finality that never comes or a node that falls back runs into the
\* deadline.
RunEnds == <>(pc = "done")

\* What the header says (lines 9-13, 18-19): with enough silent completed
\* epochs, and a finalized checkpoint that advanced meanwhile, the evidence is
\* written; exit code 3 is a wait that was over or a failed precondition, such
\* as a finality that does not advance.  It does not hold of a run that breaks
\* out of its loop: see the run observe_absence_exit3.
ExitThreeMeansTrouble == outcome = "unfinalized" => ~steady
=============================================================================
