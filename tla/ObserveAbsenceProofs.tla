------------------------ MODULE ObserveAbsenceProofs ------------------------
(***************************************************************************)
(* Proofs about ObserveAbsence for every number of epochs, every deadline  *)
(* and every length of the chain.                                          *)
(***************************************************************************)
EXTENDS ObserveAbsence, TLAPS

\* The script has its baseline and has not failed: it is inside the loop, or
\* about to publish, or has published.
Observing == pc \in {"poll", "head", "fin", "ask", "judge", "endFin", "publish"}
             \/ outcome = "observed"

\* It has not asked about any epoch yet.
Starting == pc \in {"precheck", "startFin", "startHead"}

\* A run that has not ended has no outcome yet.
RunOpen == pc # "done" <=> outcome = "none"

\* The answers so far: a gapless interval from the baseline, up to the epoch
\* before the next question in the middle of a poll, to last_checked else.
Interval ==
  /\ Starting => consec = 0 /\ silent = {}
  /\ Observing => /\ startEpoch <= lastChecked + 1
                  /\ lastChecked < MaxHead
  /\ Observing /\ pc # "ask" => /\ silent = startEpoch..lastChecked
                                /\ consec = lastChecked - startEpoch + 1
  /\ pc = "ask" => /\ silent = startEpoch..(epoch - 1)
                   /\ consec = epoch - startEpoch
                   /\ startEpoch <= epoch /\ epoch <= target

\* Nothing is asked, or will be, about an epoch that is not over.  Only a
\* node that falls back makes the head smaller again.
OnlyCompleted ==
  /\ target < MaxHead
  /\ ~regressed => /\ target < head
                   /\ \A e \in silent : e < head /\ e \notin prompt

\* Nothing is published without enough epochs, and enough finality.
Sufficient ==
  /\ pc \in {"endFin", "publish"} \/ outcome = "observed" =>
       consec >= MinEpochs
  /\ pc = "endFin" => finSeen - startFin >= MinEpochs

\* Why finality has advanced when it is read for the last time.  Either the
\* baseline was read from one state of the chain, so that its head was two
\* epochs past its finalized epoch, or the node fell back in between, and
\* does not do so again.
Advance ==
  /\ pc = "startHead" => (~regressed => startFin <= fin)
  /\ Starting => finSeen = 0
  /\ Observing /\ outcome = "none" =>
       startFin + 2 <= startEpoch \/ (regressed /\ finSeen <= fin)
  /\ pc = "publish" \/ outcome = "observed" => endFin - startFin >= MinEpochs

IInv == TypeOK /\ RunOpen /\ Interval /\ OnlyCompleted /\ Sufficient /\ Advance

USE ObserverAssumption DEF Epochs, Requests, Observing, Starting, chain,
    baseline, poll, record

LEMMA InitInv == Init => IInv
<1> SUFFICES ASSUME Init PROVE IInv
  OBVIOUS
<1>1. head \in Epochs /\ fin \in Epochs /\ fin + 2 <= head /\ MaxHead >= 2
  BY DEF Init
<1>2. TypeOK
  <2>1. /\ 0 \in Epochs /\ 0 \in 0..MaxWait
        /\ -1 \in -1..MaxHead
    BY <1>1
  <2>q. QED BY <1>1, <2>1 DEF Init, TypeOK
<1>3. RunOpen /\ Interval /\ OnlyCompleted /\ Sufficient /\ Advance
  BY <1>1 DEF Init, RunOpen, Interval, OnlyCompleted, Sufficient, Advance
<1>q. QED BY <1>2, <1>3 DEF IInv

\* The chain: nothing it does reaches the script before the next answer.
LEMMA NewEpochInv == ASSUME IInv, NewEpoch PROVE IInv'
<1> USE DEF NewEpoch
<1>1. TypeOK'
  BY DEF IInv, TypeOK, OnlyCompleted, Interval
<1>2. RunOpen'
  BY DEF IInv, TypeOK, RunOpen
<1>3. Interval'
  BY DEF IInv, TypeOK, Interval
<1>4. OnlyCompleted'
  BY DEF IInv, TypeOK, OnlyCompleted
<1>5. Sufficient'
  BY DEF IInv, TypeOK, Sufficient
<1>6. Advance'
  BY DEF IInv, TypeOK, Advance
<1>q. QED BY <1>1, <1>2, <1>3, <1>4, <1>5, <1>6 DEF IInv

LEMMA IncludeInv == ASSUME IInv, Include PROVE IInv'
<1> USE DEF Include
<1>1. TypeOK'
  BY DEF IInv, TypeOK, OnlyCompleted, Interval
<1>2. RunOpen'
  BY DEF IInv, TypeOK, RunOpen
<1>3. Interval'
  BY DEF IInv, TypeOK, Interval
<1>4. OnlyCompleted'
  BY DEF IInv, TypeOK, OnlyCompleted
<1>5. Sufficient'
  BY DEF IInv, TypeOK, Sufficient
<1>6. Advance'
  BY DEF IInv, TypeOK, Advance
<1>q. QED BY <1>1, <1>2, <1>3, <1>4, <1>5, <1>6 DEF IInv

LEMMA RegressInv == ASSUME IInv, Regress PROVE IInv'
<1> USE DEF Regress
<1>1. TypeOK'
  BY DEF IInv, TypeOK, OnlyCompleted, Interval
<1>2. RunOpen'
  BY DEF IInv, TypeOK, RunOpen
<1>3. Interval'
  BY DEF IInv, TypeOK, Interval
<1>4. OnlyCompleted'
  BY DEF IInv, TypeOK, OnlyCompleted
<1>5. Sufficient'
  BY DEF IInv, TypeOK, Sufficient
<1>6. Advance'
  BY DEF IInv, TypeOK, Advance
<1>q. QED BY <1>1, <1>2, <1>3, <1>4, <1>5, <1>6 DEF IInv

LEMMA TickInv == ASSUME IInv, Tick PROVE IInv'
<1> USE DEF Tick
<1>1. TypeOK'
  BY DEF IInv, TypeOK, OnlyCompleted, Interval
<1>2. RunOpen'
  BY DEF IInv, TypeOK, RunOpen
<1>3. Interval'
  BY DEF IInv, TypeOK, Interval
<1>4. OnlyCompleted'
  BY DEF IInv, TypeOK, OnlyCompleted
<1>5. Sufficient'
  BY DEF IInv, TypeOK, Sufficient
<1>6. Advance'
  BY DEF IInv, TypeOK, Advance
<1>q. QED BY <1>1, <1>2, <1>3, <1>4, <1>5, <1>6 DEF IInv


\* The baseline.
LEMMA PrecheckInv == ASSUME IInv, Precheck PROVE IInv'
<1> USE DEF Precheck
<1>1. TypeOK'
  BY DEF IInv, TypeOK, OnlyCompleted, Interval
<1>2. RunOpen'
  BY DEF IInv, TypeOK, RunOpen
<1>3. Interval'
  BY DEF IInv, TypeOK, Interval
<1>4. OnlyCompleted'
  BY DEF IInv, TypeOK, OnlyCompleted
<1>5. Sufficient'
  BY DEF IInv, TypeOK, Sufficient
<1>6. Advance'
  BY DEF IInv, TypeOK, Advance
<1>q. QED BY <1>1, <1>2, <1>3, <1>4, <1>5, <1>6 DEF IInv

LEMMA ReadStartFinInv == ASSUME IInv, ReadStartFin PROVE IInv'
<1> USE DEF ReadStartFin
<1>1. TypeOK'
  BY DEF IInv, TypeOK, OnlyCompleted, Interval
<1>2. RunOpen'
  BY DEF IInv, TypeOK, RunOpen
<1>3. Interval'
  BY DEF IInv, TypeOK, Interval
<1>4. OnlyCompleted'
  BY DEF IInv, TypeOK, OnlyCompleted
<1>5. Sufficient'
  BY DEF IInv, TypeOK, Sufficient
<1>6. Advance'
  <2>1. startFin' = fin /\ fin \in Nat /\ outcome = "none"
    BY DEF IInv, TypeOK, RunOpen
  <2>q. QED BY <2>1 DEF IInv, Advance
<1>q. QED BY <1>1, <1>2, <1>3, <1>4, <1>5, <1>6 DEF IInv

LEMMA ReadStartHeadInv == ASSUME IInv, ReadStartHead PROVE IInv'
<1> USE DEF ReadStartHead
<1>1. TypeOK'
  BY DEF IInv, TypeOK, OnlyCompleted, Interval
<1>2. RunOpen'
  BY DEF IInv, TypeOK, RunOpen
<1>3. Interval'
  <2>1. head..(head - 1) = {} /\ head - 1 < MaxHead /\ head <= MaxHead
    BY DEF IInv, TypeOK
  <2>2. silent = {} /\ consec = 0 /\ (head - 1) - head + 1 = 0 /\ head <= (head - 1) + 1
    BY DEF IInv, TypeOK, Interval
  <2>q. QED BY <2>1, <2>2 DEF IInv, Interval
<1>4. OnlyCompleted'
  BY DEF IInv, TypeOK, OnlyCompleted
<1>5. Sufficient'
  BY DEF IInv, TypeOK, Sufficient
<1>6. Advance'
  BY DEF IInv, TypeOK, Advance
<1>q. QED BY <1>1, <1>2, <1>3, <1>4, <1>5, <1>6 DEF IInv


\* One poll.
LEMMA PollInv == ASSUME IInv, Poll PROVE IInv'
<1> USE DEF Poll, InTime, End
<1>1. TypeOK'
  BY DEF IInv, TypeOK, OnlyCompleted, Interval
<1>2. RunOpen'
  BY DEF IInv, TypeOK, RunOpen
<1>3. Interval'
  BY DEF IInv, TypeOK, Interval
<1>4. OnlyCompleted'
  BY DEF IInv, TypeOK, OnlyCompleted
<1>5. Sufficient'
  BY DEF IInv, TypeOK, Sufficient
<1>6. Advance'
  BY DEF IInv, TypeOK, Advance
<1>q. QED BY <1>1, <1>2, <1>3, <1>4, <1>5, <1>6 DEF IInv

LEMMA ReadHeadInv == ASSUME IInv, ReadHead PROVE IInv'
<1> USE DEF ReadHead, Completed
<1>1. TypeOK'
  BY DEF IInv, TypeOK, OnlyCompleted, Interval
<1>2. RunOpen'
  BY DEF IInv, TypeOK, RunOpen
<1>3. Interval'
  BY DEF IInv, TypeOK, Interval
<1>4. OnlyCompleted'
  BY DEF IInv, TypeOK, OnlyCompleted
<1>5. Sufficient'
  BY DEF IInv, TypeOK, Sufficient
<1>6. Advance'
  BY DEF IInv, TypeOK, Advance
<1>q. QED BY <1>1, <1>2, <1>3, <1>4, <1>5, <1>6 DEF IInv

LEMMA ReadFinInv == ASSUME IInv, ReadFin PROVE IInv'
<1> USE DEF ReadFin
<1>1. TypeOK'
  BY DEF IInv, TypeOK, OnlyCompleted, Interval
<1>2. RunOpen'
  BY DEF IInv, TypeOK, RunOpen
<1>3. Interval'
  BY DEF IInv, TypeOK, Interval
<1>4. OnlyCompleted'
  BY DEF IInv, TypeOK, OnlyCompleted
<1>5. Sufficient'
  BY DEF IInv, TypeOK, Sufficient
<1>6. Advance'
  BY DEF IInv, TypeOK, Advance
<1>q. QED BY <1>1, <1>2, <1>3, <1>4, <1>5, <1>6 DEF IInv

LEMMA AskInv == ASSUME IInv, Ask PROVE IInv'
<1> USE DEF Ask, LastOfPoll, End
<1>1. TypeOK'
  BY DEF IInv, TypeOK, OnlyCompleted, Interval
<1>2. RunOpen'
  BY DEF IInv, TypeOK, RunOpen
<1>3. Interval'
  <2>1. CASE epoch \in live
    <3>1. outcome' = "duplicate" /\ pc' = "done"
      BY <2>1
    <3>q. QED BY <3>1 DEF Interval
  <2>2. CASE epoch \notin live
    <3>1. /\ epoch \in Int /\ startEpoch \in Int /\ consec \in Int /\ target \in Int
          /\ startEpoch <= epoch /\ epoch <= target /\ target < MaxHead
          /\ silent = startEpoch..(epoch - 1) /\ consec = epoch - startEpoch
          /\ startEpoch <= lastChecked + 1 /\ lastChecked < MaxHead
          /\ outcome = "none"
      BY DEF IInv, TypeOK, RunOpen, Interval, OnlyCompleted
    <3>2. silent' = startEpoch..epoch /\ consec' = epoch - startEpoch + 1
      <4>1. (startEpoch..(epoch - 1)) \union {epoch} = startEpoch..epoch
        BY <3>1
      <4>q. QED BY <2>2, <3>1, <4>1
    <3>3. epoch = (epoch + 1) - 1 /\ epoch - startEpoch + 1 = (epoch + 1) - startEpoch
      BY <3>1
    <3>4. CASE LastOfPoll
      <4>1. pc' = "judge" /\ lastChecked' = epoch /\ startEpoch' = startEpoch
        BY <2>2, <3>4
      <4>q. QED BY <3>1, <3>2, <4>1 DEF Interval
    <3>5. CASE ~LastOfPoll
      <4>1. /\ pc' = "ask" /\ epoch' = epoch + 1 /\ epoch + 1 <= target
            /\ UNCHANGED <<startEpoch, target, lastChecked, outcome>>
        BY <2>2, <3>1, <3>5
      <4>2. startEpoch <= epoch + 1
        BY <3>1
      <4>q. QED BY <3>1, <3>2, <3>3, <4>1, <4>2 DEF Interval
    <3>q. QED BY <3>4, <3>5
  <2>q. QED BY <2>1, <2>2
<1>4. OnlyCompleted'
  <2>1. epoch \in Int /\ target \in Int /\ head \in Int /\ epoch <= target
    BY DEF IInv, TypeOK, Interval
  <2>2. epoch \in prompt => epoch \in live
    BY DEF IInv, TypeOK
  <2>3. UNCHANGED <<target, regressed, head, prompt>>
    OBVIOUS
  <2>4. silent' = silent \/ (epoch \notin live /\ silent' = silent \union {epoch})
    OBVIOUS
  <2>q. QED BY <2>1, <2>2, <2>3, <2>4 DEF IInv, OnlyCompleted
<1>5. Sufficient'
  BY DEF IInv, TypeOK, Sufficient
<1>6. Advance'
  BY DEF IInv, TypeOK, Advance
<1>q. QED BY <1>1, <1>2, <1>3, <1>4, <1>5, <1>6 DEF IInv

LEMMA JudgeInv == ASSUME IInv, Judge PROVE IInv'
<1> USE DEF Judge, Enough, End
<1>1. TypeOK'
  BY DEF IInv, TypeOK, OnlyCompleted, Interval
<1>2. RunOpen'
  BY DEF IInv, TypeOK, RunOpen
<1>3. Interval'
  BY DEF IInv, TypeOK, Interval
<1>4. OnlyCompleted'
  BY DEF IInv, TypeOK, OnlyCompleted
<1>5. Sufficient'
  BY DEF IInv, TypeOK, Sufficient
<1>6. Advance'
  BY DEF IInv, TypeOK, Advance
<1>q. QED BY <1>1, <1>2, <1>3, <1>4, <1>5, <1>6 DEF IInv


\* The end of the run.
LEMMA ReadEndFinInv == ASSUME IInv, ReadEndFin PROVE IInv'
<1> USE DEF ReadEndFin, Settled, End
<1>1. TypeOK'
  BY DEF IInv, TypeOK, OnlyCompleted, Interval
<1>2. RunOpen'
  BY DEF IInv, TypeOK, RunOpen
<1>3. Interval'
  BY DEF IInv, TypeOK, Interval
<1>4. OnlyCompleted'
  BY DEF IInv, TypeOK, OnlyCompleted
<1>5. Sufficient'
  BY DEF IInv, TypeOK, Sufficient
<1>6. Advance'
  <2>1. /\ endFin' = fin /\ outcome = "none" /\ pc = "endFin"
        /\ UNCHANGED <<startFin, startEpoch, finSeen, fin, regressed>>
        /\ outcome' # "observed" /\ pc' \in {"publish", "done"}
    BY DEF IInv, RunOpen
  <2>2. CASE Settled(fin)
    <3>1. /\ fin \in Int /\ startFin \in Int /\ startEpoch \in Int
          /\ finSeen \in Int /\ lastChecked \in Int /\ consec \in Int
          /\ lastChecked <= fin /\ consec >= MinEpochs
          /\ finSeen - startFin >= MinEpochs
          /\ consec = lastChecked - startEpoch + 1
          /\ startFin + 2 <= startEpoch \/ finSeen <= fin
      BY <2>1, <2>2 DEF IInv, TypeOK, Interval, Sufficient, Advance
    <3>2. fin - startFin >= MinEpochs
      BY <3>1
    <3>3. pc' = "publish" /\ outcome' = "none"
      BY <2>1, <2>2
    <3>4. startFin + 2 <= startEpoch \/ (regressed /\ finSeen <= fin)
      BY <2>1 DEF IInv, Advance
    <3>q. QED BY <2>1, <3>2, <3>3, <3>4 DEF Advance
  <2>3. CASE ~Settled(fin)
    <3>1. pc' = "done" /\ outcome' = "unfinalized"
      BY <2>3
    <3>q. QED BY <3>1 DEF Advance
  <2>q. QED BY <2>2, <2>3
<1>q. QED BY <1>1, <1>2, <1>3, <1>4, <1>5, <1>6 DEF IInv

LEMMA PublishInv == ASSUME IInv, Publish PROVE IInv'
<1> USE DEF Publish, End
<1>1. TypeOK'
  BY DEF IInv, TypeOK, OnlyCompleted, Interval
<1>2. RunOpen'
  BY DEF IInv, TypeOK, RunOpen
<1>3. Interval'
  BY DEF IInv, TypeOK, Interval
<1>4. OnlyCompleted'
  BY DEF IInv, TypeOK, OnlyCompleted
<1>5. Sufficient'
  BY DEF IInv, TypeOK, Sufficient
<1>6. Advance'
  BY DEF IInv, TypeOK, Advance
<1>q. QED BY <1>1, <1>2, <1>3, <1>4, <1>5, <1>6 DEF IInv

LEMMA RequestFailsInv == ASSUME IInv, RequestFails PROVE IInv'
<1> USE DEF RequestFails, End
<1>1. TypeOK'
  BY DEF IInv, TypeOK, OnlyCompleted, Interval
<1>2. RunOpen'
  BY DEF IInv, TypeOK, RunOpen
<1>3. Interval'
  BY DEF IInv, TypeOK, Interval
<1>4. OnlyCompleted'
  BY DEF IInv, TypeOK, OnlyCompleted
<1>5. Sufficient'
  BY DEF IInv, TypeOK, Sufficient
<1>6. Advance'
  BY DEF IInv, TypeOK, Advance
<1>q. QED BY <1>1, <1>2, <1>3, <1>4, <1>5, <1>6 DEF IInv

LEMMA SignalInv == ASSUME IInv, Signal PROVE IInv'
<1> USE DEF Signal, End
<1>1. TypeOK'
  BY DEF IInv, TypeOK, OnlyCompleted, Interval
<1>2. RunOpen'
  BY DEF IInv, TypeOK, RunOpen
<1>3. Interval'
  BY DEF IInv, TypeOK, Interval
<1>4. OnlyCompleted'
  BY DEF IInv, TypeOK, OnlyCompleted
<1>5. Sufficient'
  BY DEF IInv, TypeOK, Sufficient
<1>6. Advance'
  BY DEF IInv, TypeOK, Advance
<1>q. QED BY <1>1, <1>2, <1>3, <1>4, <1>5, <1>6 DEF IInv

LEMMA NextInv == IInv /\ [Next]_vars => IInv'
<1> SUFFICES ASSUME IInv, [Next]_vars PROVE IInv'
  OBVIOUS
<1>1. CASE Script
  BY <1>1, PrecheckInv, ReadStartFinInv, ReadStartHeadInv, PollInv,
     ReadHeadInv, ReadFinInv, AskInv, JudgeInv, ReadEndFinInv, PublishInv
     DEF Script
<1>2. CASE RequestFails \/ Signal
  BY <1>2, RequestFailsInv, SignalInv
<1>3. CASE Environment
  BY <1>3, NewEpochInv, IncludeInv, RegressInv, TickInv DEF Environment
<1>4. CASE UNCHANGED vars
  <2>1. TypeOK'
    BY <1>4 DEF vars, IInv, TypeOK
  <2>2. RunOpen'
    BY <1>4 DEF vars, IInv, RunOpen
  <2>3. Interval'
    BY <1>4 DEF vars, IInv, Interval
  <2>4. OnlyCompleted'
    BY <1>4 DEF vars, IInv, OnlyCompleted
  <2>5. Sufficient'
    BY <1>4 DEF vars, IInv, Sufficient
  <2>6. Advance'
    BY <1>4 DEF vars, IInv, Advance
  <2>q. QED BY <2>1, <2>2, <2>3, <2>4, <2>5, <2>6 DEF IInv
<1>q. QED BY <1>1, <1>2, <1>3, <1>4 DEF Next, Done

THEOREM Invariance == Spec => []IInv
  BY InitInv, NextInv, PTL DEF Spec

-----------------------------------------------------------------------------
\* The types of the run's and the chain's state, and with them that no
\* question reaches beyond the chain's last epoch.
THEOREM TypeCorrect == Spec => []TypeOK
<1>1. IInv => TypeOK
  BY DEF IInv
<1>q. QED BY <1>1, Invariance, PTL

\* The evidence names every epoch of its interval once, whatever the head
\* did between the polls.
THEOREM NoEpochSkippedAlways == Spec => []NoEpochSkipped
<1>1. IInv => NoEpochSkipped
  BY DEF IInv, TypeOK, RunOpen, Interval, Sufficient, NoEpochSkipped
<1>q. QED BY <1>1, Invariance, PTL

\* A validator included within its epoch is never recorded as absent for it,
\* for any number of inclusions, unless the node fell back.
THEOREM PromptSignerIsSeenAlways == Spec => []PromptSignerIsSeen
<1>1. IInv => PromptSignerIsSeen
  BY DEF IInv, OnlyCompleted, PromptSignerIsSeen
<1>q. QED BY <1>1, Invariance, PTL

\* The finalized epochs of the evidence are at least MinEpochs apart, even
\* when the node fell back during the run.
THEOREM FinalityAdvancedAlways == Spec => []FinalityAdvanced
<1>1. IInv => FinalityAdvanced
  BY DEF IInv, Advance, FinalityAdvanced
<1>q. QED BY <1>1, Invariance, PTL
=============================================================================
