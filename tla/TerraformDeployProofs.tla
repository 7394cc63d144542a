------------------------ MODULE TerraformDeployProofs ------------------------
(***************************************************************************)
(* Theorems about TerraformDeploy, for any number of runs, commits and     *)
(* manifests: what a saved plan may do by the time it is applied.          *)
(*                                                                         *)
(* A group admits one run at a time, so the stack of a run's directory     *)
(* does not move between its plan and its apply, and the plan remains the  *)
(* difference from what is there.  The checks after the approval make the  *)
(* approval one of the tip, in time and of the first attempt; a run that   *)
(* is run again still holds an old plan, and never gets past them.         *)
(***************************************************************************)
EXTENDS TerraformDeploy, TLAPS


\* One run of a group is past its queue.
Exclusive ==
    \A q, r \in Runs : q # r /\ dir[q] = dir[r] /\ pc[q] \in Active => pc[r] \notin Active

\* Nothing is newer than main.
Bounded ==
    /\ \A r \in Runs : sha[r] <= main
    /\ \A s \in Stacks : newest[s] <= main

\* What was rendered names the stack of its own directory; nothing newer was applied to it.
Planning == {"show", "plan"}
Rendered ==
    \A r \in Runs : pc[r] \in Planning =>
      /\ attempt[r] = 1
      /\ Renders(Manifest(r))
      /\ newest[dir[r]] <= sha[r]

\* A first attempt has no plan before it made one.
Unplanned == \A r \in Runs : attempt[r] = 1 /\ pc[r] = "queued" => plan[r] = NoPlan

\* The plan of a first attempt is of its stack as it still is.
Holding == {"review"} \cup Checking
Current ==
    \A r \in Runs : attempt[r] = 1 /\ pc[r] \in Holding =>
      /\ plan[r].stack = dir[r]
      /\ newest[dir[r]] <= sha[r]
      /\ \A c \in plan[r].changes : c.from = infra[dir[r]][c.of]

\* And it obeys the policy of its workflow.
Obeys(r, c) ==
    /\ c.to = Gone => "delete" \in c.acts
    /\ "delete" \in c.acts /\ c.of \in Protectable => c.from.guard = "prepared"
    /\ c.to # Gone /\ c.of \in {"node", "rest"} => c.to.commit = sha[r]
Obedient ==
    \A r \in Runs : attempt[r] = 1 /\ pc[r] \in Holding =>
      \A c \in plan[r].changes : Obeys(r, c)

\* A teardown's plan deletes all there is, and a bucket only if it is configured.
Razes(r) ==
    /\ \A c \in plan[r].changes : c.to = Gone /\ (c.of = "bucket" => Manifest(r).staging)
    /\ \A x \in Resources : infra[dir[r]][x] # Gone => \E c \in plan[r].changes : c.of = x
Razing ==
    \A r \in Runs : attempt[r] = 1 /\ pc[r] \in Holding /\ mode[r] = "teardown" => Razes(r)

\* How the checks before the apply bear out the approval.
Vouching ==
    \A r \in Runs :
      /\ pc[r] = "reconfirm" /\ sha[r] = main /\ ~expired[r] /\ attempt[r] = 1 => vouched[r]
      /\ pc[r] = "verify" => attempt[r] = 1 /\ (~expired[r] => vouched[r])
      /\ pc[r] \in {"final", "expiry", "apply"} => attempt[r] = 1 /\ vouched[r]

IInv ==
    /\ TypeOK /\ Exclusive /\ Bounded /\ Rendered /\ Unplanned
    /\ Current /\ Obedient /\ Razing /\ Vouching /\ ResumeAccepted

---------------------------------------------------------------------------
(* What is planned, for any configuration. *)

LEMMA WantedValues ==
  ASSUME NEW d \in Stacks, NEW n \in 1..MaxCommits, NEW v
  PROVE  /\ Wanted(d, n, v) \in [Resources -> Values]
         /\ \A x \in {"node", "rest"} : Wanted(d, n, v)[x].commit = n
         /\ \A x \in {"node", "rest"} : Wanted(d, n, v)[x] # Gone
<1>1. n \in Nat /\ n # 0 /\ n \in 0..MaxCommits /\ 0 \in 0..MaxCommits
  BY CommitsAssumption
<1>2. \A g \in Guards : [guard |-> g, commit |-> n] \in Values /\ [guard |-> g, commit |-> 0] \in Values
  BY <1>1 DEF Values
<1> DEFINE guard == IF v.allow THEN "prepared" ELSE "protected"
<1>3. guard \in Guards /\ guard # "absent" /\ "plain" \in Guards /\ "absent" \in Guards
  BY DEF Guards
<1>4. Gone \in Values
  BY <1>2, <1>3 DEF Gone
<1> HIDE DEF guard
<1>5. Wanted(d, n, v) = [r \in Resources |->
       CASE r = "rest" -> [guard |-> "plain", commit |-> n]
         [] r = "node" -> [guard |-> guard, commit |-> n]
         [] r = "bucket" -> IF d = "primary" /\ v.staging
                            THEN [guard |-> guard, commit |-> 0] ELSE Gone]
  BY DEF Wanted, guard
<1>6. /\ Wanted(d, n, v)["rest"] = [guard |-> "plain", commit |-> n]
      /\ Wanted(d, n, v)["node"] = [guard |-> guard, commit |-> n]
      /\ Wanted(d, n, v)["bucket"] \in {[guard |-> guard, commit |-> 0], Gone}
  BY <1>5 DEF Resources
<1>7. \A x \in Resources : Wanted(d, n, v)[x] \in Values
  BY <1>2, <1>3, <1>4, <1>6 DEF Resources
<1>8. Wanted(d, n, v) \in [Resources -> Values]
  BY <1>5, <1>7
<1> QED BY <1>1, <1>6, <1>8 DEF Gone

LEMMA DestroyedValues == Destroyed \in [Resources -> Values] /\ \A x \in Resources : Destroyed[x] = Gone
BY CommitsAssumption DEF Destroyed, Gone, Values, Guards

LEMMA DiffChanges ==
  ASSUME NEW i \in [Resources -> Values], NEW want \in [Resources -> Values], NEW replaced,
         NEW c \in Diff(i, want, replaced)
  PROVE  /\ c \in Changes
         /\ c.from = i[c.of] /\ c.to = want[c.of]
         /\ c.acts = Acts(c.of, c.from, c.to, replaced)
         /\ c.to = Gone => c.acts = {"delete"}
         /\ c.of \in Resources
<1>1. PICK r \in Resources :
        /\ i[r] # want[r]
        /\ c = [of |-> r, acts |-> Acts(r, i[r], want[r], replaced), from |-> i[r], to |-> want[r]]
  BY DEF Diff
<1>2. Acts(r, i[r], want[r], replaced) \in SUBSET {"create", "update", "delete"}
  BY DEF Acts
<1>3. c.of = r /\ c.from = i[r] /\ c.to = want[r] /\ c.acts = Acts(r, i[r], want[r], replaced)
  BY <1>1
<1>4. c \in Changes
  BY <1>1, <1>2 DEF Changes
<1>5. ASSUME c.to = Gone PROVE c.acts = {"delete"}
  BY <1>1, <1>3, <1>5 DEF Acts
<1> QED BY <1>3, <1>4, <1>5

LEMMA DiffCovers ==
  ASSUME NEW i, NEW want, NEW replaced, NEW r \in Resources, i[r] # want[r]
  PROVE  \E c \in Diff(i, want, replaced) : c.of = r
<1> DEFINE c == [of |-> r, acts |-> Acts(r, i[r], want[r], replaced), from |-> i[r], to |-> want[r]]
<1>1. c \in Diff(i, want, replaced)
  BY DEF Diff
<1> HIDE DEF Diff
<1>2. c.of = r
  OBVIOUS
<1> QED BY <1>1, <1>2

\* A destroy plan: it deletes whatever there is.
LEMMA DestroyPlan ==
  ASSUME NEW i \in [Resources -> Values]
  PROVE  /\ \A c \in Diff(i, Destroyed, {}) :
              /\ c \in Changes /\ c.of \in Resources /\ i[c.of] # Gone
              /\ c.from = i[c.of] /\ c.to = Gone /\ c.acts = {"delete"}
         /\ \A x \in Resources : i[x] # Gone => \E c \in Diff(i, Destroyed, {}) : c.of = x
<1>1. ASSUME NEW c \in Diff(i, Destroyed, {})
      PROVE  /\ c \in Changes /\ c.of \in Resources /\ i[c.of] # Gone
             /\ c.from = i[c.of] /\ c.to = Gone /\ c.acts = {"delete"}
  <2>1. /\ c \in Changes /\ c.of \in Resources /\ c.from = i[c.of]
        /\ c.to = Destroyed[c.of]
        /\ c.to = Gone => c.acts = {"delete"}
    BY DiffChanges, DestroyedValues
  <2>2. i[c.of] # Destroyed[c.of]
    BY DEF Diff
  <2> QED BY <2>1, <2>2, DestroyedValues
<1>2. ASSUME NEW x \in Resources, i[x] # Gone PROVE \E c \in Diff(i, Destroyed, {}) : c.of = x
  BY <1>2, DiffCovers, DestroyedValues
<1> QED BY <1>1, <1>2

\* A manifest that is rendered is of its own directory.
LEMMA RenderedStack ==
  ASSUME NEW r \in Runs, tree[r] \in Trees, dir[r] \in Stacks, Renders(Manifest(r))
  PROVE  Stack(r) = dir[r]
BY TreesAssumption DEF Renders, ValidManifest, Stack, Backend, Manifest

\* An apply leaves every resource as it was, as planned, or gone.
LEMMA LeftValues ==
  ASSUME NEW i \in [Resources -> Values], NEW changes \in SUBSET Changes,
         NEW j \in Left(i, changes)
  PROVE  /\ j \in [Resources -> Values]
         /\ \A x \in Resources :
              \/ j[x] = i[x]
              \/ \E c \in changes : c.of = x /\ (j[x] = c.to \/ ("delete" \in c.acts /\ j[x] = Gone))
<1>1. Gone \in Values
  BY CommitsAssumption DEF Gone, Values, Guards
<1>2. {i[r] : r \in Resources} \cup {c.to : c \in changes} \cup {Gone} \subseteq Values
  BY <1>1 DEF Changes
<1> QED BY <1>2 DEF Left

LEMMA NoPlanType == NoPlan \in [stack : Stacks \cup {"none"}, changes : SUBSET Changes]
BY DEF NoPlan

USE CommitsAssumption
USE DEF Goto, Unmoved, cloud, repo, run, Ended, Checking, Active, Holding, Planning

---------------------------------------------------------------------------
(* Every step preserves the inductive invariant: one lemma per action, one  *)
(* step per conjunct.                                                      *)

LEMMA InitIInv == Init => IInv
<1> SUFFICES ASSUME Init PROVE IInv
  OBVIOUS
<1> USE DEF Init
<1>a. /\ infra \in [Stacks -> [Resources -> Values]]
      /\ \A s \in Stacks : infra[s]["node"].commit \in {0, 1}
  <2>1. CASE infra = [s \in Stacks |-> Destroyed]
    BY <2>1, DestroyedValues DEF Gone, Resources
  <2>2. CASE infra = [s \in Stacks |-> Wanted(s, 1, Tfvars(Content[head].manifest[s], "deploy"))]
    <3>1. 1 \in 1..MaxCommits
      OBVIOUS
    <3> QED BY <2>2, <3>1, WantedValues
  <2> QED BY <2>1, <2>2
<1>b. head \in Trees /\ "primary" \in Stacks /\ "deploy" \in Modes /\ 1 \in 1..MaxCommits
  BY BoundsAssumption DEF Stacks, Modes
<1>1. TypeOK
  BY <1>a, <1>b, NoPlanType DEF TypeOK
<1>2. Exclusive
  BY DEF TypeOK, Exclusive
<1>3. Bounded
  BY <1>a DEF TypeOK, Bounded
<1>4. Rendered
  BY DEF TypeOK, Rendered, Manifest
<1>5. Unplanned
  BY DEF TypeOK, Unplanned
<1>6. Current
  BY DEF TypeOK, Current
<1>7. Obedient
  BY DEF TypeOK, Obedient, Obeys
<1>8. Razing
  BY DEF TypeOK, Razing, Razes, Manifest
<1>9. Vouching
  BY DEF TypeOK, Vouching
<1>10. ResumeAccepted
  BY DEF TypeOK, ResumeAccepted
<1> QED BY <1>1, <1>2, <1>3, <1>4, <1>5, <1>6, <1>7, <1>8, <1>9, <1>10 DEF IInv

LEMMA PushStep == ASSUME IInv, NEW t \in Trees, Push(t) PROVE IInv'
<1> USE DEF Push
<1>1. TypeOK'
  BY DEF IInv, TypeOK
<1>2. Exclusive'
  BY DEF IInv, TypeOK, Exclusive
<1>3. Bounded'
  BY DEF IInv, TypeOK, Bounded
<1>4. Rendered'
  BY DEF IInv, TypeOK, Rendered, Manifest
<1>5. Unplanned'
  BY DEF IInv, TypeOK, Unplanned
<1>6. Current'
  BY DEF IInv, TypeOK, Current
<1>7. Obedient'
  BY DEF IInv, TypeOK, Obedient, Obeys
<1>8. Razing'
  BY DEF IInv, TypeOK, Razing, Razes, Manifest
<1>9. Vouching'
  BY DEF IInv, TypeOK, Bounded, Vouching
<1>10. ResumeAccepted'
  BY DEF IInv, TypeOK, ResumeAccepted
<1> QED BY <1>1, <1>2, <1>3, <1>4, <1>5, <1>6, <1>7, <1>8, <1>9, <1>10 DEF IInv

LEMMA DispatchStep == ASSUME IInv, NEW r \in Runs, NEW w \in Workflows, Dispatch(r, w[1], w[2]) PROVE IInv'
<1> USE DEF Dispatch, Queue
<1>1. TypeOK'
  <2>1. w[1] \in Stacks /\ w[2] \in Modes
    BY DEF Workflows
  <2> QED BY <2>1, NoPlanType DEF IInv, TypeOK
<1>2. Exclusive'
  BY DEF IInv, TypeOK, Exclusive
<1>3. Bounded'
  BY DEF IInv, TypeOK, Bounded
<1>4. Rendered'
  BY DEF IInv, TypeOK, Rendered, Manifest
<1>5. Unplanned'
  BY DEF IInv, TypeOK, Unplanned
<1>6. Current'
  BY DEF IInv, TypeOK, Current
<1>7. Obedient'
  BY DEF IInv, TypeOK, Obedient, Obeys
<1>8. Razing'
  BY DEF IInv, TypeOK, Razing, Razes, Manifest
<1>9. Vouching'
  BY DEF IInv, TypeOK, Vouching
<1>10. ResumeAccepted'
  BY DEF IInv, TypeOK, ResumeAccepted
<1> QED BY <1>1, <1>2, <1>3, <1>4, <1>5, <1>6, <1>7, <1>8, <1>9, <1>10 DEF IInv

LEMMA RunAgainStep == ASSUME IInv, NEW r \in Runs, NEW all \in BOOLEAN, RunAgain(r, all) PROVE IInv'
<1> USE DEF RunAgain, Queue
<1>1. TypeOK'
  BY NoPlanType DEF IInv, TypeOK
<1>2. Exclusive'
  BY DEF IInv, TypeOK, Exclusive
<1>3. Bounded'
  BY DEF IInv, TypeOK, Bounded
<1>4. Rendered'
  BY DEF IInv, TypeOK, Rendered, Manifest
<1>5. Unplanned'
  BY DEF IInv, TypeOK, Unplanned
<1>6. Current'
  BY DEF IInv, TypeOK, Current
<1>7. Obedient'
  BY DEF IInv, TypeOK, Obedient, Obeys
<1>8. Razing'
  BY DEF IInv, TypeOK, Razing, Razes, Manifest
<1>9. Vouching'
  BY DEF IInv, TypeOK, Vouching
<1>10. ResumeAccepted'
  BY DEF IInv, TypeOK, ResumeAccepted
<1> QED BY <1>1, <1>2, <1>3, <1>4, <1>5, <1>6, <1>7, <1>8, <1>9, <1>10 DEF IInv

LEMMA StartStep == ASSUME IInv, NEW r \in Runs, Start(r) PROVE IInv'
<1> USE DEF Start
<1>1. TypeOK'
  BY DEF IInv, TypeOK
<1>2. Exclusive'
  BY DEF IInv, TypeOK, Exclusive, GroupFree
<1>3. Bounded'
  BY DEF IInv, TypeOK, Bounded
<1>4. Rendered'
  BY DEF IInv, TypeOK, Rendered, Manifest
<1>5. Unplanned'
  BY DEF IInv, TypeOK, Unplanned
<1>6. Current'
  BY DEF IInv, TypeOK, Unplanned, Current
<1>7. Obedient'
  BY DEF IInv, TypeOK, Unplanned, Obedient, Obeys
<1>8. Razing'
  BY DEF IInv, TypeOK, Unplanned, Razing, Razes, Manifest
<1>9. Vouching'
  BY DEF IInv, TypeOK, Vouching
<1>10. ResumeAccepted'
  BY DEF IInv, TypeOK, ResumeAccepted
<1> QED BY <1>1, <1>2, <1>3, <1>4, <1>5, <1>6, <1>7, <1>8, <1>9, <1>10 DEF IInv

\* A run that ends, whatever for, leaves the others as they are.
LEMMA EndStep == ASSUME IInv, NEW r \in Runs, NEW p \in {"failed", "applied"}, pc[r] \in Active \cup {"queued"}, End(r, p), UNCHANGED cloud PROVE IInv'
<1> USE DEF End
<1>1. TypeOK'
  BY NoPlanType DEF IInv, TypeOK
<1>2. Exclusive'
  BY DEF IInv, TypeOK, Exclusive
<1>3. Bounded'
  BY DEF IInv, TypeOK, Bounded
<1>4. Rendered'
  BY DEF IInv, TypeOK, Rendered, Manifest
<1>5. Unplanned'
  BY DEF IInv, TypeOK, Unplanned
<1>6. Current'
  BY DEF IInv, TypeOK, Current
<1>7. Obedient'
  BY DEF IInv, TypeOK, Obedient, Obeys
<1>8. Razing'
  BY DEF IInv, TypeOK, Razing, Razes, Manifest
<1>9. Vouching'
  BY DEF IInv, TypeOK, Vouching
<1>10. ResumeAccepted'
  BY DEF IInv, TypeOK, ResumeAccepted
<1> QED BY <1>1, <1>2, <1>3, <1>4, <1>5, <1>6, <1>7, <1>8, <1>9, <1>10 DEF IInv

LEMMA FailStep == ASSUME IInv, NEW r \in Runs, Fail(r) PROVE IInv'
BY EndStep DEF Fail

LEMMA ExpireStep == ASSUME IInv, NEW r \in Runs, Expire(r) PROVE IInv'
<1> USE DEF Expire
<1>1. TypeOK'
  BY DEF IInv, TypeOK
<1>2. Exclusive'
  BY DEF IInv, TypeOK, Exclusive
<1>3. Bounded'
  BY DEF IInv, TypeOK, Bounded
<1>4. Rendered'
  BY DEF IInv, TypeOK, Rendered, Manifest
<1>5. Unplanned'
  BY DEF IInv, TypeOK, Unplanned
<1>6. Current'
  BY DEF IInv, TypeOK, Current
<1>7. Obedient'
  BY DEF IInv, TypeOK, Obedient, Obeys
<1>8. Razing'
  BY DEF IInv, TypeOK, Razing, Razes, Manifest
<1>9. Vouching'
  BY DEF IInv, TypeOK, Vouching
<1>10. ResumeAccepted'
  BY DEF IInv, TypeOK, ResumeAccepted
<1> QED BY <1>1, <1>2, <1>3, <1>4, <1>5, <1>6, <1>7, <1>8, <1>9, <1>10 DEF IInv

LEMMA ApproveStep == ASSUME IInv, NEW r \in Runs, Approve(r) PROVE IInv'
<1> USE DEF Approve
<1>1. TypeOK'
  BY DEF IInv, TypeOK
<1>2. Exclusive'
  BY DEF IInv, TypeOK, Exclusive
<1>3. Bounded'
  BY DEF IInv, TypeOK, Bounded
<1>4. Rendered'
  BY DEF IInv, TypeOK, Rendered, Manifest
<1>5. Unplanned'
  BY DEF IInv, TypeOK, Unplanned
<1>6. Current'
  BY DEF IInv, TypeOK, Current
<1>7. Obedient'
  BY DEF IInv, TypeOK, Obedient, Obeys
<1>8. Razing'
  BY DEF IInv, TypeOK, Razing, Razes, Manifest
<1>9. Vouching'
  BY DEF IInv, TypeOK, Vouching
<1>10. ResumeAccepted'
  BY DEF IInv, TypeOK, ResumeAccepted
<1> QED BY <1>1, <1>2, <1>3, <1>4, <1>5, <1>6, <1>7, <1>8, <1>9, <1>10 DEF IInv

LEMMA GuardStep == ASSUME IInv, NEW r \in Runs, Guard(r) PROVE IInv'
<1>a. pc[r] = "guard"
  BY DEF Guard, Check
<1>b. CASE End(r, "failed") /\ UNCHANGED cloud
  BY <1>a, <1>b, EndStep
<1>c. CASE FirstAttempt(r) /\ IsTip(r) /\ Renders(Manifest(r)) /\ Goto(r, IF mode[r] = "teardown" THEN "show" ELSE "plan") /\ Unmoved
  <2> USE <1>a, <1>c DEF FirstAttempt, IsTip, Unexpired
  <2>1. TypeOK'
    BY DEF IInv, TypeOK
  <2>2. Exclusive'
    BY DEF IInv, TypeOK, Exclusive
  <2>3. Bounded'
    BY DEF IInv, TypeOK, Bounded
  <2>4. Rendered'
    BY DEF IInv, TypeOK, Bounded, Rendered, Manifest
  <2>5. Unplanned'
    BY DEF IInv, TypeOK, Unplanned
  <2>6. Current'
    BY DEF IInv, TypeOK, Current
  <2>7. Obedient'
    BY DEF IInv, TypeOK, Obedient, Obeys
  <2>8. Razing'
    BY DEF IInv, TypeOK, Razing, Razes, Manifest
  <2>9. Vouching'
    BY DEF IInv, TypeOK, Vouching
  <2>10. ResumeAccepted'
    BY DEF IInv, TypeOK, ResumeAccepted
  <2> QED BY <2>1, <2>2, <2>3, <2>4, <2>5, <2>6, <2>7, <2>8, <2>9, <2>10 DEF IInv
<1> QED BY <1>b, <1>c DEF Guard, Check

LEMMA ShowStep == ASSUME IInv, NEW r \in Runs, Show(r) PROVE IInv'
<1>a. pc[r] = "show"
  BY DEF Show, Check
<1>b. CASE End(r, "failed") /\ UNCHANGED cloud
  BY <1>a, <1>b, EndStep
<1>c. CASE Goto(r, "plan") /\ Unmoved
  <2> USE <1>a, <1>c DEF FirstAttempt, IsTip, Unexpired
  <2>1. TypeOK'
    BY DEF IInv, TypeOK
  <2>2. Exclusive'
    BY DEF IInv, TypeOK, Exclusive
  <2>3. Bounded'
    BY DEF IInv, TypeOK, Bounded
  <2>4. Rendered'
    BY DEF IInv, TypeOK, Rendered, Manifest
  <2>5. Unplanned'
    BY DEF IInv, TypeOK, Unplanned
  <2>6. Current'
    BY DEF IInv, TypeOK, Current
  <2>7. Obedient'
    BY DEF IInv, TypeOK, Obedient, Obeys
  <2>8. Razing'
    BY DEF IInv, TypeOK, Razing, Razes, Manifest
  <2>9. Vouching'
    BY DEF IInv, TypeOK, Vouching
  <2>10. ResumeAccepted'
    BY DEF IInv, TypeOK, ResumeAccepted
  <2> QED BY <2>1, <2>2, <2>3, <2>4, <2>5, <2>6, <2>7, <2>8, <2>9, <2>10 DEF IInv
<1> QED BY <1>b, <1>c DEF Show, Check

LEMMA ReconfirmStep == ASSUME IInv, NEW r \in Runs, Reconfirm(r) PROVE IInv'
<1>a. pc[r] = "reconfirm"
  BY DEF Reconfirm, Check
<1>b. CASE End(r, "failed") /\ UNCHANGED cloud
  BY <1>a, <1>b, EndStep
<1>c. CASE IsTip(r) /\ FirstAttempt(r) /\ Goto(r, "verify") /\ Unmoved
  <2> USE <1>a, <1>c DEF FirstAttempt, IsTip, Unexpired
  <2>1. TypeOK'
    BY DEF IInv, TypeOK
  <2>2. Exclusive'
    BY DEF IInv, TypeOK, Exclusive
  <2>3. Bounded'
    BY DEF IInv, TypeOK, Bounded
  <2>4. Rendered'
    BY DEF IInv, TypeOK, Rendered, Manifest
  <2>5. Unplanned'
    BY DEF IInv, TypeOK, Unplanned
  <2>6. Current'
    BY DEF IInv, TypeOK, Current
  <2>7. Obedient'
    BY DEF IInv, TypeOK, Obedient, Obeys
  <2>8. Razing'
    BY DEF IInv, TypeOK, Razing, Razes, Manifest
  <2>9. Vouching'
    BY DEF IInv, TypeOK, Vouching
  <2>10. ResumeAccepted'
    BY DEF IInv, TypeOK, ResumeAccepted
  <2> QED BY <2>1, <2>2, <2>3, <2>4, <2>5, <2>6, <2>7, <2>8, <2>9, <2>10 DEF IInv
<1> QED BY <1>b, <1>c DEF Reconfirm, Check

LEMMA VerifyStep == ASSUME IInv, NEW r \in Runs, Verify(r) PROVE IInv'
<1>a. pc[r] = "verify"
  BY DEF Verify, Check
<1>b. CASE End(r, "failed") /\ UNCHANGED cloud
  BY <1>a, <1>b, EndStep
<1>c. CASE Unexpired(r) /\ FirstAttempt(r) /\ Goto(r, "final") /\ Unmoved
  <2> USE <1>a, <1>c DEF FirstAttempt, IsTip, Unexpired
  <2>1. TypeOK'
    BY DEF IInv, TypeOK
  <2>2. Exclusive'
    BY DEF IInv, TypeOK, Exclusive
  <2>3. Bounded'
    BY DEF IInv, TypeOK, Bounded
  <2>4. Rendered'
    BY DEF IInv, TypeOK, Rendered, Manifest
  <2>5. Unplanned'
    BY DEF IInv, TypeOK, Unplanned
  <2>6. Current'
    BY DEF IInv, TypeOK, Current
  <2>7. Obedient'
    BY DEF IInv, TypeOK, Obedient, Obeys
  <2>8. Razing'
    BY DEF IInv, TypeOK, Razing, Razes, Manifest
  <2>9. Vouching'
    BY DEF IInv, TypeOK, Vouching
  <2>10. ResumeAccepted'
    BY DEF IInv, TypeOK, ResumeAccepted
  <2> QED BY <2>1, <2>2, <2>3, <2>4, <2>5, <2>6, <2>7, <2>8, <2>9, <2>10 DEF IInv
<1> QED BY <1>b, <1>c DEF Verify, Check

LEMMA FinalTipStep == ASSUME IInv, NEW r \in Runs, FinalTip(r) PROVE IInv'
<1>a. pc[r] = "final"
  BY DEF FinalTip, Check
<1>b. CASE End(r, "failed") /\ UNCHANGED cloud
  BY <1>a, <1>b, EndStep
<1>c. CASE Goto(r, "expiry") /\ Unmoved
  <2> USE <1>a, <1>c DEF FirstAttempt, IsTip, Unexpired
  <2>1. TypeOK'
    BY DEF IInv, TypeOK
  <2>2. Exclusive'
    BY DEF IInv, TypeOK, Exclusive
  <2>3. Bounded'
    BY DEF IInv, TypeOK, Bounded
  <2>4. Rendered'
    BY DEF IInv, TypeOK, Rendered, Manifest
  <2>5. Unplanned'
    BY DEF IInv, TypeOK, Unplanned
  <2>6. Current'
    BY DEF IInv, TypeOK, Current
  <2>7. Obedient'
    BY DEF IInv, TypeOK, Obedient, Obeys
  <2>8. Razing'
    BY DEF IInv, TypeOK, Razing, Razes, Manifest
  <2>9. Vouching'
    BY DEF IInv, TypeOK, Vouching
  <2>10. ResumeAccepted'
    BY DEF IInv, TypeOK, ResumeAccepted
  <2> QED BY <2>1, <2>2, <2>3, <2>4, <2>5, <2>6, <2>7, <2>8, <2>9, <2>10 DEF IInv
<1> QED BY <1>b, <1>c DEF FinalTip, Check

LEMMA FinalExpiryStep == ASSUME IInv, NEW r \in Runs, FinalExpiry(r) PROVE IInv'
<1>a. pc[r] = "expiry"
  BY DEF FinalExpiry, Check
<1>b. CASE End(r, "failed") /\ UNCHANGED cloud
  BY <1>a, <1>b, EndStep
<1>c. CASE Goto(r, "apply") /\ Unmoved
  <2> USE <1>a, <1>c DEF FirstAttempt, IsTip, Unexpired
  <2>1. TypeOK'
    BY DEF IInv, TypeOK
  <2>2. Exclusive'
    BY DEF IInv, TypeOK, Exclusive
  <2>3. Bounded'
    BY DEF IInv, TypeOK, Bounded
  <2>4. Rendered'
    BY DEF IInv, TypeOK, Rendered, Manifest
  <2>5. Unplanned'
    BY DEF IInv, TypeOK, Unplanned
  <2>6. Current'
    BY DEF IInv, TypeOK, Current
  <2>7. Obedient'
    BY DEF IInv, TypeOK, Obedient, Obeys
  <2>8. Razing'
    BY DEF IInv, TypeOK, Razing, Razes, Manifest
  <2>9. Vouching'
    BY DEF IInv, TypeOK, Vouching
  <2>10. ResumeAccepted'
    BY DEF IInv, TypeOK, ResumeAccepted
  <2> QED BY <2>1, <2>2, <2>3, <2>4, <2>5, <2>6, <2>7, <2>8, <2>9, <2>10 DEF IInv
<1> QED BY <1>b, <1>c DEF FinalExpiry, Check

\* The plan that is published, for a run whose manifest was rendered.
LEMMA Planned ==
  ASSUME IInv, NEW r \in Runs, pc[r] = "plan", Permitted(r, PlanOf(r))
  PROVE  /\ Stack(r) = dir[r] /\ PlanOf(r) \in SUBSET Changes
         /\ \A c \in PlanOf(r) : c.from = infra[dir[r]][c.of] /\ Obeys(r, c)
         /\ mode[r] = "teardown" =>
              /\ \A c \in PlanOf(r) : c.to = Gone /\ (c.of = "bucket" => Manifest(r).staging)
              /\ \A x \in Resources : infra[dir[r]][x] # Gone => \E c \in PlanOf(r) : c.of = x
<1>1. Stack(r) = dir[r]
  BY RenderedStack DEF IInv, TypeOK, Rendered
<1>2. infra[dir[r]] \in [Resources -> Values] /\ sha[r] \in 1..MaxCommits /\ dir[r] \in Stacks
  BY DEF IInv, TypeOK
<1>3. CASE mode[r] = "teardown"
  <2>1. PlanOf(r) = Diff(infra[dir[r]], Destroyed, {})
    BY <1>1, <1>3 DEF PlanOf
  <2>2. \A c \in PlanOf(r) : /\ c \in Changes /\ c.from = infra[dir[r]][c.of]
                             /\ c.to = Gone /\ c.acts = {"delete"}
    BY <1>2, <2>1, DestroyPlan
  <2>3. TeardownPolicy(PlanOf(r), Manifest(r).staging)
    BY <1>3 DEF Permitted, Tfvars
  <2>4. \A c \in PlanOf(r) : /\ c.of = "bucket" => Manifest(r).staging
                             /\ c.of \in Protectable => c.from.guard = "prepared"
    BY <2>3 DEF TeardownPolicy, PreparedDelete, Protectable
  <2>5. \A c \in PlanOf(r) : Obeys(r, c)
    BY <2>2, <2>4 DEF Obeys
  <2>6. \A x \in Resources : infra[dir[r]][x] # Gone => \E c \in PlanOf(r) : c.of = x
    BY <1>2, <2>1, DestroyPlan
  <2> QED BY <1>1, <2>2, <2>4, <2>5, <2>6
<1>4. CASE mode[r] # "teardown"
  <2> DEFINE want == Wanted(dir[r], sha[r], Tfvars(Manifest(r), mode[r]))
  <2>1. PlanOf(r) = Diff(infra[dir[r]], want, Content[tree[r]].replaced)
    BY <1>1, <1>4 DEF PlanOf
  <2>2. /\ want \in [Resources -> Values]
        /\ \A x \in {"node", "rest"} : want[x].commit = sha[r] /\ want[x] # Gone
    BY <1>2, WantedValues
  <2> HIDE DEF want
  <2>3. \A c \in PlanOf(r) : /\ c \in Changes /\ c.from = infra[dir[r]][c.of] /\ c.to = want[c.of]
                             /\ c.to = Gone => c.acts = {"delete"}
    BY <1>2, <2>1, <2>2, DiffChanges
  <2>4. mode[r] \in {"deploy", "prepare"}
    BY <1>4 DEF IInv, TypeOK, Modes
  <2>5. \A c \in PlanOf(r) : "delete" \notin c.acts
    <3>1. CASE mode[r] = "deploy"
      BY <3>1 DEF Permitted, PlanPolicy
    <3>2. CASE mode[r] = "prepare"
      BY <3>2 DEF Permitted, PrepPolicy, Flip
    <3> QED BY <2>4, <3>1, <3>2
  <2>6. \A c \in PlanOf(r) : Obeys(r, c)
    BY <2>2, <2>3, <2>5 DEF Obeys
  <2> QED BY <1>1, <1>4, <2>3, <2>6
<1> QED BY <1>3, <1>4

LEMMA PlanStep == ASSUME IInv, NEW r \in Runs, Plan(r) PROVE IInv'
<1>a. pc[r] = "plan" /\ UNCHANGED cloud
  BY DEF Plan
<1>b. CASE End(r, "failed")
  BY <1>a, <1>b, EndStep
<1>c. CASE /\ Permitted(r, PlanOf(r))
           /\ plan' = [plan EXCEPT ![r] = [stack |-> Stack(r), changes |-> PlanOf(r)]]
           /\ Goto(r, "review") /\ UNCHANGED <<repo, run, expired, vouched>>
  <2>a. /\ Stack(r) = dir[r] /\ PlanOf(r) \in SUBSET Changes
        /\ \A c \in PlanOf(r) : c.from = infra[dir[r]][c.of] /\ Obeys(r, c)
        /\ mode[r] = "teardown" =>
             /\ \A c \in PlanOf(r) : c.to = Gone /\ (c.of = "bucket" => Manifest(r).staging)
             /\ \A x \in Resources : infra[dir[r]][x] # Gone => \E c \in PlanOf(r) : c.of = x
    BY <1>a, <1>c, Planned
  <2> DEFINE changes == PlanOf(r)
  <2>b. /\ plan' = [plan EXCEPT ![r] = [stack |-> dir[r], changes |-> changes]]
        /\ dir[r] \in Stacks /\ plan'[r] = [stack |-> dir[r], changes |-> changes]
        /\ \A q \in Runs : q # r => plan'[q] = plan[q]
    BY <1>c, <2>a DEF IInv, TypeOK
  <2> HIDE DEF changes
  <2>c. /\ changes \in SUBSET Changes
        /\ \A c \in changes : c.from = infra[dir[r]][c.of] /\ Obeys(r, c)
        /\ mode[r] = "teardown" =>
             /\ \A c \in changes : c.to = Gone /\ (c.of = "bucket" => Manifest(r).staging)
             /\ \A x \in Resources : infra[dir[r]][x] # Gone => \E c \in changes : c.of = x
    BY <2>a DEF changes
  <2> USE <1>a
  <2>1. TypeOK'
    BY <1>c, <2>b, <2>c DEF IInv, TypeOK
  <2>2. Exclusive'
    BY <1>c DEF IInv, TypeOK, Exclusive
  <2>3. Bounded'
    BY <1>c DEF IInv, TypeOK, Bounded
  <2>4. Rendered'
    BY <1>c DEF IInv, TypeOK, Rendered, Manifest
  <2>5. Unplanned'
    BY <1>c, <2>b DEF IInv, TypeOK, Unplanned
  <2>6. Current'
    BY <1>c, <2>b, <2>c DEF IInv, TypeOK, Current, Rendered
  <2>7. Obedient'
    BY <1>c, <2>b, <2>c DEF IInv, TypeOK, Obedient, Obeys
  <2>8. Razing'
    BY <1>c, <2>b, <2>c DEF IInv, TypeOK, Razing, Razes, Manifest
  <2>9. Vouching'
    BY <1>c DEF IInv, TypeOK, Vouching
  <2>10. ResumeAccepted'
    BY DEF IInv, TypeOK, ResumeAccepted
  <2> QED BY <2>1, <2>2, <2>3, <2>4, <2>5, <2>6, <2>7, <2>8, <2>9, <2>10 DEF IInv
<1> QED BY <1>a, <1>b, <1>c DEF Plan

\* What an apply does, in terms of the run's own directory.
LEMMA Applied ==
  ASSUME IInv, NEW r \in Runs, Apply(r)
  PROVE  /\ pc[r] = "apply" /\ attempt[r] = 1 /\ vouched[r] /\ plan[r].stack = dir[r]
         /\ \E p \in {"failed", "applied"} : End(r, p)
         /\ \E j \in Left(infra[dir[r]], plan[r].changes) :
              /\ infra' = [infra EXCEPT ![dir[r]] = j]
              /\ newest' = [newest EXCEPT ![dir[r]] =
                              IF \E x \in Resources : j[x].commit > @ THEN sha[r] ELSE @]
              /\ torn' = [torn EXCEPT ![dir[r]] =
                            IF mode[r] = "teardown" /\ ~ \A c \in plan[r].changes : j[c.of] = c.to
                            THEN {Manifest(r).staging} ELSE {}]
<1>1. pc[r] = "apply" /\ attempt[r] = 1 /\ vouched[r]
  BY DEF Apply, IInv, Vouching
<1>2. plan[r].stack = dir[r]
  BY <1>1 DEF IInv, Current
<1>3. PICK j \in Left(infra[dir[r]], plan[r].changes) :
        LET complete == \A c \in plan[r].changes : j[c.of] = c.to IN
        /\ infra' = [infra EXCEPT ![dir[r]] = j]
        /\ newest' = [newest EXCEPT ![dir[r]] =
                        IF \E x \in Resources : j[x].commit > @ THEN sha[r] ELSE @]
        /\ torn' = [torn EXCEPT ![dir[r]] = IF mode[r] = "teardown" /\ ~complete
                                            THEN {Manifest(r).staging} ELSE {}]
        /\ (complete /\ End(r, "applied")) \/ End(r, "failed")
  BY <1>2 DEF Apply
<1>4. \E p \in {"failed", "applied"} : End(r, p)
  BY <1>3
<1> QED BY <1>1, <1>2, <1>3, <1>4

\* Nothing a teardown leaves is in the way of the next one.
LEMMA Resumable ==
  ASSUME NEW i \in [Resources -> Values], NEW changes \in SUBSET Changes, NEW staging \in BOOLEAN,
         NEW j \in Left(i, changes),
         \A c \in changes :
           /\ c.to = Gone /\ c.from = i[c.of]
           /\ c.of \in Protectable => c.from.guard = "prepared"
           /\ c.of = "bucket" => staging,
         \A x \in Resources : i[x] # Gone => \E c \in changes : c.of = x
  PROVE  LET rest == Diff(j, Destroyed, {}) IN
         rest # {} => PreparedState(j, staging) /\ TeardownPolicy(rest, staging)
<1>1. j \in [Resources -> Values] /\ \A x \in Resources : j[x] = i[x] \/ j[x] = Gone
  BY LeftValues
<1>2. \A x \in Resources : j[x] # Gone => \E c \in changes : c.of = x /\ c.from = j[x]
  BY <1>1
<1>3. j["node"] # Gone => j["node"].guard = "prepared"
  BY <1>2 DEF Resources, Protectable
<1>4. j["bucket"] # Gone => j["bucket"].guard = "prepared" /\ staging
  BY <1>2 DEF Resources, Protectable
<1>5. PreparedState(j, staging)
  BY <1>3, <1>4 DEF PreparedState, Gone
<1>6. \A c \in Diff(j, Destroyed, {}) :
        c.acts = {"delete"} /\ c.from = j[c.of] /\ j[c.of] # Gone
  BY <1>1, DestroyPlan
<1> DEFINE rest == Diff(j, Destroyed, {})
<1>7. /\ \A c \in rest : c.acts = {"delete"}
      /\ \A c \in rest : c.of = "node" => c.from.guard = "prepared"
      /\ \A c \in rest : c.of = "bucket" => staging /\ c.from.guard = "prepared"
  BY <1>3, <1>4, <1>6
<1> HIDE DEF rest
<1>8. ASSUME rest # {} PROVE TeardownPolicy(rest, staging)
  BY <1>7, <1>8 DEF TeardownPolicy, PreparedDelete
<1> QED BY <1>5, <1>8 DEF rest

LEMMA ApplyStep == ASSUME IInv, NEW r \in Runs, Apply(r) PROVE IInv'
<1>a. /\ pc[r] = "apply" /\ attempt[r] = 1 /\ plan[r].stack = dir[r]
      /\ \E p \in {"failed", "applied"} : End(r, p)
  BY Applied
<1>b. PICK p \in {"failed", "applied"} : End(r, p)
  BY <1>a
<1>c. PICK j \in Left(infra[dir[r]], plan[r].changes) :
        /\ infra' = [infra EXCEPT ![dir[r]] = j]
        /\ newest' = [newest EXCEPT ![dir[r]] =
                        IF \E x \in Resources : j[x].commit > @ THEN sha[r] ELSE @]
        /\ torn' = [torn EXCEPT ![dir[r]] =
                      IF mode[r] = "teardown" /\ ~ \A c \in plan[r].changes : j[c.of] = c.to
                      THEN {Manifest(r).staging} ELSE {}]
  BY Applied
<1>d. infra[dir[r]] \in [Resources -> Values] /\ plan[r].changes \in SUBSET Changes /\ dir[r] \in Stacks
  BY DEF IInv, TypeOK
<1>e. j \in [Resources -> Values]
  BY <1>d, LeftValues
<1>f. /\ main' = main /\ head' = head /\ dir' = dir /\ mode' = mode /\ sha' = sha /\ tree' = tree
      /\ attempt' = attempt /\ pc' = [pc EXCEPT ![r] = p]
      /\ vouched' = [vouched EXCEPT ![r] = FALSE] /\ expired' = [expired EXCEPT ![r] = FALSE]
      /\ plan' \in {plan, [plan EXCEPT ![r] = NoPlan]}
  BY <1>b DEF End
<1>g. p \notin Active /\ p # "queued"
  OBVIOUS
<1>h. \A q \in Runs : q # r /\ dir[q] = dir[r] => pc[q] \notin Active
  BY <1>a DEF IInv, Exclusive
<1>i. \A q \in Runs : pc'[q] \in Active =>
        q # r /\ pc'[q] = pc[q] /\ plan'[q] = plan[q] /\ dir[q] # dir[r]
        /\ infra'[dir[q]] = infra[dir[q]] /\ newest'[dir[q]] = newest[dir[q]]
        /\ expired'[q] = expired[q] /\ vouched'[q] = vouched[q]
  BY <1>c, <1>f, <1>g, <1>h DEF IInv, TypeOK
<1>k. \A q \in Runs : pc'[q] \in Holding \cup Planning => pc'[q] \in Active
  OBVIOUS
<1>j. Manifest(r).staging \in BOOLEAN
  BY <1>d, TreesAssumption DEF Manifest, IInv, TypeOK
<1>1. TypeOK'
  <2>1. infra' \in [Stacks -> [Resources -> Values]]
    BY <1>c, <1>e DEF IInv, TypeOK
  <2>2. newest' \in [Stacks -> 0..MaxCommits]
    BY <1>c DEF IInv, TypeOK
  <2>3. torn' \in [Stacks -> SUBSET BOOLEAN]
    BY <1>c, <1>j DEF IInv, TypeOK
  <2>4. plan' \in [Runs -> [stack : Stacks \cup {"none"}, changes : SUBSET Changes]]
    BY <1>f, NoPlanType DEF IInv, TypeOK
  <2>5. pc' \in [Runs -> Ended \cup {"queued"} \cup Active]
    BY <1>f DEF IInv, TypeOK
  <2>6. expired' \in [Runs -> BOOLEAN] /\ vouched' \in [Runs -> BOOLEAN]
    BY <1>f DEF IInv, TypeOK
  <2> QED BY <1>f, <2>1, <2>2, <2>3, <2>4, <2>5, <2>6 DEF IInv, TypeOK
<1>2. Exclusive'
  BY <1>f, <1>i DEF IInv, TypeOK, Exclusive
<1>3. Bounded'
  BY <1>c, <1>f DEF IInv, TypeOK, Bounded
<1>4. Rendered'
  BY <1>f, <1>i DEF IInv, Rendered, Manifest
<1>5. Unplanned'
  BY <1>f, <1>g DEF IInv, TypeOK, Unplanned
<1>6. Current'
  <2> SUFFICES ASSUME NEW q \in Runs, attempt'[q] = 1, pc'[q] \in Holding
               PROVE  /\ plan'[q].stack = dir'[q]
                      /\ newest'[dir'[q]] <= sha'[q]
                      /\ \A c \in plan'[q].changes : c.from = infra'[dir'[q]][c.of]
    BY DEF Current
  <2>1. /\ plan'[q] = plan[q] /\ infra'[dir[q]] = infra[dir[q]] /\ newest'[dir[q]] = newest[dir[q]]
        /\ pc[q] \in Holding /\ attempt[q] = 1 /\ dir' = dir /\ sha' = sha
    BY <1>f, <1>i, <1>k
  <2> QED BY <2>1 DEF IInv, Current
<1>7. Obedient'
  BY <1>f, <1>i, <1>k DEF IInv, TypeOK, Obedient, Obeys
<1>8. Razing'
  <2> SUFFICES ASSUME NEW q \in Runs, attempt'[q] = 1, pc'[q] \in Holding, mode'[q] = "teardown"
               PROVE  Razes(q)'
    BY DEF Razing
  <2>1. /\ plan'[q] = plan[q] /\ infra'[dir[q]] = infra[dir[q]] /\ mode[q] = "teardown"
        /\ pc[q] \in Holding /\ attempt[q] = 1 /\ dir' = dir /\ tree' = tree
    BY <1>f, <1>i, <1>k
  <2>2. Razes(q)
    BY <2>1 DEF IInv, Razing
  <2> QED BY <2>1, <2>2 DEF Razes, Manifest
<1>9. Vouching'
  BY <1>f, <1>i, <1>k DEF IInv, TypeOK, Vouching
<1>10. ResumeAccepted'
  <2>1. \A s \in Stacks : s # dir[r] => torn'[s] = torn[s] /\ infra'[s] = infra[s]
    BY <1>c DEF IInv, TypeOK
  <2>2. infra'[dir[r]] = j /\ torn'[dir[r]] \subseteq {Manifest(r).staging}
    BY <1>c, <1>d DEF IInv, TypeOK
  <2>3. ASSUME torn'[dir[r]] # {}
        PROVE LET rest == Diff(j, Destroyed, {}) IN
              rest # {} => PreparedState(j, Manifest(r).staging)
                           /\ TeardownPolicy(rest, Manifest(r).staging)
    <3>1. mode[r] = "teardown"
      BY <1>c, <1>d, <2>3 DEF IInv, TypeOK
    <3>2. \A c \in plan[r].changes : c.to = Gone /\ (c.of = "bucket" => Manifest(r).staging)
      BY <1>a, <3>1 DEF IInv, Razing, Razes
    <3>3. \A x \in Resources : infra[dir[r]][x] # Gone => \E c \in plan[r].changes : c.of = x
      BY <1>a, <3>1 DEF IInv, Razing, Razes
    <3>4. \A c \in plan[r].changes :
            c.from = infra[dir[r]][c.of] /\ (c.of \in Protectable => c.from.guard = "prepared")
      BY <1>a, <3>2 DEF IInv, Current, Obedient, Obeys
    <3> QED BY <1>d, <1>j, <3>2, <3>3, <3>4, Resumable
  <2> QED BY <2>1, <2>2, <2>3 DEF IInv, ResumeAccepted
<1> QED BY <1>1, <1>2, <1>3, <1>4, <1>5, <1>6, <1>7, <1>8, <1>9, <1>10 DEF IInv

LEMMA NextIInv == IInv /\ [Next]_vars => IInv'
<1> SUFFICES ASSUME IInv, [Next]_vars PROVE IInv'
  OBVIOUS
<1>1. ASSUME NEW t \in Trees, Push(t) PROVE IInv'
  BY <1>1, PushStep
<1>2. ASSUME NEW r \in Runs, NEW w \in Dispatched, Dispatch(r, w[1], w[2]) PROVE IInv'
  BY <1>2, DispatchStep, BoundsAssumption
<1>3. ASSUME NEW r \in Runs, NEW all \in BOOLEAN, RunAgain(r, all) PROVE IInv'
  BY <1>3, RunAgainStep
<1>4. ASSUME NEW r \in Runs, Start(r) \/ Fail(r) \/ Expire(r) \/ Approve(r) PROVE IInv'
  BY <1>4, StartStep, FailStep, ExpireStep, ApproveStep
<1>5. ASSUME NEW r \in Runs, Guard(r) \/ Show(r) \/ Plan(r) PROVE IInv'
  BY <1>5, GuardStep, ShowStep, PlanStep
<1>6. ASSUME NEW r \in Runs, Reconfirm(r) \/ Verify(r) \/ FinalTip(r) \/ FinalExpiry(r) PROVE IInv'
  BY <1>6, ReconfirmStep, VerifyStep, FinalTipStep, FinalExpiryStep
<1>7. ASSUME NEW r \in Runs, Apply(r) PROVE IInv'
  BY <1>7, ApplyStep
<1>8. CASE UNCHANGED vars
  <2> USE <1>8 DEF vars
  <2>1. TypeOK'
    BY DEF IInv, TypeOK
  <2>2. Exclusive' /\ Bounded'
    BY DEF IInv, Exclusive, Bounded
  <2>3. Rendered' /\ Unplanned'
    BY DEF IInv, Rendered, Unplanned, Manifest
  <2>4. Current'
    BY DEF IInv, Current
  <2>5. Obedient'
    BY DEF IInv, Obedient, Obeys
  <2>6. Razing'
    BY DEF IInv, Razing, Razes, Manifest
  <2>7. Vouching' /\ ResumeAccepted'
    BY DEF IInv, Vouching, ResumeAccepted
  <2> QED BY <2>1, <2>2, <2>3, <2>4, <2>5, <2>6, <2>7 DEF IInv
<1> QED BY <1>1, <1>2, <1>3, <1>4, <1>5, <1>6, <1>7, <1>8 DEF Next, Step

---------------------------------------------------------------------------
\* The inductive invariant holds throughout (the jobs of terraform-deploy.yml,
\* standby-terraform-deploy.yml and terraform-teardown.yml).
THEOREM Invariance == Spec => []IInv
<1> QED BY InitIInv, NextIInv, PTL DEF Spec

\* Types of the runs, their plans and the stacks, for any number of runs and
\* commits and any manifests.
THEOREM TypeCorrect == Spec => []TypeOK
<1>1. IInv => TypeOK
  BY DEF IInv
<1> QED BY <1>1, Invariance, PTL

\* A teardown that stopped half-way can be resumed: neither the look at the
\* state nor teardown-policy.jq refuses what it left.
THEOREM ResumeAcceptedAlways == Spec => []ResumeAccepted
<1>1. IInv => ResumeAccepted
  BY DEF IInv
<1> QED BY <1>1, Invariance, PTL

\* Only an apply changes a stack: the one of the run's own directory, each
\* resource as the run's plan has it.
LEMMA StackChanges ==
  ASSUME IInv, [Next]_vars, NEW s \in Stacks, NEW x \in Resources, infra'[s][x] # infra[s][x]
  PROVE  \E r \in Runs :
           /\ pc[r] = "apply" /\ pc'[r] # "apply" /\ vouched[r] /\ attempt[r] = 1
           /\ dir[r] = s /\ plan[r].stack = s
           /\ newest[s] <= sha[r]
           /\ \E c \in plan[r].changes :
                /\ c.of = x /\ c.from = infra[s][x] /\ Obeys(r, c)
                /\ infra'[s][x] = c.to \/ ("delete" \in c.acts /\ infra'[s][x] = Gone)
<1>1. PICK r \in Runs : Apply(r)
  <2>1. infra' # infra
    OBVIOUS
  <2> QED
    BY <2>1 DEF Next, Step, vars, Push, Dispatch, RunAgain, Start, Fail, Expire, Approve, Guard, Show,
       Plan, Reconfirm, Verify, FinalTip, FinalExpiry, Check
<1>2. /\ pc[r] = "apply" /\ attempt[r] = 1 /\ vouched[r] /\ plan[r].stack = dir[r]
      /\ \E p \in {"failed", "applied"} : End(r, p)
  BY <1>1, Applied
<1>3. PICK j \in Left(infra[dir[r]], plan[r].changes) : infra' = [infra EXCEPT ![dir[r]] = j]
  BY <1>1, Applied
<1>4. pc'[r] # "apply"
  BY <1>2 DEF End, IInv, TypeOK
<1>5. dir[r] = s /\ infra'[s] = j
  BY <1>3 DEF IInv, TypeOK
<1>6. infra[dir[r]] \in [Resources -> Values] /\ plan[r].changes \in SUBSET Changes
  BY DEF IInv, TypeOK
<1>7. PICK c \in plan[r].changes :
        c.of = x /\ (j[x] = c.to \/ ("delete" \in c.acts /\ j[x] = Gone))
  BY <1>5, <1>6, LeftValues
<1>8. c.from = infra[s][x] /\ newest[s] <= sha[r]
  BY <1>2, <1>5, <1>7 DEF IInv, Current
<1>9. Obeys(r, c)
  BY <1>2 DEF IInv, Obedient
<1> QED BY <1>2, <1>4, <1>5, <1>7, <1>8, <1>9

\* What changes of a stack was shown to a reviewer, who approved it in time,
\* of the tip and in the first attempt.
THEOREM OnlyReviewedChangesAlways == Spec => OnlyReviewedChanges
<1>1. IInv /\ [Next]_vars =>
        [\A s \in Stacks, x \in Resources : infra'[s][x] # infra[s][x] =>
           \E r \in Runs :
             /\ pc[r] = "apply" /\ pc'[r] # "apply" /\ vouched[r]
             /\ dir[r] = s /\ plan[r].stack = s
             /\ \E c \in plan[r].changes : c.of = x /\ c.from = infra[s][x]]_vars
  BY StackChanges
<1> QED BY <1>1, Invariance, PTL DEF Spec, OnlyReviewedChanges

\* A node or a staging bucket goes only from its prepared state.
THEOREM OnlyPreparedDestroyedAlways == Spec => OnlyPreparedDestroyed
<1>1. ASSUME IInv, [Next]_vars, NEW s \in Stacks, NEW x \in Protectable,
             infra'[s][x] = Gone, infra[s][x] # Gone
      PROVE  infra[s][x].guard = "prepared"
  <2>1. x \in Resources
    BY DEF Protectable, Resources
  <2>2. PICK r \in Runs :
          \E c \in plan[r].changes :
            /\ c.of = x /\ c.from = infra[s][x] /\ Obeys(r, c)
            /\ infra'[s][x] = c.to \/ ("delete" \in c.acts /\ infra'[s][x] = Gone)
    BY <1>1, <2>1, StackChanges
  <2> QED BY <1>1, <2>2 DEF Obeys
<1>2. IInv /\ [Next]_vars =>
        [\A s \in Stacks, x \in Protectable :
           infra'[s][x] = Gone /\ infra[s][x] # Gone => infra[s][x].guard = "prepared"]_vars
  BY <1>1
<1> QED BY <1>2, Invariance, PTL DEF Spec, OnlyPreparedDestroyed

\* No resource is set to a commit older than one its stack has seen.
THEOREM NoStaleConfigAlways == Spec => NoStaleConfig
<1>1. ASSUME IInv, [Next]_vars, NEW s \in Stacks, NEW x \in {"node", "rest"},
             infra'[s][x] \notin {infra[s][x], Gone}
      PROVE  infra'[s][x].commit >= newest[s]
  <2>1. x \in Resources
    BY DEF Resources
  <2>2. PICK r \in Runs :
          /\ newest[s] <= sha[r]
          /\ \E c \in plan[r].changes :
               /\ c.of = x /\ c.from = infra[s][x] /\ Obeys(r, c)
               /\ infra'[s][x] = c.to \/ ("delete" \in c.acts /\ infra'[s][x] = Gone)
    BY <1>1, <2>1, StackChanges
  <2>3. infra'[s][x].commit = sha[r]
    BY <1>1, <2>2 DEF Obeys
  <2> QED BY <2>2, <2>3 DEF IInv, TypeOK
<1>2. IInv /\ [Next]_vars =>
        [\A s \in Stacks, x \in {"node", "rest"} :
           infra'[s][x] \notin {infra[s][x], Gone} => infra'[s][x].commit >= newest[s]]_vars
  BY <1>1
<1> QED BY <1>2, Invariance, PTL DEF Spec, NoStaleConfig
=============================================================================
