-------------------------- MODULE TerraformDeploy --------------------------
(***************************************************************************)
(* .github/workflows/terraform-deploy.yml, standby-terraform-deploy.yml    *)
(* and terraform-teardown.yml: plan a stack from the tip of main, publish  *)
(* the saved plan, wait for a protected environment's reviewer, check      *)
(* again, apply.  Main moves, plans expire, jobs fail or are cancelled at  *)
(* any point, an apply may stop half-way, and finished runs are run again. *)
(* Each directory has one concurrency group; deploy, preparation and       *)
(* teardown of the Primary share theirs.                                   *)
(*                                                                         *)
(* Two defences of others are left out, so that nothing below leans on     *)
(* them: Terraform's refusal of a plan older than its state, and EC2's     *)
(* refusal to terminate a protected instance.                              *)
(***************************************************************************)
EXTENDS CiRuntime, Naturals

CONSTANTS
  Runs,          \* run ids; an id whose run has ended may stand for a new run
  MaxCommits,    \* bound: commits of main
  Trees,         \* the trees a commit may have, and what they hold: the manifests by
  Content,       \* directory, and the resources whose changes the provider makes by replacing them
  FirstTrees,    \* bound: trees of the first commit
  Dispatched,    \* bound: the workflows that are dispatched, of the five there are
  RerunModes     \* bound: the modes whose runs are run again

Workflows == (Stacks \X Modes) \ {<<"standby", "teardown">>}

ASSUME CommitsAssumption == MaxCommits \in Nat \ {0}
ASSUME BoundsAssumption ==
  FirstTrees \subseteq Trees /\ Dispatched \subseteq Workflows /\ RerunModes \subseteq Modes

\* What is proved needs this of the committed manifests: one that lists the
\* keys of a stack is in that stack's directory.
ASSUME TreesAssumption ==
  \A t \in Trees, d \in Stacks :
    /\ Content[t].manifest[d].staging \in BOOLEAN
    /\ \A s \in Stacks : Content[t].manifest[d].keys = TerraformKeys(s) => d = s

VARIABLES
  main, head,    \* the tip of main: its number and its tree
  infra,         \* by stack: the resources and the protection state records of them
  newest,        \* by stack: the newest commit ever applied (history)
  torn,          \* by stack: bucket setting of a teardown that stopped half-way (history)
  dir, mode, sha, tree, attempt,     \* of a run: what it is, its checkout, its attempt
  pc,            \* where it is; "review": the apply job awaits its environment's reviewer
  plan,          \* the published plan: its stack and its changes
  expired,       \* 24 hours have passed since
  vouched        \* the approval came in time, of the tip, for the first attempt (history)

vars == <<main, head, infra, newest, torn, dir, mode, sha, tree, attempt, pc, plan,
          expired, vouched>>
repo == <<main, head>>
cloud == <<infra, newest, torn>>
run == <<dir, mode, sha, tree, attempt>>

Gone == [guard |-> "absent", commit |-> 0]
Resources == {"node", "bucket", "rest"}
Protectable == {"node", "bucket"}
Guards == {"absent", "plain", "protected", "prepared"}
Values == [guard : Guards, commit : 0..MaxCommits]
Changes == [of : Resources, acts : SUBSET {"create", "update", "delete"}, from : Values, to : Values]
NoPlan == [stack |-> "none", changes |-> {}]

Ended == {"idle", "failed", "applied"}
Checking == {"reconfirm", "verify", "final", "expiry", "apply"}
Active == {"guard", "show", "plan", "review"} \cup Checking

---------------------------------------------------------------------------
(* Plans and the policies that judge them. *)

(* The configuration of directory d at commit n.  Nothing of the bucket    *)
(* but its force_destroy is configurable.                                  *)
Wanted(d, n, v) ==
    LET guard == IF v.allow THEN "prepared" ELSE "protected" IN
    [r \in Resources |->
       CASE r = "rest" -> [guard |-> "plain", commit |-> n]
         [] r = "node" -> [guard |-> guard, commit |-> n]
         [] r = "bucket" -> IF d = "primary" /\ v.staging
                            THEN [guard |-> guard, commit |-> 0] ELSE Gone]
Destroyed == [r \in Resources |-> Gone]

(* Fault variant: a replacement is a kind of its own, as the summary counts it. *)
SummarizedActs(r, from, to, replaced) ==
    IF from = Gone THEN {"create"}
    ELSE IF to = Gone THEN {"delete"}
    ELSE IF r \in replaced /\ from.commit # to.commit THEN {"replace"}
    ELSE {"update"}
Acts(r, from, to, replaced) ==
    IF from = Gone THEN {"create"}
    ELSE IF to = Gone THEN {"delete"}
    ELSE IF r \in replaced /\ from.commit # to.commit THEN {"delete", "create"}
    ELSE {"update"}

(* terraform plan, plan -destroy *)
Diff(i, want, replaced) ==
    {[of |-> r, acts |-> Acts(r, i[r], want[r], replaced), from |-> i[r], to |-> want[r]] :
       r \in {q \in Resources : i[q] # want[q]}}

(* Fault variant: only plain deletions are looked for. *)
NoPlainDelete(changes) == \A c \in changes : c.acts # {"delete"}
(* plan-policy.jq: nothing is deleted, by a replacement either. *)
PlanPolicy(changes) == \A c \in changes : "delete" \notin c.acts

(* teardown-prep-policy.jq; i is the stack before the plan. *)
Flip(c) ==
    /\ c.of \in Protectable /\ c.acts = {"update"}
    /\ c.from.guard = "protected" /\ c.to = [c.from EXCEPT !.guard = "prepared"]
PrepPolicy(changes, i, staging) ==
    /\ changes # {}
    /\ \A c \in changes : Flip(c)
    /\ i["node"] # Gone
    /\ (i["bucket"] # Gone) <=> staging

PreparedDelete(c) == c.acts = {"delete"} /\ c.from.guard = "prepared"
(* Fault variant: the node must be among what is destroyed. *)
WholeTeardownPolicy(changes, staging) ==
    /\ \E c \in changes : c.of = "node"
    /\ \A c \in changes : c.acts = {"delete"}
    /\ \A c \in changes : c.of = "node" => PreparedDelete(c)
    /\ \A c \in changes : c.of = "bucket" => staging /\ PreparedDelete(c)
(* teardown-policy.jq: a resource may be gone already. *)
TeardownPolicy(changes, staging) ==
    /\ changes # {}
    /\ \A c \in changes : c.acts = {"delete"}
    /\ \A c \in changes : c.of = "node" => PreparedDelete(c)
    /\ \A c \in changes : c.of = "bucket" => staging /\ PreparedDelete(c)

(* The teardown's look at the current state. *)
PreparedState(i, staging) ==
    /\ i["node"].guard \in {"absent", "prepared"}
    /\ i["bucket"].guard \in IF staging THEN {"absent", "prepared"} ELSE {"absent"}

Manifest(r) == Content[tree[r]].manifest[dir[r]]
Stack(r) == Backend(Manifest(r))
PlanOf(r) ==
    LET i == infra[Stack(r)] IN
    IF mode[r] = "teardown" THEN Diff(i, Destroyed, {})
    ELSE Diff(i, Wanted(dir[r], sha[r], Tfvars(Manifest(r), mode[r])),
              Content[tree[r]].replaced)
Permitted(r, changes) ==
    LET staging == Tfvars(Manifest(r), mode[r]).staging IN
    CASE mode[r] = "deploy" -> PlanPolicy(changes)
      [] mode[r] = "prepare" -> PrepPolicy(changes, infra[Stack(r)], staging)
      [] mode[r] = "teardown" -> TeardownPolicy(changes, staging)

(* What an apply may leave: every change made, not made, or - when the     *)
(* resource is replaced - only its deletion made.                          *)
Left(i, changes) ==
    {j \in [Resources -> {i[r] : r \in Resources} \cup {c.to : c \in changes} \cup {Gone}] :
       \A r \in Resources :
         \/ j[r] = i[r]
         \/ \E c \in changes : c.of = r /\ (j[r] = c.to \/ ("delete" \in c.acts /\ j[r] = Gone))}

---------------------------------------------------------------------------
(* GitHub's side. *)

(* A commit reaches main. *)
Push(t) ==
    /\ main < MaxCommits
    /\ main' = main + 1 /\ head' = t
    /\ UNCHANGED <<cloud, run, pc, plan, expired, vouched>>

(* A run enters its group's queue, in the place of one that waits there. *)
Queue(r) ==
    pc' = [q \in Runs |-> IF q = r THEN "queued"
                          ELSE IF pc[q] = "queued" /\ dir'[q] = dir'[r] THEN "failed"
                          ELSE pc[q]]

(* workflow_dispatch: the run is bound to the tip it was started at. *)
Dispatch(r, d, m) ==
    /\ pc[r] \in Ended
    /\ dir' = [dir EXCEPT ![r] = d] /\ mode' = [mode EXCEPT ![r] = m]
    /\ sha' = [sha EXCEPT ![r] = main] /\ tree' = [tree EXCEPT ![r] = head]
    /\ attempt' = [attempt EXCEPT ![r] = 1]
    /\ plan' = [plan EXCEPT ![r] = NoPlan]
    /\ Queue(r)
    /\ UNCHANGED <<repo, cloud, expired, vouched>>

(* "Re-run all jobs" drops the published plan, "re-run failed jobs" keeps it. *)
RunAgain(r, all) ==
    /\ pc[r] \in {"failed", "applied"} /\ mode[r] \in RerunModes
    /\ \A q \in Runs : attempt[q] = 1          \* bound: one re-run at a time
    /\ attempt' = [attempt EXCEPT ![r] = 2]
    /\ plan' = IF all THEN [plan EXCEPT ![r] = NoPlan] ELSE plan
    /\ dir' = dir /\ Queue(r)
    /\ UNCHANGED <<repo, cloud, mode, sha, tree, expired, vouched>>

(* Fault variant: the commit is part of the group's name. *)
GroupPerCommit(r) ==
    \A q \in Runs \ {r} : dir[q] = dir[r] /\ sha[q] = sha[r] => pc[q] \notin Active
(* concurrency: one run of a group at a time, awaiting its approval included. *)
GroupFree(r) == \A q \in Runs \ {r} : dir[q] = dir[r] => pc[q] \notin Active

Goto(r, p) == pc' = [pc EXCEPT ![r] = p]
Unmoved == UNCHANGED <<repo, cloud, run, plan, expired, vouched>>

Start(r) ==
    /\ pc[r] = "queued" /\ GroupFree(r)
    /\ Goto(r, IF plan[r] = NoPlan THEN "guard" ELSE "review")
    /\ Unmoved

(* A run ends.  Its plan is of use only to a re-run of failed jobs. *)
End(r, p) ==
    /\ Goto(r, p)
    /\ plan' = IF p = "failed" /\ attempt[r] = 1 /\ mode[r] \in RerunModes THEN plan ELSE [plan EXCEPT ![r] = NoPlan]
    /\ expired' = [expired EXCEPT ![r] = FALSE]
    /\ vouched' = [vouched EXCEPT ![r] = FALSE]
    /\ UNCHANGED <<repo, run>>

(* A failing command, a lost runner, a cancelled run, a refused review. *)
Fail(r) == pc[r] \in Active \cup {"queued"} /\ End(r, "failed") /\ UNCHANGED cloud

(* Time passes over a published plan that may still be applied. *)
Expire(r) ==
    /\ pc[r] \in {"review"} \cup Checking /\ ~expired[r]
    /\ expired' = [expired EXCEPT ![r] = TRUE]
    /\ UNCHANGED <<repo, cloud, run, pc, plan, vouched>>

(* The reviewer of the protected environment agrees. *)
Approve(r) ==
    /\ pc[r] = "review" /\ Goto(r, "reconfirm")
    /\ vouched' = [vouched EXCEPT ![r] = sha[r] = main /\ ~expired[r] /\ attempt[r] = 1]
    /\ UNCHANGED <<repo, cloud, run, plan, expired>>

---------------------------------------------------------------------------
(* The jobs.  A check that fails ends the run. *)

(* Fault variant: a re-run is taken for a first run. *)
AnyAttempt(r) == TRUE
FirstAttempt(r) == attempt[r] = 1
IsTip(r) == sha[r] = main
Unexpired(r) == ~expired[r]

Check(r, at, ok, next) ==
    /\ pc[r] = at
    /\ IF ok THEN Goto(r, next) /\ Unmoved ELSE End(r, "failed") /\ UNCHANGED cloud

(* The guard of the plan job, and the rendering of the manifest. *)
Guard(r) ==
    Check(r, "guard", FirstAttempt(r) /\ IsTip(r) /\ Renders(Manifest(r)),
          IF mode[r] = "teardown" THEN "show" ELSE "plan")

(* terraform show: a teardown wants the prepared state. *)
Show(r) ==
    Check(r, "show", PreparedState(infra[Stack(r)], Manifest(r).staging), "plan")

(* terraform plan, its policy, the upload of plan and metadata. *)
Plan(r) ==
    LET changes == PlanOf(r) IN
    /\ pc[r] = "plan"
    /\ IF Permitted(r, changes)
       THEN /\ plan' = [plan EXCEPT ![r] = [stack |-> Stack(r), changes |-> changes]]
            /\ Goto(r, "review")
            /\ UNCHANGED <<repo, run, expired, vouched>>
       ELSE End(r, "failed")
    /\ UNCHANGED cloud

(* The apply job: tip, attempt and rendering; the bindings and the expiry; *)
(* tip and expiry once more.  The commit fixes manifest and backend, so    *)
(* the hashes bound in the metadata can only disagree with the attempt.    *)
Reconfirm(r) ==
    Check(r, "reconfirm", IsTip(r) /\ FirstAttempt(r) /\ Renders(Manifest(r)), "verify")
Verify(r) == Check(r, "verify", Unexpired(r) /\ FirstAttempt(r), "final")
FinalTip(r) == Check(r, "final", IsTip(r), "expiry")
FinalExpiry(r) == Check(r, "expiry", Unexpired(r), "apply")

(* terraform apply tf.plan: all of it, or a part and the run fails. *)
Apply(r) ==
    LET s == plan[r].stack IN
    /\ pc[r] = "apply"
    /\ \E j \in Left(infra[s], plan[r].changes) :
         LET complete == \A c \in plan[r].changes : j[c.of] = c.to IN
         /\ infra' = [infra EXCEPT ![s] = j]
         /\ newest' = [newest EXCEPT ![s] = IF \E x \in Resources : j[x].commit > @ THEN sha[r] ELSE @]
         /\ torn' = [torn EXCEPT ![s] = IF mode[r] = "teardown" /\ ~complete
                                        THEN {Manifest(r).staging} ELSE {}]
         /\ (complete /\ End(r, "applied")) \/ End(r, "failed")

---------------------------------------------------------------------------
(* The stacks are as the first commit has them, or do not exist yet. *)
Init ==
    /\ main = 1 /\ head \in FirstTrees
    /\ infra \in {[s \in Stacks |-> Destroyed],
                 [s \in Stacks |-> Wanted(s, 1, Tfvars(Content[head].manifest[s], "deploy"))]}
    /\ newest = [s \in Stacks |-> infra[s]["node"].commit]
    /\ torn = [s \in Stacks |-> {}]
    /\ dir = [r \in Runs |-> "primary"] /\ mode = [r \in Runs |-> "deploy"]
    /\ sha = [r \in Runs |-> 1] /\ tree = [r \in Runs |-> head]
    /\ attempt = [r \in Runs |-> 1] /\ pc = [r \in Runs |-> "idle"]
    /\ plan = [r \in Runs |-> NoPlan] /\ expired = [r \in Runs |-> FALSE]
    /\ vouched = [r \in Runs |-> FALSE]

Step(r) ==
    \/ \E w \in Dispatched : Dispatch(r, w[1], w[2])
    \/ \E all \in BOOLEAN : RunAgain(r, all)
    \/ Start(r) \/ Fail(r) \/ Expire(r) \/ Approve(r)
    \/ Guard(r) \/ Show(r) \/ Plan(r)
    \/ Reconfirm(r) \/ Verify(r) \/ FinalTip(r) \/ FinalExpiry(r) \/ Apply(r)
Next == (\E t \in Trees : Push(t)) \/ \E r \in Runs : Step(r)
Spec == Init /\ [][Next]_vars

---------------------------------------------------------------------------
TypeOK ==
    /\ main \in 1..MaxCommits /\ head \in Trees
    /\ infra \in [Stacks -> [Resources -> Values]]
    /\ newest \in [Stacks -> 0..MaxCommits] /\ torn \in [Stacks -> SUBSET BOOLEAN]
    /\ dir \in [Runs -> Stacks] /\ mode \in [Runs -> Modes]
    /\ sha \in [Runs -> 1..MaxCommits] /\ tree \in [Runs -> Trees]
    /\ attempt \in [Runs -> 1..2] /\ pc \in [Runs -> Ended \cup {"queued"} \cup Active]
    /\ plan \in [Runs -> [stack : Stacks \cup {"none"}, changes : SUBSET Changes]]
    /\ expired \in [Runs -> BOOLEAN] /\ vouched \in [Runs -> BOOLEAN]

(* A node or a staging bucket disappears only from the state that an       *)
(* approved preparation left: not by a deploy whose configuration replaces *)
(* it, and not by a teardown whose preparation was undone meanwhile.       *)
OnlyPreparedDestroyed ==
    [][\A s \in Stacks, x \in Protectable :
         infra'[s][x] = Gone /\ infra[s][x] # Gone => infra[s][x].guard = "prepared"]_vars

(* No resource of a stack is set to a commit older than one that stack has *)
(* seen, however long a plan waits for its approval and its apply.         *)
NoStaleConfig ==
    [][\A s \in Stacks, x \in {"node", "rest"} :
         infra'[s][x] \notin {infra[s][x], Gone} => infra'[s][x].commit >= newest[s]]_vars

(* What changes of a stack is what a reviewer saw, from the very value     *)
(* shown to them, in a plan of that stack's own directory, approved while  *)
(* the commit was the tip of main, unexpired and in the first attempt.     *)
OnlyReviewedChanges ==
    [][\A s \in Stacks, x \in Resources : infra'[s][x] # infra[s][x] =>
         \E r \in Runs :
           /\ pc[r] = "apply" /\ pc'[r] # "apply" /\ vouched[r]
           /\ dir[r] = s /\ plan[r].stack = s
           /\ \E c \in plan[r].changes : c.of = x /\ c.from = infra[s][x]]_vars

(* A teardown that stopped half-way can be resumed: whatever it left, the  *)
(* state check and the policy accept a new destroy plan, if the bucket     *)
(* setting is the same.                                                    *)
ResumeAccepted ==
    \A s \in Stacks : \A staging \in torn[s] :
      LET rest == Diff(infra[s], Destroyed, {}) IN
      rest # {} => PreparedState(infra[s], staging) /\ TeardownPolicy(rest, staging)
=============================================================================
