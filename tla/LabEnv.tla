------------------------------- MODULE LabEnv -------------------------------
(***************************************************************************)
(* lab.env, the operator's file of exported values, and the three programs *)
(* that write it: init-if-absent.py, upsert-lab-env.py and                 *)
(* sync-aws-runtime-outputs.py, which asks AWS for the deployed node.      *)
(* Nothing locks the file: each run reads it, renders all of it and        *)
(* replaces it, while the node is replaced and other runs do the same.     *)
(* Any key may be upserted, those of the node one at a time too.           *)
(***************************************************************************)
EXTENDS FiniteSets

CONSTANTS
  Runs,          \* runs of the three programs
  Instances,     \* EC2 instances that carry the stack's tags, one after the other
  Addresses,     \* what the tagged elastic address may be, one after the other
  Arns,          \* KMS key ARNs that are upserted
  None

VARIABLES
  env,           \* lab.env: the value of each key, or None if there is no file
  fresh, live,   \* instances and addresses not made yet; instances not terminated
  address, holder,   \* the elastic address; the instance that has it, or None
  held,          \* which instance ever had which address (history)
  at,            \* of a run: the step it is at
  job,           \* the values it is to write
  copy,          \* the file as it read it
  missed         \* the keys that others changed since (history)

cloud == <<fresh, live, address, holder, held>>
labVars == <<env, cloud, at, job, copy, missed>>

\* NODE_IP and INSTANCE_ID, and one key for all that only upserts write.  TOPIC_ARN and
\* PARAM_PREFIX, which a sync writes with the same values every time, are left out.
SyncKeys == {"NODE_IP", "INSTANCE_ID"}
Keys == SyncKeys \cup {"RECOVERY_KEY_ARN"}
\* "typed": a value an operator upserted, whatever it is.
Values == {"typed", None} \cup Addresses \cup Instances \cup Arns
\* Also what the template says of these keys: an empty value, or none.
Blank == [k \in Keys |-> None]
Text(e) == IF e = None THEN Blank ELSE e
PossibleJobs == UNION {[names -> Values] : names \in SUBSET Keys}
NoJob == [k \in {} |-> None]

ASSUME NamesAssumption ==
  /\ Addresses # {}
  /\ None \notin Addresses \cup Instances \cup Arns \cup {"typed"} \cup [Keys -> Values]
  /\ "typed" \notin Addresses \cup Instances

Steps == {"idle", "link", "instances", "address", "read", "replace"}

---------------------------------------------------------------------------
At(r, s) == at[r] = s
Goto(r, s) == at' = [at EXCEPT ![r] = s]
Remember(r, j) == job' = [job EXCEPT ![r] = j]
End(r) ==
    /\ Goto(r, "idle") /\ Remember(r, NoJob)
    /\ copy' = [copy EXCEPT ![r] = Blank]

\* The file gets another text: runs that have read it now miss something.
Write(r, e) ==
    /\ env' = e
    /\ missed' = [q \in Runs |->
         IF q = r THEN {}
         ELSE IF at[q] = "replace"
         THEN missed[q] \cup {k \in Keys : Text(env)[k] # e[k]} ELSE missed[q]]
Leave(r) == End(r) /\ missed' = [missed EXCEPT ![r] = {}] /\ UNCHANGED <<env, cloud>>

(* init-if-absent.py: PRESERVED, or link() of a finished copy. *)
InitFile(r) ==
    /\ At(r, "idle") /\ env = None
    /\ Goto(r, "link") /\ UNCHANGED <<env, cloud, job, copy, missed>>
(* Fault variant: the copy is renamed over the target. *)
LinkReplaces(r) ==
    /\ At(r, "link") /\ Write(r, Blank) /\ End(r) /\ UNCHANGED cloud
Link(r) ==
    /\ At(r, "link")
    /\ IF env = None THEN Write(r, Blank) /\ End(r) /\ UNCHANGED cloud ELSE Leave(r)

(* upsert-lab-env.py: one key, whose name is allowed and whose value has *)
(* its format; nothing compares it with the node or with other keys,     *)
Typed(k) == IF k = "RECOVERY_KEY_ARN" THEN Arns ELSE {"typed"}
Upsert(r, k, v) ==
    /\ At(r, "idle") /\ Goto(r, "read")
    /\ Remember(r, [x \in {k} |-> v])
    /\ UNCHANGED <<env, cloud, copy, missed>>
(* and the file read before anything is rendered; sync-aws-... does so last. *)
Read(r) ==
    /\ At(r, "read") /\ Goto(r, "replace")
    /\ copy' = [copy EXCEPT ![r] = Text(env)]
    /\ UNCHANGED <<env, cloud, job, missed>>
(* Fault variant: the named values alone are written. *)
RenderAlone(text, values) == [k \in Keys |-> IF k \in DOMAIN values THEN values[k] ELSE None]
(* render_updated_env(): replace or append, everything else stays *)
Render(text, values) == [k \in Keys |-> IF k \in DOMAIN values THEN values[k] ELSE text[k]]
(* atomic_replace() *)
Replace(r) ==
    /\ At(r, "replace")
    /\ Write(r, Render(copy[r], job[r])) /\ End(r) /\ UNCHANGED cloud

(* sync-aws-runtime-outputs.py, discover(): identity, *)
Sync(r) == At(r, "idle") /\ Goto(r, "instances") /\ UNCHANGED <<env, cloud, job, copy, missed>>
(* exactly one instance that is not terminated, *)
ReadInstances(r) ==
    /\ At(r, "instances") /\ Cardinality(live) = 1
    /\ \E i \in live : Remember(r, [INSTANCE_ID |-> i])
    /\ Goto(r, "address") /\ UNCHANGED <<env, cloud, copy, missed>>
(* Fault variant: the address is taken whoever has it. *)
AttachedAnyhow(i) == TRUE
(* and the one address must be that instance's; then topic and parameters. *)
Attached(i) == holder = i
ReadAddress(r) ==
    /\ At(r, "address") /\ Attached(job[r].INSTANCE_ID)
    /\ Remember(r, [NODE_IP |-> address, INSTANCE_ID |-> job[r].INSTANCE_ID])
    /\ Goto(r, "read") /\ UNCHANGED <<env, cloud, copy, missed>>

(* A refusal, a failing call or a kill: the file is left as it is. *)
Fail(r) == at[r] # "idle" /\ Leave(r)

Edit(r) ==
    \/ InitFile(r) \/ Link(r)
    \/ (\E k \in Keys : \E v \in Typed(k) : Upsert(r, k, v)) \/ Read(r) \/ Replace(r)
    \/ Sync(r) \/ ReadInstances(r) \/ ReadAddress(r)
    \/ Fail(r)

(* AWS: a node is launched, given the address, and terminated; the address *)
(* is released with its stack, whose next deploy gets another one.         *)
UNCHANGEDFiles == UNCHANGED <<env, at, job, copy, missed>>
Launch(i) ==
    /\ i \in Instances \cap fresh /\ fresh' = fresh \ {i} /\ live' = live \cup {i}
    /\ UNCHANGED <<address, holder, held>> /\ UNCHANGEDFiles
Associate(i) ==
    /\ i \in live /\ holder # i /\ holder' = i /\ held' = held \cup {<<address, i>>}
    /\ UNCHANGED <<fresh, live, address>> /\ UNCHANGEDFiles
Terminate(i) ==
    /\ i \in live /\ live' = live \ {i}
    /\ holder' = IF holder = i THEN None ELSE holder
    /\ UNCHANGED <<fresh, address, held>> /\ UNCHANGEDFiles
Allocate(a) ==
    /\ a \in Addresses \cap fresh /\ live = {} /\ fresh' = fresh \ {a} /\ address' = a
    /\ UNCHANGED <<live, holder, held>> /\ UNCHANGEDFiles
Provision ==
    \/ \E i \in Instances : Launch(i) \/ Associate(i) \/ Terminate(i)
    \/ \E a \in Addresses : Allocate(a)

LabInit ==
    /\ env = None /\ live = {} /\ held = {}
    /\ address \in Addresses /\ holder = None /\ fresh = (Instances \cup Addresses) \ {address}
    /\ at = [r \in Runs |-> "idle"] /\ job = [r \in Runs |-> NoJob]
    /\ copy = [r \in Runs |-> Blank] /\ missed = [r \in Runs |-> {}]

---------------------------------------------------------------------------
LabTypeOK ==
    /\ env \in [Keys -> Values] \cup {None}
    /\ fresh \subseteq Instances \cup Addresses /\ live \subseteq Instances
    /\ address \in Addresses /\ held \subseteq Addresses \X Instances
    /\ holder \in live \cup {None}
    /\ at \in [Runs -> Steps]
    /\ job \in [Runs -> PossibleJobs]
    /\ \A r \in Runs : at[r] \in {"address", "read", "replace"} <=> job[r] # NoJob
    /\ copy \in [Runs -> [Keys -> Values]]
    /\ missed \in [Runs -> SUBSET Keys]

(* A value in the file changes only through a run that names it, or one    *)
(* that read the file before the value was written: runs that do not       *)
(* overlap lose nothing of each other, and init-if-absent.py, whatever     *)
(* appears while it copies, changes no value at all.                       *)
ProgressKept ==
    [][\A k \in Keys :
         LET old == Text(env)[k] new == Text(env')[k] IN
         (old # None /\ new # old) =>
            \E r \in Runs : /\ at[r] = "replace" /\ at'[r] = "idle"
                            /\ k \in DOMAIN job[r] \cup missed[r]]_labVars

(* lab.env never has half of what a sync found: beside an address or an    *)
(* instance of a sync there is a value for the other, and unless an        *)
(* operator typed one of the two, the instance had that address.  Not even *)
(* overlapping runs, writing back texts they read long ago, pair an        *)
(* address with an instance that never had it.                             *)
PairReal ==
    LET ip == Text(env)["NODE_IP"] id == Text(env)["INSTANCE_ID"] IN
    /\ ip \in Addresses => id = "typed" \/ <<ip, id>> \in held
    /\ id \in Instances => ip = "typed" \/ <<ip, id>> \in held
=============================================================================
