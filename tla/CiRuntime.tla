----------------------------- MODULE CiRuntime -----------------------------
(***************************************************************************)
(* shared/scripts/render-terraform-ci-runtime.py: what it accepts of a     *)
(* tracked manifest, and what it renders of it for a mode.  A manifest is  *)
(* a record of the fields that some rule relates to another field, to the  *)
(* workflow or to the mode; `formats` stands for the rules about a single  *)
(* field (patterns, address classes, literals).  A stack is named by its   *)
(* state key: "primary" or "standby".                                      *)
(***************************************************************************)
CONSTANTS Repository, Environment     \* what GitHub says of the running workflow

Stacks == {"primary", "standby"}      \* EXPECTED_STATE_KEYS

(* MODES: only a plain deploy keeps the protection of node and bucket. *)
Modes == {"deploy", "prepare", "teardown"}
AllowProtectedDestroy(mode) == mode # "deploy"

(* The keys of `terraform`: the Standby needs one more. *)
TerraformKeys(key) ==
    IF key = "standby" THEN {"base", "node_ssh_public_key"} ELSE {"base"}

(* read_manifest(): a regular file that holds one JSON object with distinct keys. *)
Readable(m) == m.json

(* validate_*(): the rules about one field each. *)
WellFormed(m) == m.formats

(* The rules that tie the manifest to the workflow, and the account's own  *)
(* names: three role names, and two buckets that differ.                   *)
OwnIdentity(m) ==
    m.repository = Repository /\ m.environment = Environment
OwnResources(m) ==
    m.roles = <<"plan", "apply", "break-glass">> /\ m.state_bucket # m.plan_bucket

(* validate_manifest() *)
ValidManifest(m) ==
    /\ m.keys = TerraformKeys(m.state_key)
    /\ OwnIdentity(m)
    /\ m.state_key \in Stacks
    /\ OwnResources(m)
    /\ WellFormed(m)

(* main(): a refusal, or all of the files.  A write that fails ends the    *)
(* job, whose directory goes with its runner.                              *)
Renders(m) == Readable(m) /\ ValidManifest(m)

(* What the workflows use of the files: the protection and the bucket of   *)
(* ci.auto.tfvars.json and control.json, the state of backend.hcl.         *)
Tfvars(m, mode) == [allow |-> AllowProtectedDestroy(mode), staging |-> m.staging]
Backend(m) == m.state_key
=============================================================================
