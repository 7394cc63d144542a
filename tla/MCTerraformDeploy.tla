------------------------- MODULE MCTerraformDeploy -------------------------
(* Two run ids, each used again and again; one push.  The manifest that is *)
(* refused has the Primary's keys and the Standby's state key.             *)
EXTENDS TerraformDeploy, TLC

ManifestOf(keys, key, staging) ==
    [json |-> TRUE, formats |-> TRUE, keys |-> TerraformKeys(keys), state_key |-> key,
     repository |-> Repository, environment |-> Environment,
     roles |-> <<"plan", "apply", "break-glass">>,
     state_bucket |-> "state", plan_bucket |-> "plans", staging |-> staging]
Tree(key, staging, replaced) ==
    [manifest |-> [primary |-> ManifestOf("primary", key, staging),
                   standby |-> ManifestOf("standby", "standby", FALSE)],
     replaced |-> replaced]
MCTrees == {"staged", "bare", "foreign"}
MCContent == [t \in MCTrees |->
    CASE t = "staged" -> Tree("primary", TRUE, {})
      [] t = "bare" -> Tree("primary", FALSE, {"node"})
      [] t = "foreign" -> Tree("standby", TRUE, {})]
MCDispatched == {"primary"} \X Modes
Symmetric == Permutations(Runs)
=============================================================================
