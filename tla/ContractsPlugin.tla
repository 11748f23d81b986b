-------------------------- MODULE ContractsPlugin --------------------------
(***************************************************************************)
(* The hive_contracts plugin: a non-consensus front of the contract engine *)
(* beside the evaluators.  The engine's answer goes to the caller and      *)
(* changes nothing in the node, so a deploy or a call appears by whether   *)
(* the engine ran; engine_ is set exactly when initialized_ is.            *)
(***************************************************************************)
EXTENDS Contracts

VARIABLES initialized_, opts_,
          ended,     \* history: how the last deploy or call since the last init or
                     \* shutdown ended
          governing  \* history: the options of the init that started the plugin

pluginVars == <<initialized_, opts_, ended, governing>>

plugin_options == [enabled: BOOLEAN, execute: BOOLEAN]

default_options == [enabled |-> TRUE, execute |-> TRUE]

----------------------------------------------------------------------------
\* Mutant: an init of a running plugin applies its options.
init_again(opts) ==
  /\ opts_' = opts /\ initialized_' = TRUE
  /\ governing' = IF initialized_ THEN governing ELSE opts
  /\ ended' = "none"

\* A plugin that is initialized returns at once.
init(opts) ==
  /\ ~initialized_
  /\ opts_' = opts /\ initialized_' = TRUE
  /\ governing' = opts
  /\ ended' = "none"

shutdown ==
  /\ opts_' = default_options /\ initialized_' = FALSE
  /\ governing' = default_options
  /\ ended' = "none"

\* deploy and call share their early returns.
deploy_or_call ==
  /\ ended' = CASE ~initialized_                     -> "not initialized"
                [] initialized_ /\ ~opts_.enabled    -> "disabled"
                [] initialized_ /\ ~opts_.execute    -> "disabled"
                [] OTHER                             -> "ran"
  /\ UNCHANGED <<initialized_, opts_, governing>>

----------------------------------------------------------------------------
PluginInit ==
  /\ initialized_ = FALSE /\ opts_ = default_options
  /\ ended = "none" /\ governing = default_options

PluginNext == (\E opts \in plugin_options : init(opts)) \/ shutdown \/ deploy_or_call

NodeInit == ChainInit /\ PluginInit

NodeNext == (ChainNext /\ UNCHANGED pluginVars) \/ (PluginNext /\ UNCHANGED chainVars)

NodeSpec == NodeInit /\ [][NodeNext]_<<chainVars, pluginVars>>

----------------------------------------------------------------------------
\* "Idempotent if already initialized": the engine runs for a caller of the
\* plugin only after an init, and only if the options of the init that started
\* the plugin allow it, whatever inits came while it was running; after a
\* shutdown the next init decides anew.
RunsAsStarted ==
  [][ended # "ran" /\ ended' = "ran"
       => initialized_ /\ governing.enabled /\ governing.execute]_<<chainVars, pluginVars>>
============================================================================
