------------------------------ MODULE Database ------------------------------
(***************************************************************************)
(* The part of the in-memory chain database that every evaluator shares:   *)
(* the head time, the node configuration, the account balances, the queue  *)
(* of virtual operations and the RC charge of the last operation.  The     *)
(* feature modules (Htlc, Nft, ...) extend it with their own tables.       *)
(*                                                                         *)
(* An operation that throws before it has written anything leaves the      *)
(* database alone, so it is not a step; its checks are the guards of the   *)
(* actions.                                                                *)
(***************************************************************************)
EXTENDS Integers, Sequences, RcCosts

CONSTANTS Accounts,    \* well-formed account names
          Endowments,  \* balances that create_account may be asked to set
          Hardforks,   \* hardfork numbers a node may be configured with
          MaxTime,     \* bound: the last head time of a behaviour
          MaxPending   \* bound: virtual operations queued between two clears

Symbols == {"HIVE", "HBD"}

HIVE_HARDFORK_NFT       == 9001
HIVE_HARDFORK_HTLC      == 9002
HIVE_HARDFORK_CONTRACTS == 9003

MAX_MEMO_LEN == 2048

NodeConfig == [nft_skip_state: BOOLEAN, htlc_skip_state: BOOLEAN, contracts_skip: BOOLEAN,
               is_consensus_node: BOOLEAN, hardfork: Nat]

NodeProfiles == {"full", "api_pruned", "mobile_light"}

ASSUME DatabaseAssumption ==
  /\ Endowments \subseteq [Symbols -> Nat]
  /\ Hardforks \subseteq Nat
  /\ MaxTime \in Nat
  /\ MaxPending \in Nat

VARIABLES head_time,            \* time of the head block
          config,               \* node_config
          balances,             \* existing account -> symbol -> amount
          pending_virtual_ops,  \* virtual operations not yet cleared
          last_rc_charged,      \* RC price of the last operation charged
          issued                \* history: symbol -> amount create_account brought in

dbVars == <<head_time, config, balances, pending_virtual_ops, last_rc_charged, issued>>

----------------------------------------------------------------------------
\* Node configuration

\* A node_config as the struct declares it: consensus role, nothing skipped.
DefaultConfig(hf) ==
  [nft_skip_state |-> FALSE, htlc_skip_state |-> FALSE, contracts_skip |-> FALSE,
   is_consensus_node |-> TRUE, hardfork |-> hf]

\* The skip flags and the role a named profile stands for; hardfork is kept.
ProfileFlags(cfg, p) ==
  [cfg EXCEPT !.is_consensus_node = (p = "full"),
              !.nft_skip_state    = (p = "mobile_light"),
              !.htlc_skip_state   = (p = "mobile_light"),
              !.contracts_skip    = (p # "full")]

\* apply_profile ends with a safety net: a consensus node skips no state.
ProfileConfig(cfg, p) ==
  LET flags == ProfileFlags(cfg, p)
  IN  [flags EXCEPT !.nft_skip_state  = @ /\ ~flags.is_consensus_node,
                    !.htlc_skip_state = @ /\ ~flags.is_consensus_node]

require_hardfork(hf)    == config.hardfork >= hf
require_full_nft_state  == ~config.nft_skip_state
require_full_htlc_state == ~config.htlc_skip_state
contracts_enabled       == ~(config.contracts_skip /\ ~config.is_consensus_node)

----------------------------------------------------------------------------
\* Accounts, balances, virtual operations

account_exists(name) == name \in DOMAIN balances

\* Mutant: the debit is not checked.
CanAdjustUnchecked(name, delta, sym) == account_exists(name)

\* The checks of adjust_balance: the account is there and a debit is covered.
CanAdjust(name, delta, sym) ==
  /\ account_exists(name)
  /\ ~(delta < 0 /\ balances[name][sym] < -delta)

\* Mutant: every movement hits the HIVE balance.
adjust_balance_hive(name, delta, sym) ==
  balances' = [balances EXCEPT ![name]["HIVE"] = @ + delta]

adjust_balance(name, delta, sym) ==
  balances' = [balances EXCEPT ![name][sym] = @ + delta]

\* The bound on the queue stands for a consumer that clears it in time.
push_virtual(vop) ==
  /\ Len(pending_virtual_ops) < MaxPending
  /\ pending_virtual_ops' = Append(pending_virtual_ops, vop)

----------------------------------------------------------------------------
\* A fresh database: no account, default configuration at some hardfork.
DbInit ==
  /\ head_time = 0
  /\ config \in {DefaultConfig(hf) : hf \in Hardforks}
  /\ balances = << >>
  /\ pending_virtual_ops = << >>
  /\ last_rc_charged = 0
  /\ issued = [s \in Symbols |-> 0]

\* create_account sets both balances, those of an existing account too.
CreateAccount(name, endowment) ==
  LET old == IF account_exists(name) THEN balances[name] ELSE [s \in Symbols |-> 0]
  IN  /\ balances' = [a \in DOMAIN balances \cup {name} |->
                        IF a = name THEN endowment ELSE balances[a]]
      /\ issued' = [s \in Symbols |-> issued[s] + endowment[s] - old[s]]
      /\ UNCHANGED <<head_time, config, pending_virtual_ops, last_rc_charged>>

ClearVirtual ==
  /\ pending_virtual_ops # << >>
  /\ pending_virtual_ops' = << >>
  /\ UNCHANGED <<head_time, config, balances, last_rc_charged, issued>>

ApplyProfile(p) ==
  /\ config' = ProfileConfig(config, p)
  /\ UNCHANGED <<head_time, balances, pending_virtual_ops, last_rc_charged, issued>>

\* The block that becomes the head carries a later time.
AdvanceTime ==
  /\ head_time' \in (head_time + 1)..MaxTime
  /\ UNCHANGED <<config, balances, pending_virtual_ops, last_rc_charged, issued>>

DbNext ==
  \/ \E a \in Accounts, e \in Endowments : CreateAccount(a, e)
  \/ ClearVirtual
  \/ \E p \in NodeProfiles : ApplyProfile(p)
  \/ AdvanceTime

----------------------------------------------------------------------------
DbTypeOK ==
  /\ head_time \in Nat
  /\ config \in NodeConfig
  /\ DOMAIN balances \subseteq Accounts
  /\ balances \in [DOMAIN balances -> [Symbols -> Nat]]
  /\ last_rc_charged \in Nat
  /\ issued \in [Symbols -> Int]
============================================================================
