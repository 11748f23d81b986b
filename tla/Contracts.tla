----------------------------- MODULE Contracts -----------------------------
(***************************************************************************)
(* Metered contracts: the evaluators of contract_deploy and contract_call  *)
(* over the chain database, with the engine of module ContractEngine.      *)
(* Code and arguments appear by their length; a code hash by whether it is *)
(* absent (all zero), right or wrong.                                      *)
(***************************************************************************)
EXTENDS Database, ContractEngine

CONSTANTS Commands,      \* decoded arguments a call may carry
          FuelLimits, CodeLens, ArgLens, ExportLens,
          MaxContracts   \* bound: contracts deployed in a behaviour

ASSUME ContractsAssumption ==
  /\ Commands \subseteq Command
  /\ FuelLimits \subseteq 0..(UINT64_MOD - 1)
  /\ CodeLens \subseteq Nat /\ ArgLens \subseteq Nat /\ ExportLens \subseteq Nat
  /\ MaxContracts \in Nat

VARIABLES contracts,         \* id -> contract object
          contract_storage,  \* id -> key -> value
          next_contract_id,
          last_call          \* history: limit, fuel used and fuel owed by the last call

contractVars == <<contracts, contract_storage, next_contract_id, last_call>>
chainVars         == <<dbVars, contractVars>>

MAX_CONTRACT_EXPORT == 64
MAX_CONTRACT_ARGS   == 64 * 1024
MAX_CODE_BYTES      == 512 * 1024

ContractObjects == [owner: Accounts, code_len: Nat, created: Nat]

ContractVirtualOps ==
  [name: {"contract_deployed"}, contract_id: Nat, owner: Accounts]
    \cup [name: {"contract_called"}, contract_id: Nat, success: BOOLEAN, fuel: Nat]

DeployOps == [owner: Accounts, code_len: CodeLens, code_hash: {"absent", "right", "wrong"},
              fuel_limit: FuelLimits, args_len: ArgLens]

CallOps == [caller: Accounts, contract_id: 0..MaxContracts, export_len: ExportLens,
            cmd: Commands, fuel_limit: FuelLimits]

----------------------------------------------------------------------------
contract_deploy_validate(op) ==
  /\ op.fuel_limit # 0
  /\ op.code_len > 0 /\ op.code_len <= MAX_CODE_BYTES
  /\ op.args_len <= MAX_CONTRACT_ARGS
  /\ op.code_hash # "wrong"

DeployAccepts(op) ==
  /\ require_hardfork(HIVE_HARDFORK_CONTRACTS)
  /\ contracts_enabled
  /\ contract_deploy_validate(op)
  /\ account_exists(op.owner)
  /\ deploy_and_init(op.code_len, op.fuel_limit)

ContractDeploy(op) ==
  /\ next_contract_id <= MaxContracts
  /\ DeployAccepts(op)
  /\ last_rc_charged' = cost_contract_deploy(op.code_len, op.fuel_limit)
  /\ next_contract_id' = next_contract_id + 1
  /\ contracts' = [id \in DOMAIN contracts \cup {next_contract_id} |->
                     IF id = next_contract_id
                     THEN [owner |-> op.owner, code_len |-> op.code_len, created |-> head_time]
                     ELSE contracts[id]]
  /\ contract_storage' = [id \in DOMAIN contract_storage \cup {next_contract_id} |->
                            IF id = next_contract_id THEN NoWrites ELSE contract_storage[id]]
  /\ push_virtual([name |-> "contract_deployed", contract_id |-> next_contract_id,
                   owner |-> op.owner])
  /\ UNCHANGED <<head_time, config, balances, issued, last_call>>

----------------------------------------------------------------------------
contract_call_validate(op) ==
  /\ op.contract_id # 0
  /\ op.fuel_limit # 0
  /\ op.export_len # 0 /\ op.export_len <= MAX_CONTRACT_EXPORT
  /\ op.cmd.len <= MAX_CONTRACT_ARGS

CallAccepts(op) ==
  /\ require_hardfork(HIVE_HARDFORK_CONTRACTS)
  /\ contracts_enabled
  /\ contract_call_validate(op)
  /\ account_exists(op.caller)
  /\ op.contract_id \in DOMAIN contracts

Overlay(store, writes) ==
  [k \in DOMAIN store \cup DOMAIN writes |-> IF k \in DOMAIN writes THEN writes[k] ELSE store[k]]

\* Mutant: the staged writes go to every contract.
CommittedEverywhere(id, res) ==
  [i \in DOMAIN contract_storage |-> Overlay(contract_storage[i], res.storage_writes)]

\* Storage after a call: the staged writes, on success only.
Committed(id, res) ==
  [contract_storage EXCEPT ![id] = IF res.success THEN Overlay(@, res.storage_writes) ELSE @]

\* A failed call throws, but after it charged RC and reported the call.
ContractCall(op) ==
  /\ CallAccepts(op)
  /\ LET res == call(op.cmd, op.fuel_limit)
     IN  /\ last_rc_charged' = cost_contract_call(op.cmd.len, op.fuel_limit, res.fuel_used)
         /\ contract_storage' = Committed(op.contract_id, res)
         /\ push_virtual([name |-> "contract_called", contract_id |-> op.contract_id,
                          success |-> res.success, fuel |-> res.fuel_used])
         /\ last_call' = [limit |-> op.fuel_limit, used |-> res.fuel_used,
                          owed |-> IF res.success THEN BaseFuel + Weight(op.cmd) ELSE 0]
  /\ UNCHANGED <<head_time, config, balances, issued, contracts, next_contract_id>>

----------------------------------------------------------------------------
ContractsInit ==
  /\ contracts = [id \in {} |-> 0] /\ contract_storage = [id \in {} |-> 0]
  /\ next_contract_id = 1
  /\ last_call = [limit |-> 0, used |-> 0, owed |-> 0]

ContractsNext ==
  \/ \E op \in DeployOps : ContractDeploy(op)
  \/ \E op \in CallOps : ContractCall(op)

ChainInit == DbInit /\ ContractsInit

ChainNext == (DbNext /\ UNCHANGED contractVars) \/ ContractsNext

ChainSpec == ChainInit /\ [][ChainNext]_chainVars

----------------------------------------------------------------------------
Ids == 1..(next_contract_id - 1)

\* Types of the tables; each contract has its storage, and nothing else has.
ContractsTypeOK ==
  /\ DbTypeOK
  /\ pending_virtual_ops \in Seq(ContractVirtualOps)
  /\ next_contract_id \in Nat \ {0}
  /\ contracts \in [Ids -> ContractObjects]
  /\ DOMAIN contract_storage = Ids
  /\ last_call \in [limit: Nat, used: Nat, owed: Nat]

\* Whatever sequence of calls filled it, storage holds only keys and values
\* within the limits of host_limits.
StorageWithinLimits ==
  \A id \in DOMAIN contract_storage : \A k \in DOMAIN contract_storage[id] :
    k.len <= max_storage_key /\ contract_storage[id][k].len <= max_storage_value

\* No call burns more fuel than its operation allows, and one that succeeds
\* burns what its command weighs, unless the sum of its fuel passes the range of
\* uint64_t: burn compares the wrapped sum, so such a call is not stopped.
FuelMetered ==
  /\ last_call.used <= last_call.limit
  /\ last_call.owed \in 1..(UINT64_MOD - 1) => last_call.used = last_call.owed

Reported(id) ==
  /\ Len(pending_virtual_ops') = Len(pending_virtual_ops) + 1
  /\ pending_virtual_ops'[Len(pending_virtual_ops')] =
       [name |-> "contract_called", contract_id |-> id, success |-> TRUE, fuel |-> last_call'.used]

\* The storage of a contract is its own: it changes only in a successful call
\* of that very contract, which the node reports, and never loses a key.
StorageOnlyByOwnCall ==
  [][\A id \in DOMAIN contract_storage :
       /\ id \in DOMAIN contract_storage'
       /\ DOMAIN contract_storage[id] \subseteq DOMAIN contract_storage'[id]
       /\ contract_storage'[id] # contract_storage[id] => Reported(id)]_chainVars
============================================================================
