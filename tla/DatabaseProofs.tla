--------------------------- MODULE DatabaseProofs ---------------------------
(***************************************************************************)
(* Lemmas about the shared part of the chain database, for the proofs of   *)
(* the feature modules, and the proofs about the contract evaluators, the  *)
(* engine and the plugin beside them, for every value of the constants.    *)
(***************************************************************************)
EXTENDS ContractsPlugin, TLAPS

\* A profile maps a node configuration to a node configuration.
LEMMA ProfileConfigType ==
  ASSUME NEW cfg \in NodeConfig, NEW p
  PROVE  ProfileConfig(cfg, p) \in NodeConfig
<1> DEFINE flags == ProfileFlags(cfg, p)
<1>1. flags \in NodeConfig
  BY ZenonT(30) DEF NodeConfig, ProfileFlags
<1> HIDE DEF flags
<1>2. [flags EXCEPT !.nft_skip_state  = @ /\ ~flags.is_consensus_node,
                    !.htlc_skip_state = @ /\ ~flags.is_consensus_node] \in NodeConfig
  BY <1>1, ZenonT(30) DEF NodeConfig
<1> QED
  BY <1>2 DEF ProfileConfig, flags

\* A fresh database is well typed.
LEMMA DbInitTypeOK == DbInit => DbTypeOK
<1> SUFFICES ASSUME DbInit PROVE DbTypeOK
  OBVIOUS
<1>1. config \in NodeConfig
  <2>1. PICK hf \in Hardforks : config = DefaultConfig(hf)
    BY DEF DbInit
  <2>2. hf \in Nat
    BY DatabaseAssumption
  <2> QED
    BY <2>1, <2>2 DEF NodeConfig, DefaultConfig
<1> QED
  BY <1>1 DEF DbInit, DbTypeOK

\* Crediting an account, or a debit that CanAdjust admits, keeps every balance
\* a natural number and touches no other account.
LEMMA AdjustBalanceType ==
  ASSUME DbTypeOK, NEW name, NEW delta \in Int, NEW sym \in Symbols,
         CanAdjust(name, delta, sym), adjust_balance(name, delta, sym)
  PROVE  /\ DOMAIN balances' = DOMAIN balances
         /\ balances' \in [DOMAIN balances -> [Symbols -> Nat]]
<1>1. balances \in [DOMAIN balances -> [Symbols -> Nat]] /\ name \in DOMAIN balances
  BY DEF DbTypeOK, CanAdjust, account_exists
<1>2. balances[name][sym] + delta \in Nat
  BY <1>1 DEF CanAdjust
<1> QED
  BY <1>1, <1>2 DEF adjust_balance

\* The operations of the database itself keep it well typed.
LEMMA DbNextTypeOK == DbTypeOK /\ DbNext => DbTypeOK'
<1> SUFFICES ASSUME DbTypeOK, DbNext PROVE DbTypeOK'
  OBVIOUS
<1> USE DatabaseAssumption DEF DbTypeOK
<1>1. ASSUME NEW a \in Accounts, NEW e \in Endowments, CreateAccount(a, e)
      PROVE  DbTypeOK'
  <2>1. DOMAIN balances' \subseteq Accounts /\ balances' \in [DOMAIN balances' -> [Symbols -> Nat]]
    BY <1>1 DEF CreateAccount, account_exists
  <2>2. issued' \in [Symbols -> Int]
    <3>1. e \in [Symbols -> Nat]
      OBVIOUS
    <3>2. (IF account_exists(a) THEN balances[a] ELSE [s \in Symbols |-> 0]) \in [Symbols -> Nat]
      BY DEF account_exists
    <3> QED
      BY <1>1, <3>1, <3>2 DEF CreateAccount
  <2> QED
    BY <1>1, <2>1, <2>2 DEF CreateAccount
<1>2. CASE ClearVirtual
  BY <1>2 DEF ClearVirtual
<1>3. ASSUME NEW p \in NodeProfiles, ApplyProfile(p)
      PROVE  DbTypeOK'
  BY <1>3, ProfileConfigType DEF ApplyProfile
<1>4. CASE AdvanceTime
  BY <1>4 DEF AdvanceTime
<1> QED
  BY <1>1, <1>2, <1>3, <1>4 DEF DbNext

\* What a step of the database alone may do: balances of existing accounts
\* may be reset, but no account disappears, the clock does not run back, the
\* hardfork stays and the queue of virtual operations is kept or cleared.
LEMMA DbNextFrame ==
  ASSUME DbTypeOK, DbNext
  PROVE  /\ DOMAIN balances \subseteq DOMAIN balances'
         /\ head_time' >= head_time
         /\ config'.hardfork = config.hardfork
         /\ pending_virtual_ops' \in {pending_virtual_ops, << >>}
<1> USE DEF DbTypeOK
<1>1. ASSUME NEW p \in NodeProfiles, ApplyProfile(p)
      PROVE  config'.hardfork = config.hardfork
  BY <1>1 DEF ApplyProfile, ProfileConfig, ProfileFlags, NodeConfig
<1>2. config'.hardfork = config.hardfork
  BY <1>1, ZenonT(30) DEF DbNext, CreateAccount, ClearVirtual, AdvanceTime
<1>3. head_time' >= head_time
  <2>1. CASE AdvanceTime
    BY <2>1, DatabaseAssumption DEF AdvanceTime
  <2>2. CASE UNCHANGED head_time
    BY <2>2
  <2> QED
    BY <2>1, <2>2, ZenonT(30) DEF DbNext, CreateAccount, ClearVirtual, ApplyProfile
<1> QED
  BY <1>2, <1>3, ZenonT(30) DEF DbNext, CreateAccount, ClearVirtual, AdvanceTime, ApplyProfile

\* So a step of the database keeps the queue well typed, whatever it carries.
LEMMA DbNextQueue ==
  ASSUME DbTypeOK, DbNext, NEW VOps, pending_virtual_ops \in Seq(VOps)
  PROVE  pending_virtual_ops' \in Seq(VOps)
<1>1. << >> \in Seq(VOps)
  OBVIOUS
<1>2. pending_virtual_ops' \in {pending_virtual_ops, << >>}
  BY DbNextFrame
<1> QED
  BY <1>1, <1>2, Zenon

\* So does queueing a virtual operation.
LEMMA PushType ==
  ASSUME NEW VOps, pending_virtual_ops \in Seq(VOps), NEW vop \in VOps, push_virtual(vop)
  PROVE  pending_virtual_ops' \in Seq(VOps)
<1> QED
  BY DEF push_virtual
----------------------------------------------------------------------------
\* The remainder of a sum is a uint64_t, and a sum within range is kept.
LEMMA Wraps ==
  ASSUME NEW x \in Nat
  PROVE  /\ x % UINT64_MOD \in 0..(UINT64_MOD - 1)
         /\ x < UINT64_MOD => x % UINT64_MOD = x
BY ModAssumption

\* A burn never reports more than the limit; one that succeeds reports the
\* wrapped sum.
LEMMA BurnBounded ==
  ASSUME NEW used \in Nat, NEW limit \in Nat, NEW amount \in Nat
  PROVE  LET b == burn(used, limit, amount)
         IN  /\ b.fuel \in Nat /\ b.fuel <= limit
             /\ b.ok \in BOOLEAN
             /\ b.ok => b.fuel = (used + amount) % UINT64_MOD
<1>1. (used + amount) % UINT64_MOD \in Nat
  BY Wraps
<1> QED
  BY <1>1 DEF burn

\* A command weighs a natural amount of fuel.
LEMMA WeightType ==
  ASSUME NEW cmd \in Command
  PROVE  Weight(cmd) \in Nat /\ cmd.len \in Nat
<1>1. /\ cmd.len \in Nat
      /\ cmd.do \in {"burn", "read", "write", "other", "ok", "deny", "bad_write"}
      /\ cmd.do = "burn" => cmd.n \in Nat
      /\ cmd.do = "write" => cmd.val.len \in Nat
  BY ModAssumption DEF Command
<1>2. /\ host_fuel_weight("read_storage", 0) = 50 + 0
      /\ host_fuel_weight("write_storage", cmd.val.len) = 200 + cmd.val.len * 2
  BY Zenon DEF host_fuel_weight
<1>3. CASE cmd.do = "burn"
  <2>1. Weight(cmd) = cmd.n
    BY <1>3, Zenon DEF Weight
  <2> QED
    BY <1>1, <1>3, <2>1
<1>4. CASE cmd.do = "read"
  <2>1. Weight(cmd) = host_fuel_weight("read_storage", 0)
    BY <1>4, Zenon DEF Weight
  <2> QED
    BY <1>1, <1>2, <2>1
<1>5. CASE cmd.do = "write"
  <2>1. Weight(cmd) = host_fuel_weight("write_storage", cmd.val.len)
    BY <1>5, Zenon DEF Weight
  <2> QED
    BY <1>1, <1>2, <1>5, <2>1
<1>6. CASE cmd.do = "other"
  <2>1. Weight(cmd) = 20 + cmd.len
    BY <1>6, Zenon DEF Weight
  <2> QED
    BY <1>1, <2>1
<1>7. CASE cmd.do \in {"ok", "deny", "bad_write"}
  <2>1. Weight(cmd) = 0
    BY <1>7, Zenon DEF Weight
  <2> QED
    BY <1>1, <2>1
<1> QED
  BY <1>1, <1>3, <1>4, <1>5, <1>6, <1>7

\* What the engine answers: fuel within the limit; on success the fuel is the
\* weight of the command unless the sum wraps, and a staged write is within the
\* size limits.
LEMMA CallResult ==
  ASSUME NEW cmd \in Command, NEW limit \in Nat
  PROVE  LET res == call(cmd, limit)
         IN  /\ res.success \in BOOLEAN
             /\ res.fuel_used \in Nat /\ res.fuel_used <= limit
             /\ res.success /\ BaseFuel + Weight(cmd) < UINT64_MOD
                  => res.fuel_used = BaseFuel + Weight(cmd)
             /\ \A k \in DOMAIN res.storage_writes :
                  k.len <= max_storage_key /\ res.storage_writes[k].len <= max_storage_value
<1> DEFINE base == burn(0, limit, BaseFuel)
           full == burn(base.fuel, limit, Weight(cmd))
<1>1. BaseFuel \in Nat /\ Weight(cmd) \in Nat
  BY WeightType DEF BaseFuel
<1>2. /\ base.fuel \in Nat /\ base.fuel <= limit /\ base.ok \in BOOLEAN
      /\ base.ok => base.fuel = BaseFuel % UINT64_MOD
  BY <1>1, BurnBounded
<1>3. /\ full.fuel \in Nat /\ full.fuel <= limit /\ full.ok \in BOOLEAN
      /\ full.ok => full.fuel = (base.fuel + Weight(cmd)) % UINT64_MOD
  BY <1>1, <1>2, BurnBounded, ZenonT(30)
<1>4. base.ok /\ full.ok /\ BaseFuel + Weight(cmd) < UINT64_MOD
        => full.fuel = BaseFuel + Weight(cmd)
  BY <1>1, <1>2, <1>3, Wraps, ModAssumption
<1>5. ~Refused(cmd) /\ cmd.do = "write"
        => cmd.key.len <= max_storage_key /\ cmd.val.len <= max_storage_value
  BY DEF Refused, Command, max_storage_key, max_storage_value
<1>6. call(cmd, limit) =
        IF ~base.ok \/ Refused(cmd) THEN Failed(base.fuel)
        ELSE IF ~full.ok THEN Failed(full.fuel)
        ELSE [success |-> TRUE, fuel_used |-> full.fuel,
              storage_writes |-> IF cmd.do = "write" THEN [k \in {cmd.key} |-> cmd.val] ELSE NoWrites]
  BY DEF call
<1> HIDE DEF base, full
<1>7. \A f : /\ Failed(f).success = FALSE /\ Failed(f).fuel_used = f
             /\ Failed(f).storage_writes = NoWrites
  BY DEF Failed
<1>8. DOMAIN NoWrites = {}
  BY DEF NoWrites
<1>9. CASE ~base.ok \/ Refused(cmd)
  BY <1>2, <1>6, <1>7, <1>8, <1>9, ZenonT(30)
<1>10. CASE ~(~base.ok \/ Refused(cmd)) /\ ~full.ok
  BY <1>3, <1>6, <1>7, <1>8, <1>10, ZenonT(30)
<1>11. CASE ~(~base.ok \/ Refused(cmd)) /\ full.ok
  <2> DEFINE writes == IF cmd.do = "write" THEN [k \in {cmd.key} |-> cmd.val] ELSE NoWrites
  <2>1. \A k \in DOMAIN writes :
          k.len <= max_storage_key /\ writes[k].len <= max_storage_value
    BY <1>5, <1>8, <1>11
  <2>2. call(cmd, limit) = [success |-> TRUE, fuel_used |-> full.fuel, storage_writes |-> writes]
    BY <1>6, <1>11
  <2> HIDE DEF writes
  <2> QED
    BY <1>2, <1>3, <1>4, <1>11, <2>1, <2>2
<1> QED
  BY <1>2, <1>3, <1>9, <1>10, <1>11

----------------------------------------------------------------------------
ContractsInv == ContractsTypeOK /\ StorageWithinLimits /\ FuelMetered

\* A fresh node has no contract.
LEMMA ChainInitInv == ChainInit => ContractsInv
<1> SUFFICES ASSUME ChainInit PROVE ContractsInv
  OBVIOUS
<1>1. DbTypeOK
  BY DbInitTypeOK DEF ChainInit
<1>2. /\ next_contract_id = 1 /\ DOMAIN contract_storage = {}
      /\ contracts \in [{} -> ContractObjects]
      /\ last_call = [limit |-> 0, used |-> 0, owed |-> 0]
      /\ pending_virtual_ops = << >>
  BY DEF ChainInit, ContractsInit, DbInit
<1>3. Ids = {}
  BY <1>2 DEF Ids
<1>4. ContractsTypeOK
  BY <1>1, <1>2, <1>3 DEF ContractsTypeOK
<1>5. StorageWithinLimits
  BY <1>2 DEF StorageWithinLimits
<1>6. FuelMetered
  BY <1>2, ModAssumption DEF FuelMetered
<1> QED
  BY <1>4, <1>5, <1>6 DEF ContractsInv

\* A new contract gets the next id, with a storage of its own that is empty.
LEMMA DeployInv ==
  ASSUME ContractsInv, NEW op \in DeployOps, ContractDeploy(op)
  PROVE  ContractsInv'
<1> DEFINE n   == next_contract_id
           obj == [owner |-> op.owner, code_len |-> op.code_len, created |-> head_time]
           vop == [name |-> "contract_deployed", contract_id |-> n, owner |-> op.owner]
<1>0. ContractsTypeOK /\ DbTypeOK /\ n \in Nat \ {0} /\ head_time \in Nat
  BY DEF ContractsInv, ContractsTypeOK, DbTypeOK
<1>1. /\ op.owner \in Accounts /\ op.code_len \in Nat /\ op.fuel_limit \in Nat
  <2>1. op.owner \in Accounts /\ op.code_len \in CodeLens /\ op.fuel_limit \in FuelLimits
    BY DEF DeployOps
  <2>2. FuelLimits \subseteq Nat /\ CodeLens \subseteq Nat
    BY ContractsAssumption, ModAssumption
  <2> QED
    BY <2>1, <2>2, ZenonT(30)
<1>2. /\ last_rc_charged' = cost_contract_deploy(op.code_len, op.fuel_limit)
      /\ next_contract_id' = n + 1
      /\ contracts' = [id \in DOMAIN contracts \cup {n} |-> IF id = n THEN obj ELSE contracts[id]]
      /\ contract_storage' = [id \in DOMAIN contract_storage \cup {n} |->
                                IF id = n THEN NoWrites ELSE contract_storage[id]]
      /\ push_virtual(vop)
      /\ UNCHANGED <<head_time, config, balances, issued, last_call>>
  BY DEF ContractDeploy
<1>3. obj \in ContractObjects /\ vop \in ContractVirtualOps
  BY <1>0, <1>1 DEF ContractObjects, ContractVirtualOps
<1> HIDE DEF obj, vop
<1>4. Ids = 1..(n - 1) /\ Ids' = 1..n /\ Ids \cup {n} = 1..n /\ n \notin Ids
  BY <1>0, <1>2 DEF Ids
<1>5. last_rc_charged' \in Nat
  BY <1>1, <1>2 DEF cost_contract_deploy, TRANSFER_BASE, bytes_cost, FUEL_TO_RC_NUM, FUEL_TO_RC_DEN
<1>6. DbTypeOK'
  BY <1>0, <1>2, <1>5 DEF DbTypeOK
<1>7. contracts' \in [Ids' -> ContractObjects]
  BY <1>0, <1>2, <1>3, <1>4 DEF ContractsTypeOK
<1>8. /\ DOMAIN contract_storage' = Ids'
      /\ contract_storage'[n] = NoWrites
      /\ \A id \in Ids : contract_storage'[id] = contract_storage[id]
  BY <1>0, <1>2, <1>4 DEF ContractsTypeOK
<1>9. pending_virtual_ops' \in Seq(ContractVirtualOps)
  BY <1>0, <1>2, <1>3, PushType DEF ContractsTypeOK
<1>10. ContractsTypeOK'
  BY <1>0, <1>2, <1>6, <1>7, <1>8, <1>9 DEF ContractsTypeOK
<1>11. StorageWithinLimits'
  <2>1. DOMAIN NoWrites = {}
    BY DEF NoWrites
  <2>2. StorageWithinLimits /\ DOMAIN contract_storage = Ids
    BY <1>0 DEF ContractsInv, ContractsTypeOK
  <2> QED
    BY <1>4, <1>8, <2>1, <2>2 DEF StorageWithinLimits
<1>12. FuelMetered'
  BY <1>2 DEF ContractsInv, FuelMetered
<1> QED
  BY <1>10, <1>11, <1>12 DEF ContractsInv

\* The fields of a call operation.
LEMMA CallOpType ==
  ASSUME NEW op \in CallOps
  PROVE  op.cmd \in Command /\ op.fuel_limit \in Nat /\ op.contract_id \in Nat
<1>1. op.cmd \in Commands /\ op.fuel_limit \in FuelLimits /\ op.contract_id \in 0..MaxContracts
  BY DEF CallOps
<1>2. Commands \subseteq Command /\ FuelLimits \subseteq Nat /\ 0..MaxContracts \subseteq Nat
  BY ContractsAssumption, ModAssumption
<1> QED
  BY <1>1, <1>2, ZenonT(30)

\* A call changes the storage of the called contract only, by what the engine
\* staged, and reports its fuel.
LEMMA CallEffect ==
  ASSUME ContractsInv, NEW op \in CallOps, ContractCall(op)
  PROVE  LET res == call(op.cmd, op.fuel_limit)
         IN  /\ DOMAIN contract_storage' = DOMAIN contract_storage
             /\ \A id \in DOMAIN contract_storage :
                  contract_storage'[id] =
                    IF id = op.contract_id /\ res.success
                    THEN Overlay(contract_storage[id], res.storage_writes)
                    ELSE contract_storage[id]
             /\ last_call' = [limit |-> op.fuel_limit, used |-> res.fuel_used,
                              owed |-> IF res.success THEN BaseFuel + Weight(op.cmd) ELSE 0]
             /\ push_virtual([name |-> "contract_called", contract_id |-> op.contract_id,
                              success |-> res.success, fuel |-> res.fuel_used])
<1> DEFINE res == call(op.cmd, op.fuel_limit)
<1>1. /\ contract_storage' = Committed(op.contract_id, res)
      /\ last_call' = [limit |-> op.fuel_limit, used |-> res.fuel_used,
                       owed |-> IF res.success THEN BaseFuel + Weight(op.cmd) ELSE 0]
      /\ push_virtual([name |-> "contract_called", contract_id |-> op.contract_id,
                       success |-> res.success, fuel |-> res.fuel_used])
  BY DEF ContractCall
<1> HIDE DEF res
<1>2. /\ DOMAIN contract_storage' = DOMAIN contract_storage
      /\ \A id \in DOMAIN contract_storage :
           contract_storage'[id] =
             IF id = op.contract_id /\ res.success
             THEN Overlay(contract_storage[id], res.storage_writes)
             ELSE contract_storage[id]
  BY <1>1 DEF Committed
<1> QED
  BY <1>1, <1>2 DEF res

\* A call keeps the types, the size limits and the account of its fuel.
LEMMA CallInv ==
  ASSUME ContractsInv, NEW op \in CallOps, ContractCall(op)
  PROVE  ContractsInv'
<1> DEFINE res == call(op.cmd, op.fuel_limit)
           vop == [name |-> "contract_called", contract_id |-> op.contract_id,
                   success |-> res.success, fuel |-> res.fuel_used]
<1>0. ContractsTypeOK /\ DbTypeOK /\ StorageWithinLimits
  BY DEF ContractsInv, ContractsTypeOK
<1>1. op.cmd \in Command /\ op.fuel_limit \in Nat /\ op.contract_id \in Nat
  BY CallOpType
<1>2. /\ res.success \in BOOLEAN
      /\ res.fuel_used \in Nat /\ res.fuel_used <= op.fuel_limit
      /\ res.success /\ BaseFuel + Weight(op.cmd) < UINT64_MOD
           => res.fuel_used = BaseFuel + Weight(op.cmd)
      /\ \A k \in DOMAIN res.storage_writes :
           k.len <= max_storage_key /\ res.storage_writes[k].len <= max_storage_value
  BY <1>1, CallResult
<1>3. BaseFuel + Weight(op.cmd) \in Nat /\ op.cmd.len \in Nat
  BY <1>1, WeightType DEF BaseFuel
<1>4. /\ DOMAIN contract_storage' = DOMAIN contract_storage
      /\ \A id \in DOMAIN contract_storage :
           contract_storage'[id] =
             IF id = op.contract_id /\ res.success
             THEN Overlay(contract_storage[id], res.storage_writes)
             ELSE contract_storage[id]
      /\ last_call' = [limit |-> op.fuel_limit, used |-> res.fuel_used,
                       owed |-> IF res.success THEN BaseFuel + Weight(op.cmd) ELSE 0]
      /\ push_virtual(vop)
  BY CallEffect
<1>5. /\ last_rc_charged' = cost_contract_call(op.cmd.len, op.fuel_limit, res.fuel_used)
      /\ UNCHANGED <<head_time, config, balances, issued, contracts, next_contract_id>>
  BY DEF ContractCall
<1>6. vop \in ContractVirtualOps
  BY <1>1, <1>2 DEF ContractVirtualOps
<1> HIDE DEF res, vop
<1>7. last_rc_charged' \in Nat
  BY <1>1, <1>2, <1>3, <1>5
  DEF cost_contract_call, TRANSFER_BASE, bytes_cost, FUEL_TO_RC_NUM, FUEL_TO_RC_DEN
<1>8. ContractsTypeOK'
  <2>1. DbTypeOK'
    BY <1>0, <1>5, <1>7 DEF DbTypeOK
  <2>2. pending_virtual_ops' \in Seq(ContractVirtualOps)
    BY <1>0, <1>4, <1>6, PushType DEF ContractsTypeOK
  <2>3. last_call' \in [limit: Nat, used: Nat, owed: Nat]
    BY <1>1, <1>2, <1>3, <1>4
  <2>4. Ids' = Ids
    BY <1>5 DEF Ids
  <2> QED
    BY <1>0, <1>4, <1>5, <2>1, <2>2, <2>3, <2>4 DEF ContractsTypeOK
<1>9. StorageWithinLimits'
  <2> SUFFICES ASSUME NEW id \in DOMAIN contract_storage, NEW k \in DOMAIN contract_storage'[id]
               PROVE  k.len <= max_storage_key /\ contract_storage'[id][k].len <= max_storage_value
    BY <1>4 DEF StorageWithinLimits
  <2>1. CASE id = op.contract_id /\ res.success
    <3>1. contract_storage'[id] = Overlay(contract_storage[id], res.storage_writes)
      BY <1>4, <2>1
    <3>2. CASE k \in DOMAIN res.storage_writes
      BY <1>2, <3>1, <3>2 DEF Overlay
    <3>3. CASE k \notin DOMAIN res.storage_writes
      <4>1. k \in DOMAIN contract_storage[id] /\ contract_storage'[id][k] = contract_storage[id][k]
        BY <3>1, <3>3 DEF Overlay
      <4> QED
        BY <1>0, <4>1 DEF StorageWithinLimits
    <3> QED
      BY <3>2, <3>3
  <2>2. CASE ~(id = op.contract_id /\ res.success)
    <3>1. contract_storage'[id] = contract_storage[id]
      BY <1>4, <2>2
    <3> QED
      BY <1>0, <3>1 DEF StorageWithinLimits
  <2> QED
    BY <2>1, <2>2
<1>10. FuelMetered'
  BY <1>1, <1>2, <1>3, <1>4, ModAssumption DEF FuelMetered
<1> QED
  BY <1>8, <1>9, <1>10 DEF ContractsInv

\* Every step of the node keeps the invariant; the plugin and the shared
\* database touch none of the tables it is about.
LEMMA ChainNextInv == ContractsInv /\ [NodeNext]_<<chainVars, pluginVars>> => ContractsInv'
<1> SUFFICES ASSUME ContractsInv, [NodeNext]_<<chainVars, pluginVars>> PROVE ContractsInv'
  OBVIOUS
<1>0. ContractsTypeOK /\ DbTypeOK
  BY DEF ContractsInv, ContractsTypeOK
<1>1. CASE DbNext /\ UNCHANGED contractVars
  <2>1. DbTypeOK'
    BY <1>0, <1>1, DbNextTypeOK
  <2>2. pending_virtual_ops' \in Seq(ContractVirtualOps)
    BY <1>0, <1>1, DbNextQueue DEF ContractsTypeOK
  <2>3. /\ contracts' = contracts /\ contract_storage' = contract_storage
        /\ next_contract_id' = next_contract_id /\ last_call' = last_call
    BY <1>1 DEF contractVars
  <2> QED
    BY <2>1, <2>2, <2>3 DEF ContractsInv, ContractsTypeOK, Ids, StorageWithinLimits, FuelMetered
<1>2. ASSUME NEW op \in DeployOps, ContractDeploy(op) PROVE ContractsInv'
  BY <1>2, DeployInv
<1>3. ASSUME NEW op \in CallOps, ContractCall(op) PROVE ContractsInv'
  BY <1>3, CallInv
<1>4. CASE UNCHANGED chainVars
  BY <1>4
  DEF chainVars, dbVars, contractVars, ContractsInv, ContractsTypeOK, DbTypeOK, Ids, StorageWithinLimits, FuelMetered
<1> QED
  BY <1>1, <1>2, <1>3, <1>4 DEF NodeNext, ChainNext, ContractsNext

----------------------------------------------------------------------------
\* The contract tables stay well typed, and exactly the deployed contracts have
\* a storage.
THEOREM ContractsTypeCorrect == NodeSpec => []ContractsTypeOK
<1>1. NodeInit => ContractsInv
  BY ChainInitInv DEF NodeInit
<1>2. ContractsInv => ContractsTypeOK
  BY DEF ContractsInv
<1> QED
  BY <1>1, <1>2, ChainNextInv, PTL DEF NodeSpec

\* No sequence of calls puts a key or a value into storage that is longer than
\* host_limits allows.
THEOREM StorageSizesKept == NodeSpec => []StorageWithinLimits
<1>1. NodeInit => ContractsInv
  BY ChainInitInv DEF NodeInit
<1>2. ContractsInv => StorageWithinLimits
  BY DEF ContractsInv
<1> QED
  BY <1>1, <1>2, ChainNextInv, PTL DEF NodeSpec

\* Whatever the width of the fuel counter, a call reports no more fuel than its
\* limit, and a successful one what its command weighs unless the sum wraps.
THEOREM FuelIsMetered == NodeSpec => []FuelMetered
<1>1. NodeInit => ContractsInv
  BY ChainInitInv DEF NodeInit
<1>2. ContractsInv => FuelMetered
  BY DEF ContractsInv
<1> QED
  BY <1>1, <1>2, ChainNextInv, PTL DEF NodeSpec

\* A step leaves the storage of every contract alone, or is a successful call of
\* it that is reported.
LEMMA StepIsolated ==
  ContractsInv /\ [NodeNext]_<<chainVars, pluginVars>>
    => [\A id \in DOMAIN contract_storage :
          /\ id \in DOMAIN contract_storage'
          /\ DOMAIN contract_storage[id] \subseteq DOMAIN contract_storage'[id]
          /\ contract_storage'[id] # contract_storage[id] => Reported(id)]_chainVars
<1> SUFFICES ASSUME ContractsInv, [NodeNext]_<<chainVars, pluginVars>>, ~UNCHANGED chainVars,
                    NEW id \in DOMAIN contract_storage
             PROVE  /\ id \in DOMAIN contract_storage'
                    /\ DOMAIN contract_storage[id] \subseteq DOMAIN contract_storage'[id]
                    /\ contract_storage'[id] # contract_storage[id] => Reported(id)
  OBVIOUS
<1>0. ContractsTypeOK
  BY DEF ContractsInv
<1>1. CASE DbNext /\ UNCHANGED contractVars
  BY <1>1 DEF contractVars
<1>2. ASSUME NEW op \in DeployOps, ContractDeploy(op)
      PROVE  id \in DOMAIN contract_storage' /\ contract_storage'[id] = contract_storage[id]
  <2>1. id # next_contract_id
    BY <1>0 DEF ContractsTypeOK, Ids
  <2> QED
    BY <1>2, <2>1 DEF ContractDeploy
<1>3. ASSUME NEW op \in CallOps, ContractCall(op)
      PROVE  /\ id \in DOMAIN contract_storage'
             /\ DOMAIN contract_storage[id] \subseteq DOMAIN contract_storage'[id]
             /\ contract_storage'[id] # contract_storage[id] => Reported(id)
  <2> DEFINE res == call(op.cmd, op.fuel_limit)
             vop == [name |-> "contract_called", contract_id |-> op.contract_id,
                     success |-> res.success, fuel |-> res.fuel_used]
  <2>1. /\ DOMAIN contract_storage' = DOMAIN contract_storage
        /\ contract_storage'[id] =
             IF id = op.contract_id /\ res.success
             THEN Overlay(contract_storage[id], res.storage_writes)
             ELSE contract_storage[id]
        /\ last_call' = [limit |-> op.fuel_limit, used |-> res.fuel_used,
                         owed |-> IF res.success THEN BaseFuel + Weight(op.cmd) ELSE 0]
        /\ push_virtual(vop)
    BY <1>3, CallEffect
  <2>2. CASE id = op.contract_id /\ res.success
    <3>0. res.success = TRUE
      <4>1. res.success \in BOOLEAN
        BY CallOpType, CallResult
      <4> QED
        BY <2>2, <4>1
    <3>1. last_call'.used = res.fuel_used
      BY <2>1
    <3>2. vop = [name |-> "contract_called", contract_id |-> id, success |-> TRUE,
                 fuel |-> last_call'.used]
      BY <2>2, <3>0, <3>1
    <3> HIDE DEF res, vop
    <3>3. /\ Len(pending_virtual_ops') = Len(pending_virtual_ops) + 1
          /\ pending_virtual_ops'[Len(pending_virtual_ops')] = vop
      BY <1>0, <2>1 DEF push_virtual, ContractsTypeOK
    <3>4. Reported(id)
      BY <3>2, <3>3 DEF Reported
    <3>5. DOMAIN contract_storage[id] \subseteq DOMAIN contract_storage'[id]
      BY <2>1, <2>2, SMTT(30) DEF Overlay
    <3> QED
      BY <2>1, <3>4, <3>5
  <2>3. CASE ~(id = op.contract_id /\ res.success)
    BY <2>1, <2>3
  <2> QED
    BY <2>2, <2>3, SMTT(30)
<1> QED
  BY <1>1, <1>2, <1>3 DEF NodeNext, ChainNext, ContractsNext

\* The storage of a contract changes only in its own successful, reported call,
\* and no key is ever lost.
THEOREM StorageIsolated == NodeSpec => StorageOnlyByOwnCall
<1>1. NodeInit => ContractsInv
  BY ChainInitInv DEF NodeInit
<1> QED
  BY <1>1, ChainNextInv, StepIsolated, PTL DEF NodeSpec, StorageOnlyByOwnCall

----------------------------------------------------------------------------
PluginInv == opts_ = governing

\* An init that is ignored and a shutdown leave the plugin under the options
\* that started it.
LEMMA PluginStep ==
  PluginInv /\ [NodeNext]_<<chainVars, pluginVars>>
    => /\ PluginInv'
       /\ [ended # "ran" /\ ended' = "ran"
             => initialized_ /\ governing.enabled /\ governing.execute]_<<chainVars, pluginVars>>
<1> SUFFICES ASSUME PluginInv, [NodeNext]_<<chainVars, pluginVars>>
             PROVE  /\ PluginInv'
                    /\ ended # "ran" /\ ended' = "ran"
                         => initialized_ /\ governing.enabled /\ governing.execute
  OBVIOUS
<1>1. ASSUME NEW opts \in plugin_options, init(opts)
      PROVE  PluginInv' /\ ended' = "none"
  BY <1>1 DEF init, PluginInv
<1>2. CASE shutdown
  BY <1>2 DEF shutdown, PluginInv
<1>3. CASE deploy_or_call
  <2>1. PluginInv'
    BY <1>3, ZenonT(30) DEF deploy_or_call, PluginInv
  <2>2. ended' = "ran" => initialized_ /\ opts_.enabled /\ opts_.execute
    BY <1>3, Zenon DEF deploy_or_call
  <2> QED
    BY <2>1, <2>2 DEF PluginInv
<1>4. CASE UNCHANGED pluginVars
  BY <1>4 DEF pluginVars, PluginInv
<1> QED
  BY <1>1, <1>2, <1>3, <1>4 DEF NodeNext, PluginNext

\* The plugin runs the engine only between an init and a shutdown and under the
\* options of that init.
THEOREM PluginRunsAsStarted == NodeSpec => RunsAsStarted
<1>1. NodeInit => PluginInv
  BY DEF NodeInit, PluginInit, PluginInv
<1> QED
  BY <1>1, PluginStep, PTL DEF NodeSpec, RunsAsStarted
=============================================================================
