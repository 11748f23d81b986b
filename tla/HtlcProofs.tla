----------------------------- MODULE HtlcProofs -----------------------------
(***************************************************************************)
(* Proofs about the HTLC evaluators, for every value of the constants.     *)
(***************************************************************************)
EXTENDS Htlc, DatabaseProofs, FiniteSetTheorems

\* The fields of an htlc_create operation.
LEMMA CreateOpType ==
  ASSUME NEW op \in HtlcCreateOps
  PROVE  /\ op.from \in Accounts /\ op.to \in Accounts /\ op.memo_len \in Nat
         /\ op.amount \in [amount: Int, symbol: Symbols] /\ op.expiration \in Nat
         /\ op.preimage_hash \in Digests /\ op.preimage_size \in Nat
<1> USE HtlcAssumption
<1>1. /\ op.from \in Accounts /\ op.to \in Accounts /\ op.memo_len \in MemoLens
      /\ op.amount \in AssetInputs /\ op.expiration \in 0..MaxTime
      /\ op.preimage_hash \in Digests /\ op.preimage_size \in SizeInputs
  BY DEF HtlcCreateOps
<1>2. op.amount \in [amount: Int, symbol: Symbols]
  BY <1>1
<1>3. op.memo_len \in Nat /\ op.preimage_size \in Nat
  BY <1>1, Zenon
<1>4. op.expiration \in Nat
  BY <1>1, DatabaseAssumption
<1> QED
  BY <1>1, <1>2, <1>3, <1>4

\* The effects of a create, split into its two outcomes.
LEMMA CreateEffect ==
  ASSUME TypeOK, NEW op \in HtlcCreateOps, HtlcCreate(op)
  PROVE  /\ DbTypeOK'
         /\ DOMAIN balances' = DOMAIN balances
         /\ pending_virtual_ops' \in Seq(HtlcVirtualOps)
         /\ \/ UNCHANGED htlcVars
            \/ /\ next_htlc_id' = next_htlc_id + 1
               /\ htlcs' \in [1..next_htlc_id -> HtlcObjects]
               /\ \A id \in DOMAIN htlcs : htlcs'[id] = htlcs[id]
               /\ htlcs'[next_htlc_id].from = op.from
               /\ htlcs'[next_htlc_id].to = op.to
               /\ htlcs'[next_htlc_id].amount = op.amount
               /\ htlcs'[next_htlc_id].preimage_size = op.preimage_size
               /\ htlcs'[next_htlc_id].expiration = op.expiration
               /\ htlcs'[next_htlc_id].created = head_time
               /\ htlcs'[next_htlc_id].status = "open"
<1> USE DatabaseAssumption, HtlcAssumption
<1>1. /\ op.from \in Accounts /\ op.to \in Accounts /\ op.memo_len \in Nat
      /\ op.amount \in [amount: Int, symbol: Symbols] /\ op.expiration \in Nat
      /\ op.preimage_hash \in Digests /\ op.preimage_size \in Nat
  BY CreateOpType
<1>2. op.amount.amount \in Nat \ {0} /\ op.amount.symbol \in Symbols
  BY <1>1 DEF HtlcCreate, CreateAccepts, htlc_create_validate
<1>3. op.amount \in [amount: Nat \ {0}, symbol: Symbols]
  BY <1>1, <1>2
<1>4. last_rc_charged' \in Nat
  BY <1>1 DEF HtlcCreate, cost_htlc_create, TRANSFER_BASE, bytes_cost
<1>5. CASE CanAdjust(op.from, -op.amount.amount, op.amount.symbol)
  <2> DEFINE h == [from |-> op.from, to |-> op.to, amount |-> op.amount,
                   preimage_hash |-> op.preimage_hash, preimage_size |-> op.preimage_size,
                   expiration |-> op.expiration, created |-> head_time, status |-> "open"]
             vop == [name |-> "htlc_created", htlc_id |-> next_htlc_id,
                     from |-> op.from, to |-> op.to]
  <2>1. h \in HtlcObjects
    BY <1>1, <1>3 DEF HtlcObjects, HtlcStatus, TypeOK, DbTypeOK
  <2>2. vop \in HtlcVirtualOps
    BY <1>1 DEF HtlcVirtualOps, TypeOK
  <2>3. /\ next_htlc_id' = next_htlc_id + 1
        /\ htlcs' = [id \in DOMAIN htlcs \cup {next_htlc_id} |->
                       IF id = next_htlc_id THEN h ELSE htlcs[id]]
        /\ pending_virtual_ops' = Append(pending_virtual_ops, vop)
        /\ adjust_balance(op.from, -op.amount.amount, op.amount.symbol)
        /\ UNCHANGED <<head_time, config, issued>>
    BY <1>5 DEF HtlcCreate, push_virtual
  <2> HIDE DEF h, vop
  <2>4. DOMAIN htlcs \cup {next_htlc_id} = 1..next_htlc_id /\ next_htlc_id \notin DOMAIN htlcs
    BY DEF TypeOK
  <2>5. htlcs' \in [1..next_htlc_id -> HtlcObjects] /\ htlcs'[next_htlc_id] = h
        /\ \A id \in DOMAIN htlcs : htlcs'[id] = htlcs[id]
    BY <2>1, <2>3, <2>4, Zenon DEF TypeOK
  <2>6. /\ DOMAIN balances' = DOMAIN balances
        /\ balances' \in [DOMAIN balances -> [Symbols -> Nat]]
    BY <1>2, <1>5, <2>3, AdjustBalanceType DEF TypeOK
  <2>7. pending_virtual_ops' \in Seq(HtlcVirtualOps)
    BY <2>2, <2>3 DEF TypeOK
  <2> QED
    BY <1>4, <2>3, <2>5, <2>6, <2>7, Zenon DEF TypeOK, DbTypeOK, h
<1>6. CASE ~CanAdjust(op.from, -op.amount.amount, op.amount.symbol)
  BY <1>4, <1>6, Zenon DEF HtlcCreate, TypeOK, DbTypeOK
<1> QED
  BY <1>5, <1>6

\* The tables after a settlement: one status changes and nothing else.
LEMMA SettleTables ==
  ASSUME TypeOK, NEW id \in DOMAIN htlcs, NEW status \in HtlcStatus,
         htlcs' = [htlcs EXCEPT ![id].status = status]
  PROVE  /\ htlcs' \in [1..(next_htlc_id - 1) -> HtlcObjects]
         /\ htlcs'[id] = [htlcs[id] EXCEPT !.status = status]
         /\ \A x \in DOMAIN htlcs : x # id => htlcs'[x] = htlcs[x]
<1>1. htlcs[id] \in HtlcObjects
  BY DEF TypeOK
<1>2. [htlcs[id] EXCEPT !.status = status] \in HtlcObjects
  BY <1>1 DEF HtlcObjects
<1> QED
  BY <1>2 DEF TypeOK

\* A redeem keeps the tables well typed and closes one open HTLC.
LEMMA RedeemEffect ==
  ASSUME TypeOK, NEW to \in Accounts, NEW id \in DOMAIN htlcs, NEW p \in Preimages,
         HtlcRedeem(to, id, p)
  PROVE  /\ DbTypeOK'
         /\ DOMAIN balances' = DOMAIN balances
         /\ pending_virtual_ops' \in Seq(HtlcVirtualOps)
         /\ htlcs' = [htlcs EXCEPT ![id].status = "redeemed"]
         /\ UNCHANGED <<head_time, config, issued, next_htlc_id>>
<1> USE HtlcAssumption
<1> DEFINE vop == [name |-> "htlc_redeemed", htlc_id |-> id, to |-> to]
<1>1. htlcs[id] \in HtlcObjects /\ id \in Nat
  BY DEF TypeOK
<1>2. htlcs[id].amount.amount \in Int /\ htlcs[id].amount.symbol \in Symbols
  BY <1>1 DEF HtlcObjects
<1>3. /\ DOMAIN balances' = DOMAIN balances
      /\ balances' \in [DOMAIN balances -> [Symbols -> Nat]]
  BY <1>2, AdjustBalanceType DEF HtlcRedeem, TypeOK
<1>4. p.len \in Nat
  OBVIOUS
<1>5. last_rc_charged' \in Nat
  BY <1>4 DEF HtlcRedeem, cost_htlc_redeem, TRANSFER_BASE, bytes_cost
<1>6. vop \in HtlcVirtualOps
  BY <1>1 DEF HtlcVirtualOps
<1>7. pending_virtual_ops' = Append(pending_virtual_ops, vop)
  BY DEF HtlcRedeem, push_virtual
<1>8. pending_virtual_ops' \in Seq(HtlcVirtualOps)
  BY <1>6, <1>7 DEF TypeOK
<1> QED
  BY <1>3, <1>5, <1>8, Zenon DEF HtlcRedeem, TypeOK, DbTypeOK

\* A refund likewise.
LEMMA RefundEffect ==
  ASSUME TypeOK, NEW from \in Accounts, NEW id \in DOMAIN htlcs, HtlcRefund(from, id)
  PROVE  /\ DbTypeOK'
         /\ DOMAIN balances' = DOMAIN balances
         /\ pending_virtual_ops' \in Seq(HtlcVirtualOps)
         /\ htlcs' = [htlcs EXCEPT ![id].status = "refunded"]
         /\ UNCHANGED <<head_time, config, issued, next_htlc_id>>
<1> USE HtlcAssumption
<1> DEFINE vop == [name |-> "htlc_refunded", htlc_id |-> id, from |-> from]
<1>1. htlcs[id] \in HtlcObjects /\ id \in Nat
  BY DEF TypeOK
<1>2. htlcs[id].amount.amount \in Int /\ htlcs[id].amount.symbol \in Symbols
  BY <1>1 DEF HtlcObjects
<1>3. /\ DOMAIN balances' = DOMAIN balances
      /\ balances' \in [DOMAIN balances -> [Symbols -> Nat]]
  BY <1>2, AdjustBalanceType DEF HtlcRefund, TypeOK
<1>4. last_rc_charged' \in Nat
  BY DEF HtlcRefund, cost_htlc_refund, TRANSFER_BASE
<1>5. vop \in HtlcVirtualOps
  BY <1>1 DEF HtlcVirtualOps
<1>6. pending_virtual_ops' = Append(pending_virtual_ops, vop)
  BY DEF HtlcRefund, push_virtual
<1>7. pending_virtual_ops' \in Seq(HtlcVirtualOps)
  BY <1>5, <1>6 DEF TypeOK
<1> QED
  BY <1>3, <1>4, <1>7, Zenon DEF HtlcRefund, TypeOK, DbTypeOK

----------------------------------------------------------------------------
\* The invariant holds in a fresh database.
LEMMA InitInv == Init => HtlcInv
<1> SUFFICES ASSUME Init PROVE HtlcInv
  OBVIOUS
<1>1. TypeOK
  BY DbInitTypeOK DEF Init, DbInit, HtlcInit, TypeOK
<1>2. DOMAIN htlcs = {}
  BY DEF Init, HtlcInit
<1> QED
  BY <1>1, <1>2 DEF HtlcInv, TimeLockKept

\* The clauses of HtlcInv about one HTLC, as they read after a step.
Kept(id) ==
  /\ htlcs'[id].created <= head_time'
  /\ htlcs'[id].expiration \in (htlcs'[id].created + HTLC_MIN_DURATION_SEC)
                                ..(htlcs'[id].created + HTLC_MAX_DURATION_SEC)
  /\ htlcs'[id].status = "refunded" => head_time' >= htlcs'[id].expiration
  /\ {htlcs'[id].from, htlcs'[id].to} \subseteq DOMAIN balances'
  /\ htlcs'[id].preimage_size \in 1..MAX_HTLC_PREIMAGE_LEN
  /\ config'.hardfork >= HIVE_HARDFORK_HTLC

\* An HTLC a step does not touch stays sound when the clock does not run back,
\* no account disappears and the hardfork stays.
LEMMA UntouchedKept ==
  ASSUME HtlcInv, NEW id \in DOMAIN htlcs, htlcs'[id] = htlcs[id],
         head_time' \in Nat, head_time' >= head_time,
         DOMAIN balances \subseteq DOMAIN balances', config'.hardfork = config.hardfork
  PROVE  Kept(id)
<1>1. htlcs[id] \in HtlcObjects /\ head_time \in Nat
  BY DEF HtlcInv, TypeOK, DbTypeOK
<1>2. htlcs[id].created \in Nat /\ htlcs[id].expiration \in Nat
  BY <1>1 DEF HtlcObjects
<1> QED
  BY <1>1, <1>2 DEF HtlcInv, TimeLockKept, Kept, require_hardfork

\* Every step preserves the invariant.
LEMMA NextInv == HtlcInv /\ [Next]_vars => HtlcInv'
<1> SUFFICES ASSUME HtlcInv, [Next]_vars PROVE HtlcInv'
  OBVIOUS
<1> USE DatabaseAssumption, HtlcAssumption
<1>0. TypeOK /\ DbTypeOK
  BY DEF HtlcInv, TypeOK
<1>a. ASSUME TypeOK', \A id \in DOMAIN htlcs' : Kept(id)
      PROVE  HtlcInv'
  BY <1>a DEF HtlcInv, TimeLockKept, Kept, require_hardfork
<1>1. CASE DbNext /\ UNCHANGED htlcVars
  <2>1. TypeOK'
    <3>1. DbTypeOK'
      BY <1>0, <1>1, DbNextTypeOK
    <3>2. pending_virtual_ops' \in Seq(HtlcVirtualOps)
      BY <1>0, <1>1, DbNextQueue, Zenon DEF TypeOK
    <3> QED
      BY <1>0, <1>1, <3>1, <3>2 DEF TypeOK, htlcVars
  <2>2. \A id \in DOMAIN htlcs' : Kept(id)
    BY <1>0, <1>1, <2>1, DbNextFrame, UntouchedKept, Zenon DEF TypeOK, DbTypeOK, htlcVars
  <2> QED
    BY <1>a, <2>1, <2>2
<1>2. ASSUME NEW op \in HtlcCreateOps, HtlcCreate(op)
      PROVE  HtlcInv'
  <2>1. TypeOK'
    <3>1. DbTypeOK' /\ pending_virtual_ops' \in Seq(HtlcVirtualOps)
      BY <1>0, <1>2, CreateEffect
    <3>2. CASE UNCHANGED htlcVars
      BY <1>0, <3>1, <3>2 DEF TypeOK, htlcVars
    <3>3. CASE next_htlc_id' = next_htlc_id + 1 /\ htlcs' \in [1..next_htlc_id -> HtlcObjects]
      <4>1. next_htlc_id' - 1 = next_htlc_id /\ next_htlc_id' \in Nat \ {0}
        BY <1>0, <3>3 DEF TypeOK
      <4> QED
        BY <3>1, <3>3, <4>1 DEF TypeOK
    <3> QED
      BY <1>0, <1>2, <3>2, <3>3, CreateEffect, Zenon
  <2>2. UNCHANGED <<head_time, config>> /\ DOMAIN balances' = DOMAIN balances
    BY <1>0, <1>2, CreateEffect, Zenon DEF HtlcCreate
  <2>3. ASSUME NEW id \in DOMAIN htlcs', id \in DOMAIN htlcs
        PROVE  Kept(id)
    <3>1. htlcs'[id] = htlcs[id]
      BY <1>0, <1>2, <2>3, CreateEffect, Zenon DEF htlcVars
    <3> QED
      BY <1>0, <2>1, <2>2, <2>3, <3>1, UntouchedKept DEF TypeOK, DbTypeOK
  <2>4. ASSUME NEW id \in DOMAIN htlcs', id \notin DOMAIN htlcs
        PROVE  Kept(id)
    <3>1. /\ id = next_htlc_id
          /\ htlcs'[id].from = op.from /\ htlcs'[id].to = op.to
          /\ htlcs'[id].preimage_size = op.preimage_size
          /\ htlcs'[id].expiration = op.expiration
          /\ htlcs'[id].created = head_time
          /\ htlcs'[id].status = "open"
      BY <1>0, <1>2, <2>4, CreateEffect DEF htlcVars, TypeOK
    <3>2. /\ op.preimage_size \in 1..MAX_HTLC_PREIMAGE_LEN
          /\ op.expiration \in (head_time + HTLC_MIN_DURATION_SEC)
                                ..(head_time + HTLC_MAX_DURATION_SEC)
          /\ {op.from, op.to} \subseteq DOMAIN balances
          /\ config.hardfork >= HIVE_HARDFORK_HTLC
      <4>1. op.preimage_size \in Nat /\ op.expiration \in Nat
        BY CreateOpType
      <4> QED
        BY <1>0, <1>2, <4>1 DEF HtlcCreate, CreateAccepts, htlc_create_validate, account_exists,
             require_hardfork, DbTypeOK
    <3> QED
      BY <1>0, <2>2, <3>1, <3>2 DEF Kept, DbTypeOK
  <2> QED
    BY <1>a, <2>1, <2>3, <2>4
<1>3. ASSUME NEW id \in DOMAIN htlcs, NEW status \in HtlcStatus,
             htlcs' = [htlcs EXCEPT ![id].status = status],
             status = "refunded" => head_time >= htlcs[id].expiration,
             TypeOK', UNCHANGED <<head_time, config>>, DOMAIN balances' = DOMAIN balances
      PROVE  HtlcInv'
  <2>1. /\ DOMAIN htlcs' = DOMAIN htlcs
        /\ htlcs'[id] = [htlcs[id] EXCEPT !.status = status]
        /\ \A x \in DOMAIN htlcs : x # id => htlcs'[x] = htlcs[x]
    BY <1>0, <1>3, SettleTables
  <2>2. ASSUME NEW x \in DOMAIN htlcs, x # id
        PROVE  Kept(x)
    BY <1>0, <1>3, <2>1, <2>2, UntouchedKept DEF DbTypeOK
  <2>3. Kept(id)
    <3>1. htlcs[id] \in HtlcObjects
      BY <1>0 DEF TypeOK
    <3> QED
      BY <1>3, <2>1, <3>1 DEF Kept, HtlcInv, TimeLockKept, require_hardfork, HtlcObjects
  <2> QED
    BY <1>a, <1>3, <2>1, <2>2, <2>3, Zenon
<1>4. ASSUME NEW to \in Accounts, NEW id \in DOMAIN htlcs, NEW p \in Preimages,
             HtlcRedeem(to, id, p)
      PROVE  HtlcInv'
  <2>1. TypeOK'
    BY <1>0, <1>4, RedeemEffect, SettleTables, Zenon DEF TypeOK, HtlcStatus
  <2> QED
    BY <1>0, <1>3, <1>4, <2>1, RedeemEffect DEF HtlcStatus
<1>5. ASSUME NEW from \in Accounts, NEW id \in DOMAIN htlcs, HtlcRefund(from, id)
      PROVE  HtlcInv'
  <2>1. TypeOK'
    BY <1>0, <1>5, RefundEffect, SettleTables, Zenon DEF TypeOK, HtlcStatus
  <2>2. head_time >= htlcs[id].expiration
    BY <1>5, Zenon DEF HtlcRefund, RefundAccepts
  <2> QED
    BY <1>0, <1>3, <1>5, <2>1, <2>2, RefundEffect, Zenon DEF HtlcStatus
<1>6. CASE UNCHANGED vars
  BY <1>6, Zenon DEF vars, dbVars, htlcVars, HtlcInv, TypeOK, DbTypeOK, TimeLockKept, require_hardfork
<1> QED
  BY <1>1, <1>2, <1>4, <1>5, <1>6 DEF Next, HtlcNext

\* The strengthened invariant holds throughout every behaviour.
THEOREM InvariantHolds == Spec => []HtlcInv
<1> QED
  BY InitInv, NextInv, PTL DEF Spec

----------------------------------------------------------------------------
\* Type correctness of the evaluators: in particular no balance goes negative.
THEOREM TypeCorrect == Spec => []TypeOK
<1>1. HtlcInv => TypeOK
  BY DEF HtlcInv
<1> QED
  BY <1>1, InvariantHolds, PTL

\* Expirations lie in the validated window and no HTLC is refunded early.
THEOREM TimeLocksKept == Spec => []TimeLockKept
<1>1. HtlcInv => TimeLockKept
  BY Zenon DEF HtlcInv
<1> QED
  BY <1>1, InvariantHolds, PTL

\* Redeem and refund are accepted on complementary sides of the expiration,
\* and neither credit can fail.
THEOREM OneExit == Spec => []ExactlyOneExit
<1>1. HtlcInv => ExactlyOneExit
  <2> SUFFICES ASSUME HtlcInv, NEW id \in DOMAIN htlcs, IsOpen(id), require_full_htlc_state
               PROVE  /\ (\E p \in Preimages : RedeemAccepts(htlcs[id].to, id, p))
                            <=> (head_time < htlcs[id].expiration /\ KeyFits(id))
                      /\ RefundAccepts(htlcs[id].from, id)
                            <=> ~(head_time < htlcs[id].expiration)
                      /\ \A p \in Preimages :
                           RedeemAccepts(htlcs[id].to, id, p) => p = htlcs[id].preimage_hash.of
                      /\ CanAdjust(htlcs[id].to, htlcs[id].amount.amount, htlcs[id].amount.symbol)
                      /\ CanAdjust(htlcs[id].from, htlcs[id].amount.amount, htlcs[id].amount.symbol)
    BY DEF ExactlyOneExit
  <2> USE HtlcAssumption
  <2>1. htlcs[id] \in HtlcObjects /\ head_time \in Nat
    BY DEF HtlcInv, TypeOK, DbTypeOK
  <2>2. /\ htlcs[id].expiration \in Nat /\ htlcs[id].amount.amount \in Nat
        /\ htlcs[id].preimage_hash \in Digests
    BY <2>1 DEF HtlcObjects
  <2>3. /\ htlcs[id].preimage_hash.of \in Preimages
        /\ \A p : digest_of(htlcs[id].preimage_hash.algo, p) = htlcs[id].preimage_hash
                   <=> p = htlcs[id].preimage_hash.of
    BY <2>2 DEF Digests, digest_of
  <2>4. /\ require_hardfork(HIVE_HARDFORK_HTLC)
        /\ {htlcs[id].from, htlcs[id].to} \subseteq DOMAIN balances
        /\ htlcs[id].preimage_size \in 1..MAX_HTLC_PREIMAGE_LEN
    BY DEF HtlcInv
  <2>5. \A p \in Preimages : RedeemAccepts(htlcs[id].to, id, p)
          <=> /\ head_time < htlcs[id].expiration
              /\ p = htlcs[id].preimage_hash.of
              /\ p.len = htlcs[id].preimage_size
    BY <2>3, <2>4 DEF RedeemAccepts
  <2>6. RefundAccepts(htlcs[id].from, id) <=> ~(head_time < htlcs[id].expiration)
    BY <2>1, <2>2, <2>4 DEF RefundAccepts
  <2>7. /\ CanAdjust(htlcs[id].to, htlcs[id].amount.amount, htlcs[id].amount.symbol)
        /\ CanAdjust(htlcs[id].from, htlcs[id].amount.amount, htlcs[id].amount.symbol)
    BY <2>2, <2>4 DEF CanAdjust, account_exists
  <2> QED
    BY <2>3, <2>5, <2>6, <2>7, Zenon DEF KeyFits
<1> QED
  BY <1>1, InvariantHolds, PTL

----------------------------------------------------------------------------
\* Terms, identity and the outcome of an HTLC never change once set.
THEOREM SettlementIsFinal == Spec => SettledForGood
<1> DEFINE Final == \A id \in DOMAIN htlcs :
                      /\ id \in DOMAIN htlcs'
                      /\ Terms(htlcs'[id]) = Terms(htlcs[id])
                      /\ ~IsOpen(id) => htlcs'[id] = htlcs[id]
<1>1. ASSUME HtlcInv, [Next]_vars
      PROVE  [Final]_vars
  <2>0. TypeOK
    BY <1>1 DEF HtlcInv
  <2>1. CASE UNCHANGED htlcs
    BY <2>1
  <2>2. ASSUME NEW op \in HtlcCreateOps, HtlcCreate(op)
        PROVE  Final
    <3>1. CASE UNCHANGED htlcVars
      BY <2>1, <3>1 DEF htlcVars
    <3>2. CASE /\ htlcs' \in [1..next_htlc_id -> HtlcObjects]
               /\ \A id \in DOMAIN htlcs : htlcs'[id] = htlcs[id]
      BY <2>0, <3>2 DEF TypeOK
    <3> QED
      BY <2>0, <2>2, <3>1, <3>2, CreateEffect, Zenon
  <2>3. ASSUME NEW id \in DOMAIN htlcs, IsOpen(id), NEW status \in HtlcStatus,
               htlcs' = [htlcs EXCEPT ![id].status = status]
        PROVE  Final
    <3>1. /\ DOMAIN htlcs' = DOMAIN htlcs
          /\ htlcs'[id] = [htlcs[id] EXCEPT !.status = status]
          /\ \A x \in DOMAIN htlcs : x # id => htlcs'[x] = htlcs[x]
      BY <2>0, <2>3, SettleTables
    <3>2. htlcs[id] \in HtlcObjects
      BY <2>0 DEF TypeOK
    <3>3. Terms(htlcs'[id]) = Terms(htlcs[id])
      BY <3>1, <3>2, Zenon DEF Terms, HtlcObjects
    <3> QED
      BY <2>3, <3>1, <3>3
  <2>4. ASSUME NEW to \in Accounts, NEW id \in DOMAIN htlcs, NEW p \in Preimages,
               HtlcRedeem(to, id, p)
        PROVE  Final
    BY <2>0, <2>3, <2>4, RedeemEffect, Zenon DEF HtlcStatus, HtlcRedeem, RedeemAccepts
  <2>5. ASSUME NEW from \in Accounts, NEW id \in DOMAIN htlcs, HtlcRefund(from, id)
        PROVE  Final
    BY <2>0, <2>3, <2>5, RefundEffect, Zenon DEF HtlcStatus, HtlcRefund, RefundAccepts
  <2> QED
    BY <1>1, <2>1, <2>2, <2>4, <2>5, Zenon DEF Next, HtlcNext, htlcVars
<1>2. HtlcInv /\ [Next]_vars => [Final]_vars
  BY <1>1
<1> HIDE DEF Final
<1>3. Spec => [][Final]_vars
  BY <1>2, InvariantHolds, PTL DEF Spec
<1> QED
  BY <1>3 DEF SettledForGood, Final

----------------------------------------------------------------------------
\* The HTLCs an account has open form a finite set.
LEMMA OpenFinite ==
  ASSUME TypeOK, NEW a
  PROVE  IsFiniteSet(OpenFrom(a)) /\ open_htlc_count(a) \in Nat
<1>1. next_htlc_id - 1 \in Int /\ OpenFrom(a) \in SUBSET (1..(next_htlc_id - 1))
  BY DEF TypeOK, OpenFrom
<1>2. IsFiniteSet(OpenFrom(a))
  BY <1>1, FS_Interval, FS_Subset
<1> QED
  BY <1>2, FS_CardinalityType DEF open_htlc_count

\* An account whose open HTLCs are among those it had keeps its cap.
LEMMA FewerOpen ==
  ASSUME TypeOK, NEW a, OpenFrom(a)' \subseteq OpenFrom(a)
  PROVE  open_htlc_count(a)' <= open_htlc_count(a) /\ open_htlc_count(a)' \in Nat
<1>1. IsFiniteSet(OpenFrom(a)) /\ OpenFrom(a)' \in SUBSET OpenFrom(a)
  BY OpenFinite
<1>2. IsFiniteSet(OpenFrom(a)') /\ Cardinality(OpenFrom(a)') <= Cardinality(OpenFrom(a))
  BY <1>1, FS_Subset
<1>3. Cardinality(OpenFrom(a)') \in Nat
  BY <1>2, FS_CardinalityType
<1> QED
  BY <1>2, <1>3 DEF open_htlc_count

\* No sequence of creates and settlements gets a sender past the cap.
THEOREM OpenCapHolds == Spec => []OpenCapKept
<1>1. Init => OpenCapKept
  <2> SUFFICES ASSUME Init, NEW a \in Accounts
               PROVE  open_htlc_count(a) <= HTLC_MAX_OPEN_PER_ACCOUNT
    BY DEF OpenCapKept
  <2>1. OpenFrom(a) = {}
    BY DEF Init, HtlcInit, OpenFrom
  <2> QED
    BY <2>1, FS_EmptySet, HtlcAssumption DEF open_htlc_count
<1>2. ASSUME HtlcInv, OpenCapKept, [Next]_vars
      PROVE  OpenCapKept'
  <2> SUFFICES ASSUME NEW a \in Accounts
               PROVE  open_htlc_count(a)' <= HTLC_MAX_OPEN_PER_ACCOUNT
    BY DEF OpenCapKept
  <2> USE HtlcAssumption
  <2>0. TypeOK
    BY <1>2 DEF HtlcInv
  <2>a. open_htlc_count(a) <= HTLC_MAX_OPEN_PER_ACCOUNT /\ open_htlc_count(a) \in Nat
    BY <1>2, <2>0, OpenFinite, Zenon DEF OpenCapKept
  <2>1. CASE OpenFrom(a)' \subseteq OpenFrom(a)
    BY <2>0, <2>a, <2>1, FewerOpen
  <2>2. CASE UNCHANGED htlcs
    BY <2>1, <2>2, Zenon DEF OpenFrom, IsOpen
  <2>3. ASSUME NEW op \in HtlcCreateOps, HtlcCreate(op)
        PROVE  open_htlc_count(a)' <= HTLC_MAX_OPEN_PER_ACCOUNT
    <3>1. CASE UNCHANGED htlcVars
      BY <2>2, <3>1 DEF htlcVars
    <3>2. CASE /\ next_htlc_id' = next_htlc_id + 1
               /\ htlcs' \in [1..next_htlc_id -> HtlcObjects]
               /\ \A id \in DOMAIN htlcs : htlcs'[id] = htlcs[id]
               /\ htlcs'[next_htlc_id].from = op.from
      <4>1. DOMAIN htlcs' = DOMAIN htlcs \cup {next_htlc_id}
        BY <2>0, <3>2 DEF TypeOK
      <4>2. CASE a # op.from
        <5>1. OpenFrom(a)' \subseteq OpenFrom(a)
          BY <3>2, <4>1, <4>2, Zenon DEF OpenFrom, IsOpen
        <5> QED
          BY <2>1, <5>1, Zenon
      <4>3. CASE a = op.from
        <5>1. open_htlc_count(a) < HTLC_MAX_OPEN_PER_ACCOUNT
          BY <2>3, <4>3, Zenon DEF HtlcCreate, CreateAccepts
        <5> DEFINE S == OpenFrom(a) \cup {next_htlc_id}
        <5>2. OpenFrom(a)' \subseteq S
          BY <3>2, <4>1 DEF OpenFrom, IsOpen
        <5>3. IsFiniteSet(S) /\ Cardinality(S) <= open_htlc_count(a) + 1
          <6>1. IsFiniteSet(OpenFrom(a))
            BY <2>0, OpenFinite
          <6>2. /\ IsFiniteSet(S)
                /\ Cardinality(S) = IF next_htlc_id \in OpenFrom(a)
                                    THEN Cardinality(OpenFrom(a))
                                    ELSE Cardinality(OpenFrom(a)) + 1
            BY <6>1, FS_AddElement, Zenon
          <6> QED
            BY <2>a, <6>2 DEF open_htlc_count
        <5>4. /\ Cardinality(OpenFrom(a)') <= Cardinality(S)
              /\ Cardinality(S) \in Nat /\ Cardinality(OpenFrom(a)') \in Nat
          BY <5>2, <5>3, FS_Subset, FS_CardinalityType, Zenon
        <5> QED
          BY <2>a, <5>1, <5>3, <5>4, SMTT(20) DEF open_htlc_count
      <4> QED
        BY <4>2, <4>3
    <3> QED
      BY <2>0, <2>3, <3>1, <3>2, CreateEffect, Zenon
  <2>4. ASSUME NEW id \in DOMAIN htlcs, NEW status \in HtlcStatus, status # "open",
               htlcs' = [htlcs EXCEPT ![id].status = status]
        PROVE  open_htlc_count(a)' <= HTLC_MAX_OPEN_PER_ACCOUNT
    <3>1. /\ DOMAIN htlcs' = DOMAIN htlcs
          /\ htlcs'[id].status = status
          /\ \A x \in DOMAIN htlcs : x # id => htlcs'[x] = htlcs[x]
      <4>1. htlcs[id] \in HtlcObjects
        BY <2>0 DEF TypeOK
      <4> QED
        BY <2>0, <2>4, <4>1, SettleTables, Zenon DEF HtlcObjects
    <3>2. OpenFrom(a)' \subseteq OpenFrom(a)
      BY <2>4, <3>1 DEF OpenFrom, IsOpen
    <3> QED
      BY <2>1, <3>2
  <2>5. ASSUME NEW to \in Accounts, NEW id \in DOMAIN htlcs, NEW p \in Preimages,
               HtlcRedeem(to, id, p)
        PROVE  open_htlc_count(a)' <= HTLC_MAX_OPEN_PER_ACCOUNT
    BY <2>4, <2>5, Zenon DEF HtlcStatus, HtlcRedeem
  <2>6. ASSUME NEW from \in Accounts, NEW id \in DOMAIN htlcs, HtlcRefund(from, id)
        PROVE  open_htlc_count(a)' <= HTLC_MAX_OPEN_PER_ACCOUNT
    BY <2>4, <2>6, Zenon DEF HtlcStatus, HtlcRefund
  <2> QED
    BY <1>2, <2>2, <2>3, <2>5, <2>6, Zenon DEF Next, HtlcNext, htlcVars, vars
<1> QED
  BY <1>1, <1>2, InvariantHolds, PTL DEF Spec

----------------------------------------------------------------------------
\* A function whose total is a natural number.
Summable(f) == IsFiniteSet(DOMAIN f) /\ \A x \in DOMAIN f : f[x] \in Nat

\* The units of a summable function can be counted.
LEMMA TotalType ==
  ASSUME NEW f, Summable(f)
  PROVE  IsFiniteSet(Units(f)) /\ Total(f) \in Nat
<1> DEFINE S == {{x} \X (1..f[x]) : x \in DOMAIN f}
           g == [x \in DOMAIN f |-> {x} \X (1..f[x])]
<1>1. IsFiniteSet(S)
  <2>1. g \in Surjection(DOMAIN f, S)
    BY Zenon DEF Surjection
  <2> QED
    BY <2>1, FS_Surjection DEF Summable
<1>2. ASSUME NEW x \in DOMAIN f
      PROVE  IsFiniteSet({x} \X (1..f[x]))
  <2>1. IsFiniteSet(1..f[x])
    BY FS_Interval DEF Summable
  <2> QED
    BY <2>1, FS_Singleton, FS_Product, Zenon
<1>3. IsFiniteSet(UNION S)
  BY <1>1, <1>2, FS_UNION, Zenon
<1> QED
  BY <1>3, FS_CardinalityType, Zenon DEF Units, Total

\* One argument taken out of a sum.
LEMMA TotalDrop ==
  ASSUME NEW f, Summable(f), NEW x \in DOMAIN f,
         NEW g, g = [y \in DOMAIN f \ {x} |-> f[y]]
  PROVE  Summable(g) /\ Total(g) = Total(f) - f[x]
<1> DEFINE U == {x} \X (1..f[x])
<1>1. Summable(g)
  BY FS_RemoveElement DEF Summable
<1>2. Units(f) = Units(g) \cup U
  <2>1. Units(f) \subseteq Units(g) \cup U
    BY DEF Units
  <2>2. Units(g) \subseteq Units(f)
    BY DEF Units
  <2>3. U \subseteq Units(f)
    BY DEF Units
  <2> QED
    BY <2>1, <2>2, <2>3
<1>3. Units(g) \cap U = {}
  BY DEF Units
<1>4. IsFiniteSet(U) /\ Cardinality(U) = f[x]
  <2>1. f[x] \in Nat
    BY DEF Summable
  <2>2. IsFiniteSet(1..f[x]) /\ Cardinality(1..f[x]) = f[x]
    BY <2>1, FS_Interval
  <2>3. IsFiniteSet({x}) /\ Cardinality({x}) = 1
    BY FS_Singleton
  <2>4. IsFiniteSet(U) /\ Cardinality(U) = Cardinality({x}) * Cardinality(1..f[x])
    BY <2>2, <2>3, FS_Product, Zenon
  <2> QED
    BY <2>1, <2>2, <2>3, <2>4
<1>5. IsFiniteSet(Units(g)) /\ Total(g) \in Nat /\ f[x] \in Nat
  BY <1>1, TotalType DEF Summable
<1>6. Cardinality(Units(g) \cup U) = Cardinality(Units(g)) + Cardinality(U) - Cardinality(Units(g) \cap U)
  BY <1>4, <1>5, FS_Union, Zenon
<1>7. Cardinality(Units(g) \cap U) = 0
  BY <1>3, FS_EmptySet, Zenon
<1>8. Total(f) = Total(g) + f[x]
  BY <1>2, <1>4, <1>5, <1>6, <1>7 DEF Total
<1> QED
  BY <1>1, <1>5, <1>8

\* One argument added.
LEMMA TotalAdd ==
  ASSUME NEW f, Summable(f), NEW g, NEW x \in DOMAIN g, g[x] \in Nat,
         f = [y \in DOMAIN g \ {x} |-> g[y]]
  PROVE  Summable(g) /\ Total(g) = Total(f) + g[x]
<1>1. DOMAIN g = DOMAIN f \cup {x} /\ \A y \in DOMAIN f : g[y] = f[y]
  OBVIOUS
<1>2. Summable(g)
  <2>1. IsFiniteSet(DOMAIN f \cup {x})
    BY FS_AddElement DEF Summable
  <2>2. \A y \in DOMAIN g : g[y] \in Nat
    BY <1>1 DEF Summable
  <2> QED
    BY <1>1, <2>1, <2>2, Zenon DEF Summable
<1>3. Total(f) = Total(g) - g[x] /\ Total(g) \in Nat
  BY <1>2, TotalDrop, TotalType, Zenon
<1> QED
  BY <1>2, <1>3

\* One argument changed.
LEMMA TotalSet ==
  ASSUME NEW f, Summable(f), NEW x \in DOMAIN f, NEW n \in Nat,
         NEW g, g = [y \in DOMAIN f |-> IF y = x THEN n ELSE f[y]]
  PROVE  Summable(g) /\ Total(g) = Total(f) + n - f[x]
<1> DEFINE h == [y \in DOMAIN f \ {x} |-> f[y]]
<1>1. Summable(h) /\ Total(h) = Total(f) - f[x] /\ x \notin DOMAIN h
  BY TotalDrop
<1>2. h = [y \in DOMAIN g \ {x} |-> g[y]] /\ x \in DOMAIN g /\ g[x] = n
  OBVIOUS
<1> HIDE DEF h
<1>3. Summable(g) /\ Total(g) = Total(h) + n
  BY <1>1, <1>2, TotalAdd
<1>4. Total(f) \in Nat /\ f[x] \in Nat
  BY TotalType DEF Summable
<1> QED
  BY <1>1, <1>3, <1>4

\* Only finitely many accounts exist at a time: create_account makes one.
LEMMA FiniteAccounts == Spec => []IsFiniteSet(DOMAIN balances)
<1>1. Init => IsFiniteSet(DOMAIN balances)
  BY FS_EmptySet, SMTT(20) DEF Init, DbInit
<1>2. ASSUME IsFiniteSet(DOMAIN balances), [Next]_vars
      PROVE  IsFiniteSet(DOMAIN balances')
  <2>1. CASE DOMAIN balances' = DOMAIN balances
    BY <1>2, <2>1
  <2>2. ASSUME NEW a, NEW e, CreateAccount(a, e)
        PROVE  IsFiniteSet(DOMAIN balances')
    <3>1. DOMAIN balances' = DOMAIN balances \cup {a}
      BY <2>2 DEF CreateAccount
    <3> QED
      BY <1>2, <3>1, FS_AddElement, Zenon
  <2> QED
    BY <1>2, <2>1, <2>2, Zenon DEF Next, vars, dbVars, DbNext, ClearVirtual, ApplyProfile, AdvanceTime,
         HtlcNext, HtlcCreate, HtlcRedeem, HtlcRefund, adjust_balance
<1>3. IsFiniteSet(DOMAIN balances) /\ [Next]_vars => IsFiniteSet(DOMAIN balances)'
  BY <1>2, Zenon
<1> QED
  BY <1>1, <1>3, PTL DEF Spec

\* What the accounts hold and what is locked can be totalled.
LEMMA FundsSummable ==
  ASSUME TypeOK, IsFiniteSet(DOMAIN balances), NEW s \in Symbols
  PROVE  Summable(Held(s)) /\ Summable(Locked(s))
<1>1. Summable(Held(s))
  BY DEF Summable, Held, TypeOK, DbTypeOK
<1>2. \A id \in DOMAIN htlcs : htlcs[id].amount.amount \in Nat
  BY DEF TypeOK, HtlcObjects
<1>3. DOMAIN Locked(s) \in SUBSET (1..(next_htlc_id - 1)) /\ next_htlc_id - 1 \in Int
  BY DEF TypeOK, Locked
<1>4. IsFiniteSet(DOMAIN Locked(s))
  BY <1>3, FS_Interval, FS_Subset
<1> QED
  BY <1>1, <1>2, <1>4, Zenon DEF Summable, Locked

\* An adjustment of a balance moves the total of its symbol, and no other.
LEMMA AdjustTotal ==
  ASSUME TypeOK, IsFiniteSet(DOMAIN balances), NEW name, NEW delta \in Int, NEW sym \in Symbols,
         CanAdjust(name, delta, sym), adjust_balance(name, delta, sym), NEW s \in Symbols
  PROVE  Total(Held(s)') = Total(Held(s)) + (IF s = sym THEN delta ELSE 0)
<1>1. balances \in [DOMAIN balances -> [Symbols -> Nat]] /\ name \in DOMAIN balances
  BY DEF TypeOK, DbTypeOK, CanAdjust, account_exists
<1>2. PICK n : n = balances[name][sym] + delta
  OBVIOUS
<1>3. n \in Nat
  BY <1>1, <1>2 DEF CanAdjust
<1>4. PICK f : f = Held(s)
  OBVIOUS
<1>5. Summable(f) /\ DOMAIN f = DOMAIN balances /\ Total(f) \in Nat
  BY <1>4, FundsSummable, TotalType, Zenon DEF Held
<1>6. PICK g : g = Held(s)'
  BY Zenon
<1>7. CASE s = sym
  <2>1. g = [y \in DOMAIN f |-> IF y = name THEN n ELSE f[y]]
    BY <1>1, <1>2, <1>4, <1>5, <1>6, <1>7, Zenon DEF adjust_balance, Held
  <2>2. f[name] = balances[name][sym] /\ f[name] \in Nat
    BY <1>1, <1>4, <1>7, Zenon DEF Held
  <2>3. Total(g) = Total(f) + n - f[name]
    BY <1>1, <1>3, <1>5, <2>1, TotalSet, Zenon
  <2> QED
    BY <1>2, <1>4, <1>5, <1>6, <1>7, <2>2, <2>3
<1>8. CASE s # sym
  <2>1. g = f
    BY <1>1, <1>4, <1>6, <1>8, Zenon DEF adjust_balance, Held
  <2> QED
    BY <1>4, <1>5, <1>6, <1>8, <2>1
<1> QED
  BY <1>7, <1>8, Zenon

\* Settling a lock takes its amount out of what is locked.
LEMMA SettleTotal ==
  ASSUME TypeOK, IsFiniteSet(DOMAIN balances), NEW id \in DOMAIN htlcs, IsOpen(id),
         NEW status \in HtlcStatus \ {"open"}, htlcs' = [htlcs EXCEPT ![id].status = status],
         NEW s \in Symbols
  PROVE  Total(Locked(s)')
           = Total(Locked(s)) - (IF s = htlcs[id].amount.symbol THEN htlcs[id].amount.amount ELSE 0)
<1>1. htlcs[id] \in HtlcObjects
  BY DEF TypeOK
<1>2. /\ DOMAIN htlcs' = DOMAIN htlcs
      /\ htlcs'[id].status = status /\ htlcs'[id].amount = htlcs[id].amount
      /\ \A x \in DOMAIN htlcs : x # id => htlcs'[x] = htlcs[x]
  BY <1>1, SettleTables DEF HtlcObjects
<1>3. PICK f : f = Locked(s)
  OBVIOUS
<1>4. PICK g : g = Locked(s)'
  OBVIOUS
<1>5. Summable(f) /\ Total(f) \in Nat
  BY <1>3, FundsSummable, TotalType
<1>6. DOMAIN g = DOMAIN f \ {id} /\ g = [x \in DOMAIN f \ {id} |-> f[x]]
  <2>1. DOMAIN g = DOMAIN f \ {id}
    BY <1>2, <1>3, <1>4, Zenon DEF Locked, IsOpen
  <2>2. \A x \in DOMAIN g : g[x] = f[x]
    BY <1>2, <1>3, <1>4, <2>1, Zenon DEF Locked
  <2>3. g = [x \in DOMAIN g |-> g[x]]
    BY <1>4 DEF Locked
  <2> QED
    BY <2>1, <2>2, <2>3, Zenon
<1>7. CASE s = htlcs[id].amount.symbol
  <2>1. id \in DOMAIN f /\ f[id] = htlcs[id].amount.amount
    BY <1>3, <1>7 DEF Locked
  <2>2. Total(g) = Total(f) - f[id]
    BY <1>5, <1>6, <2>1, TotalDrop, Zenon
  <2> QED
    BY <1>3, <1>4, <1>7, <2>1, <2>2, Zenon
<1>8. CASE s # htlcs[id].amount.symbol
  <2>1. id \notin DOMAIN f /\ f = [x \in DOMAIN f |-> f[x]]
    BY <1>3, <1>8 DEF Locked
  <2>2. g = f
    <3>1. DOMAIN f \ {id} = DOMAIN f
      BY <2>1, Zenon
    <3> QED
      BY <1>6, <2>1, <3>1
  <2> QED
    BY <1>3, <1>4, <1>5, <1>8, <2>2
<1> QED
  BY <1>7, <1>8

\* Every step keeps balances and locks together at what was issued.
LEMMA NextFunds ==
  ASSUME HtlcInv, IsFiniteSet(DOMAIN balances), FundsConserved, [Next]_vars, NEW s \in Symbols
  PROVE  Total(Held(s)') + Total(Locked(s)') = issued'[s]
<1> USE HtlcAssumption
<1>0. TypeOK /\ DbTypeOK
  BY DEF HtlcInv, TypeOK
<1>1. /\ Total(Held(s)) + Total(Locked(s)) = issued[s]
      /\ Summable(Held(s)) /\ Summable(Locked(s))
      /\ Total(Held(s)) \in Nat /\ Total(Locked(s)) \in Nat
  BY <1>0, FundsSummable, TotalType, Zenon DEF FundsConserved
<1>2. CASE UNCHANGED <<balances, htlcs, issued>>
  BY <1>1, <1>2, Zenon DEF Held, Locked, IsOpen
<1>3. ASSUME NEW a \in Accounts, NEW e \in Endowments, CreateAccount(a, e), UNCHANGED htlcVars
      PROVE  Total(Held(s)') + Total(Locked(s)') = issued'[s]
  <2>1. e \in [Symbols -> Nat] /\ e[s] \in Nat
    BY DatabaseAssumption
  <2>2. PICK f : f = Held(s)
    OBVIOUS
  <2>3. PICK g : g = Held(s)'
    BY Zenon
  <2>4. Summable(f) /\ DOMAIN f = DOMAIN balances /\ Total(f) \in Nat
    BY <1>1, <2>2, Zenon DEF Held
  <2>5. g = [y \in DOMAIN f \cup {a} |-> IF y = a THEN e[s] ELSE f[y]]
    BY <1>3, <2>2, <2>3, <2>4, Zenon DEF CreateAccount, Held
  <2>6. Total(Locked(s)') = Total(Locked(s))
    BY <1>3 DEF htlcVars, Locked, IsOpen
  <2>7. CASE a \in DOMAIN balances
    <3>1. f[a] = balances[a][s] /\ f[a] \in Nat
      BY <1>0, <2>2, <2>7, Zenon DEF Held, DbTypeOK
    <3>a. DOMAIN f \cup {a} = DOMAIN f
      BY <2>4, <2>7, Zenon
    <3>2. Total(g) = Total(f) + e[s] - f[a]
      BY <2>1, <2>4, <2>5, <2>7, <3>a, TotalSet, Zenon
    <3>3. issued'[s] = issued[s] + e[s] - balances[a][s]
      BY <1>3, <2>7, Zenon DEF CreateAccount, account_exists
    <3>4. Total(Held(s)') = Total(Held(s)) + e[s] - balances[a][s]
      BY <2>2, <2>3, <3>1, <3>2, Zenon
    <3>5. PICK h, l, i, c, x : /\ h = Total(Held(s)) /\ l = Total(Locked(s)) /\ i = issued[s]
                               /\ c = balances[a][s] /\ x = e[s]
      BY Zenon
    <3>6. /\ h \in Nat /\ l \in Nat /\ c \in Nat /\ x \in Nat /\ h + l = i
          /\ Total(Held(s)') = h + x - c /\ Total(Locked(s)') = l /\ issued'[s] = i + x - c
      BY <1>1, <2>1, <2>6, <3>1, <3>3, <3>4, <3>5, ZenonT(30)
    <3>7. (h + x - c) + l = i + x - c
      BY <3>6
    <3> QED
      BY <3>6, <3>7, Zenon
  <2>8. CASE a \notin DOMAIN balances
    <3>0. /\ f = [y \in DOMAIN g \ {a} |-> g[y]]
          /\ a \in DOMAIN g /\ g[a] = e[s]
      <4>1. f = [y \in DOMAIN f |-> f[y]]
        BY <2>2 DEF Held
      <4> QED
        BY <2>4, <2>5, <2>8, <4>1, ZenonT(40)
    <3>1. Total(g) = Total(f) + e[s]
      BY <2>1, <2>4, <3>0, TotalAdd
    <3>2. issued'[s] = issued[s] + e[s] - 0
      BY <1>3, <2>8 DEF CreateAccount, account_exists
    <3> QED
      BY <1>1, <2>1, <2>2, <2>3, <2>6, <3>1, <3>2
  <2> QED
    BY <2>7, <2>8, Zenon
<1>4. ASSUME NEW op \in HtlcCreateOps, HtlcCreate(op)
      PROVE  Total(Held(s)') + Total(Locked(s)') = issued'[s]
  <2>1. op.amount.amount \in Nat \ {0} /\ op.amount.symbol \in Symbols
    <3>1. op.amount \in [amount: Int, symbol: Symbols]
      BY CreateOpType
    <3>2. op.amount.amount > 0
      BY <1>4, Zenon DEF HtlcCreate, CreateAccepts, htlc_create_validate
    <3> QED
      BY <3>1, <3>2
  <2>2. PICK amt, sym : amt = op.amount.amount /\ sym = op.amount.symbol
    BY Zenon
  <2>3. CASE CanAdjust(op.from, -amt, sym)
    <3>1. /\ adjust_balance(op.from, -amt, sym) /\ UNCHANGED issued
          /\ -amt \in Int
      <4>1. /\ adjust_balance(op.from, -op.amount.amount, op.amount.symbol)
            /\ UNCHANGED issued
        BY <1>4, <2>2, <2>3, Zenon DEF HtlcCreate
      <4>2. -amt \in Int
        BY <2>1, <2>2
      <4> QED
        BY <2>2, <4>1, <4>2, Zenon
    <3>2. Total(Held(s)') = Total(Held(s)) + (IF s = sym THEN -amt ELSE 0)
      <4>1. sym \in Symbols
        BY <2>1, <2>2
      <4>2. PICK d : d = -amt
        BY Zenon
      <4>3. d \in Int /\ CanAdjust(op.from, d, sym) /\ adjust_balance(op.from, d, sym)
        BY <2>3, <3>1, <4>2, Zenon
      <4>4. Total(Held(s)') = Total(Held(s)) + (IF s = sym THEN d ELSE 0)
        BY <1>0, <4>1, <4>3, AdjustTotal
      <4> QED
        BY <4>2, <4>4, Zenon
    <3>3. PICK new : new = next_htlc_id
      BY Zenon
    <3>4. /\ DOMAIN htlcs' = DOMAIN htlcs \cup {new} /\ new \notin DOMAIN htlcs
          /\ \A id \in DOMAIN htlcs : htlcs'[id] = htlcs[id]
          /\ htlcs'[new].amount.amount = amt /\ htlcs'[new].amount.symbol = sym
          /\ htlcs'[new].status = "open"
      <4>1. PICK h : h = [from |-> op.from, to |-> op.to, amount |-> op.amount,
                          preimage_hash |-> op.preimage_hash, preimage_size |-> op.preimage_size,
                          expiration |-> op.expiration, created |-> head_time, status |-> "open"]
        BY Zenon
      <4>2. htlcs' = [id \in DOMAIN htlcs \cup {new} |-> IF id = new THEN h ELSE htlcs[id]]
        BY <1>4, <2>2, <2>3, <3>3, <4>1, Zenon DEF HtlcCreate
      <4>3. new \notin DOMAIN htlcs
        BY <1>0, <3>3 DEF TypeOK
      <4>4. h.amount.amount = amt /\ h.amount.symbol = sym /\ h.status = "open"
        BY <2>2, <4>1
      <4>5. htlcs'[new] = h
        BY <4>2, Zenon
      <4>6. \A id \in DOMAIN htlcs : htlcs'[id] = htlcs[id]
        BY <4>2, <4>3
      <4>7. DOMAIN htlcs' = DOMAIN htlcs \cup {new}
        BY <4>2, Zenon
      <4> QED
        BY <4>3, <4>4, <4>5, <4>6, <4>7, Zenon
    <3>5. PICK f : f = Locked(s)
      OBVIOUS
    <3>6. PICK g : g = Locked(s)'
      BY Zenon
    <3>7. f = [x \in DOMAIN f |-> f[x]] /\ g = [x \in DOMAIN g |-> g[x]] /\ new \notin DOMAIN f
      BY <3>4, <3>5, <3>6, Zenon DEF Locked
    <3>8. CASE s = sym
      <4>1. DOMAIN g = DOMAIN f \cup {new}
        BY <3>4, <3>5, <3>6, <3>8, Zenon DEF Locked, IsOpen
      <4>2. \A x \in DOMAIN g : g[x] = IF x = new THEN amt ELSE f[x]
        BY <3>4, <3>5, <3>6, <4>1, Zenon DEF Locked
      <4>3. f = [x \in DOMAIN g \ {new} |-> g[x]] /\ new \in DOMAIN g /\ g[new] = amt
        <5>1. DOMAIN g \ {new} = DOMAIN f
          BY <3>7, <4>1, Zenon
        <5>2. \A x \in DOMAIN f : g[x] = f[x]
          BY <3>7, <4>1, <4>2, Zenon
        <5> QED
          BY <3>7, <4>1, <4>2, <5>1, <5>2, Zenon
      <4>4. Summable(f) /\ amt \in Nat
        BY <1>1, <2>1, <2>2, <3>5, Zenon
      <4>5. Total(g) = Total(f) + amt
        BY <4>3, <4>4, TotalAdd, Zenon
      <4> QED
        BY <1>1, <2>1, <2>2, <3>1, <3>2, <3>5, <3>6, <3>8, <4>5, SMTT(20)
    <3>9. CASE s # sym
      <4>1. DOMAIN g = DOMAIN f
        BY <3>4, <3>5, <3>6, <3>9, Zenon DEF Locked, IsOpen
      <4>2. \A x \in DOMAIN g : g[x] = f[x]
        BY <3>4, <3>5, <3>6, <4>1, Zenon DEF Locked
      <4>3. g = f
        BY <3>7, <4>1, <4>2, Zenon
      <4> QED
        BY <1>1, <3>1, <3>2, <3>5, <3>6, <3>9, <4>3, SMTT(20)
    <3> QED
      BY <3>8, <3>9
  <2>4. CASE ~CanAdjust(op.from, -amt, sym)
    BY <1>2, <1>4, <2>2, <2>4, Zenon DEF HtlcCreate, htlcVars
  <2> QED
    BY <2>3, <2>4
<1>5. ASSUME NEW id \in DOMAIN htlcs, IsOpen(id), NEW status \in HtlcStatus \ {"open"}, NEW payee,
             CanAdjust(payee, htlcs[id].amount.amount, htlcs[id].amount.symbol),
             adjust_balance(payee, htlcs[id].amount.amount, htlcs[id].amount.symbol),
             htlcs' = [htlcs EXCEPT ![id].status = status], UNCHANGED issued
      PROVE  Total(Held(s)') + Total(Locked(s)') = issued'[s]
  <2>1. htlcs[id].amount.amount \in Nat /\ htlcs[id].amount.symbol \in Symbols
    BY <1>0, Zenon DEF TypeOK, HtlcObjects
  <2>2. PICK amt, sym : amt = htlcs[id].amount.amount /\ sym = htlcs[id].amount.symbol
    BY Zenon
  <2>a. /\ CanAdjust(payee, amt, sym) /\ adjust_balance(payee, amt, sym)
        /\ amt \in Int /\ sym \in Symbols
    BY <1>5, <2>1, <2>2
  <2>3. Total(Held(s)') = Total(Held(s)) + (IF s = sym THEN amt ELSE 0)
    BY <1>0, <2>a, AdjustTotal
  <2>4. Total(Locked(s)') = Total(Locked(s)) - (IF s = sym THEN amt ELSE 0)
    BY <1>0, <1>5, <2>2, SettleTotal, Zenon
  <2> QED
    BY <1>1, <1>5, <2>1, <2>2, <2>3, <2>4
<1>6. ASSUME NEW to \in Accounts, NEW id \in DOMAIN htlcs, NEW p \in Preimages,
             HtlcRedeem(to, id, p)
      PROVE  Total(Held(s)') + Total(Locked(s)') = issued'[s]
  BY <1>5, <1>6, Zenon DEF HtlcRedeem, RedeemAccepts, HtlcStatus
<1>7. ASSUME NEW from \in Accounts, NEW id \in DOMAIN htlcs, HtlcRefund(from, id)
      PROVE  Total(Held(s)') + Total(Locked(s)') = issued'[s]
  BY <1>5, <1>7, Zenon DEF HtlcRefund, RefundAccepts, HtlcStatus
<1> QED
  BY <1>2, <1>3, <1>4, <1>6, <1>7, Zenon DEF Next, HtlcNext, vars, dbVars, htlcVars, DbNext,
       ClearVirtual, ApplyProfile, AdvanceTime

\* Balances and open locks together always hold what create_account issued:
\* no create, redeem or refund makes or loses a unit, at any number of accounts.
THEOREM FundsAreConserved == Spec => []FundsConserved
<1>1. Init => FundsConserved
  <2> SUFFICES ASSUME Init, NEW s \in Symbols
               PROVE  Total(Held(s)) + Total(Locked(s)) = issued[s]
    BY Zenon DEF FundsConserved
  <2>1. Units(Held(s)) = {} /\ Units(Locked(s)) = {}
    BY DEF Init, DbInit, HtlcInit, Units, Held, Locked
  <2> QED
    BY <2>1, FS_EmptySet DEF Init, DbInit, Total
<1>2. HtlcInv /\ IsFiniteSet(DOMAIN balances) /\ FundsConserved /\ [Next]_vars => FundsConserved'
  <2> SUFFICES ASSUME HtlcInv, IsFiniteSet(DOMAIN balances), FundsConserved, [Next]_vars,
                      NEW s \in Symbols
               PROVE  Total(Held(s)') + Total(Locked(s)') = issued'[s]
    BY DEF FundsConserved
  <2> QED
    BY NextFunds, Zenon
<1> QED
  BY <1>1, <1>2, InvariantHolds, FiniteAccounts, PTL DEF Spec

----------------------------------------------------------------------------
\* A settlement as the escrow sees it.
LEMMA SettleRefines ==
  ASSUME TypeOK, NEW id \in DOMAIN htlcs, NEW status \in HtlcStatus, NEW payee,
         IsOpen(id),
         adjust_balance(payee, htlcs[id].amount.amount, htlcs[id].amount.symbol),
         htlcs' = [htlcs EXCEPT ![id].status = status]
  PROVE  E!Settle(id, payee, status) /\ id \in DOMAIN Locks
<1>1. /\ DOMAIN htlcs' = DOMAIN htlcs
      /\ htlcs'[id] = [htlcs[id] EXCEPT !.status = status]
      /\ \A x \in DOMAIN htlcs : x # id => htlcs'[x] = htlcs[x]
      /\ htlcs[id] \in HtlcObjects
  BY SettleTables DEF TypeOK
<1>2. /\ htlcs'[id].from = htlcs[id].from /\ htlcs'[id].to = htlcs[id].to
      /\ htlcs'[id].amount = htlcs[id].amount /\ htlcs'[id].status = status
  BY <1>1 DEF HtlcObjects
<1>3. Locks' = [Locks EXCEPT ![id].status = status]
  <2>1. DOMAIN Locks' = DOMAIN htlcs
    BY <1>1 DEF Locks
  <2>2. \A x \in DOMAIN htlcs : x # id => Locks'[x] = Locks[x]
    BY <1>1 DEF Locks
  <2>3. Locks'[id] = [Locks[id] EXCEPT !.status = status]
    BY <1>1, <1>2 DEF Locks
  <2>4. Locks' = [x \in DOMAIN htlcs |-> Locks'[x]]
    BY <1>1 DEF Locks
  <2> QED
    BY <2>1, <2>2, <2>3, <2>4, Zenon DEF Locks
<1>4. Locks[id].status = "open" /\ Locks[id].asset = htlcs[id].amount
  BY DEF Locks, IsOpen
<1> QED
  BY <1>3, <1>4, Zenon DEF E!Settle, adjust_balance, Locks

\* The evaluators implement the escrow of module Escrow, whatever the clock,
\* the preimages and the node configuration do.
THEOREM ImplementsEscrow == Spec => EscrowSpec
<1>1. Init => E!Init
  BY DEF Init, DbInit, HtlcInit, E!Init, Locks
<1>2. ASSUME HtlcInv, [Next]_vars
      PROVE  [E!Next]_<<balances, Locks>>
  <2>0. TypeOK /\ DbTypeOK
    BY <1>2, Zenon DEF HtlcInv, TypeOK
  <2>1. CASE UNCHANGED <<balances, htlcs>>
    BY <2>1, Zenon DEF Locks
  <2>2. CASE DbNext /\ UNCHANGED htlcVars
    <3>1. UNCHANGED Locks
      BY <2>2, Zenon DEF htlcVars, Locks
    <3>2. ASSUME NEW a \in Accounts, NEW e \in Endowments, CreateAccount(a, e)
          PROVE  E!Next
      BY <3>1, <3>2, Zenon DEF CreateAccount, E!Next, E!Endow
    <3> QED
      BY <2>1, <2>2, <3>2, Zenon DEF DbNext, ClearVirtual, ApplyProfile, AdvanceTime, htlcVars
  <2>3. ASSUME NEW op \in HtlcCreateOps, HtlcCreate(op)
        PROVE  [E!Next]_<<balances, Locks>>
    <3>1. CASE CanAdjust(op.from, -op.amount.amount, op.amount.symbol)
      <4>1. /\ op.from \in Accounts /\ op.to \in Accounts /\ op.amount \in AssetInputs
            /\ op.amount \in [amount: Int, symbol: Symbols]
        BY CreateOpType, Zenon DEF HtlcCreateOps
      <4>2. next_htlc_id \in 1..MaxHtlcs /\ next_htlc_id \notin DOMAIN htlcs
        <5>1. next_htlc_id <= MaxHtlcs
          BY <2>3, Zenon DEF HtlcCreate
        <5>2. next_htlc_id \in Nat \ {0} /\ DOMAIN htlcs = 1..(next_htlc_id - 1)
          BY <2>0 DEF TypeOK
        <5> QED
          BY <5>1, <5>2, HtlcAssumption
      <4>3. /\ op.from \in DOMAIN balances /\ op.to \in DOMAIN balances
            /\ op.amount.amount > 0
        BY <2>3, ZenonT(30) DEF HtlcCreate, CreateAccepts, account_exists, htlc_create_validate
      <4>4. balances[op.from][op.amount.symbol] >= op.amount.amount
        <5>1. balances[op.from][op.amount.symbol] \in Nat
          BY <2>0, <4>1, <4>3, Zenon DEF DbTypeOK
        <5> QED
          BY <3>1, <4>1, <4>3, <5>1 DEF CanAdjust
      <4>5. balances' = [balances EXCEPT ![op.from][op.amount.symbol] = @ - op.amount.amount]
        <5>1. balances' = [balances EXCEPT ![op.from][op.amount.symbol] = @ + (-op.amount.amount)]
          BY <2>3, <3>1 DEF HtlcCreate, adjust_balance
        <5>2. balances[op.from][op.amount.symbol] + (-op.amount.amount)
                = balances[op.from][op.amount.symbol] - op.amount.amount
          BY <2>0, <4>1, <4>3, ZenonT(30) DEF DbTypeOK
        <5> QED
          BY <5>1, <5>2, ZenonT(30)
      <4>6. Locks' = [x \in DOMAIN Locks \cup {next_htlc_id} |->
                        IF x = next_htlc_id
                        THEN [from |-> op.from, to |-> op.to, asset |-> op.amount,
                              status |-> "open"]
                        ELSE Locks[x]]
        <5> DEFINE h0 == [from |-> op.from, to |-> op.to, amount |-> op.amount,
                          preimage_hash |-> op.preimage_hash,
                          preimage_size |-> op.preimage_size,
                          expiration |-> op.expiration, created |-> head_time,
                          status |-> "open"]
        <5>1. htlcs' = [x \in DOMAIN htlcs \cup {next_htlc_id} |->
                          IF x = next_htlc_id THEN h0 ELSE htlcs[x]]
          BY <2>3, <3>1, ZenonT(30) DEF HtlcCreate
        <5>2. h0.from = op.from /\ h0.to = op.to /\ h0.amount = op.amount /\ h0.status = "open"
          BY Zenon
        <5> HIDE DEF h0
        <5> QED
          BY <5>1, <5>2, ZenonT(30) DEF Locks
      <4>7. E!Lock(next_htlc_id, op.from, op.to, op.amount)
        BY <4>2, <4>3, <4>4, <4>5, <4>6, ZenonT(30) DEF E!Lock, Locks
      <4> QED
        BY <4>1, <4>2, <4>7, Zenon DEF E!Next
    <3>2. CASE ~CanAdjust(op.from, -op.amount.amount, op.amount.symbol)
      BY <2>1, <2>3, <3>2, Zenon DEF HtlcCreate, htlcVars
    <3> QED
      BY <3>1, <3>2, Zenon
  <2>4. ASSUME NEW to \in Accounts, NEW id \in DOMAIN htlcs, NEW p \in Preimages,
               HtlcRedeem(to, id, p)
        PROVE  E!Next
    <3>1. IsOpen(id) /\ Locks[id].to = to
      BY <2>4 DEF HtlcRedeem, RedeemAccepts, Locks
    <3>2. E!Settle(id, to, "redeemed") /\ id \in DOMAIN Locks
      BY <2>0, <2>4, <3>1, SettleRefines, ZenonT(30) DEF HtlcRedeem, HtlcStatus
    <3> QED
      BY <3>1, <3>2, Zenon DEF E!Next, E!Pay
  <2>5. ASSUME NEW from \in Accounts, NEW id \in DOMAIN htlcs, HtlcRefund(from, id)
        PROVE  E!Next
    <3>1. IsOpen(id) /\ Locks[id].from = from
      BY <2>5 DEF HtlcRefund, RefundAccepts, Locks
    <3>2. E!Settle(id, from, "refunded") /\ id \in DOMAIN Locks
      BY <2>0, <2>5, <3>1, SettleRefines, Zenon DEF HtlcRefund, HtlcStatus
    <3> QED
      BY <3>1, <3>2, Zenon DEF E!Next, E!Return
  <2> QED
    BY <1>2, <2>1, <2>2, <2>3, <2>4, <2>5, Zenon DEF Next, HtlcNext, vars, dbVars, htlcVars
<1> QED
  BY <1>1, <1>2, InvariantHolds, PTL DEF Spec, EscrowSpec, E!Spec
============================================================================
