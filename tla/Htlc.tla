-------------------------------- MODULE Htlc --------------------------------
(***************************************************************************)
(* Hash-time-locked contracts: the evaluators of htlc_create, htlc_redeem  *)
(* and htlc_refund over the chain database.  Creating an HTLC moves the    *)
(* amount out of the sender's balance into the HTLC object; redeeming pays *)
(* it to the receiver before the expiration, refunding returns it to the   *)
(* sender from the expiration on.                                          *)
(***************************************************************************)
EXTENDS Database, FiniteSets

CONSTANTS AssetInputs,   \* assets an htlc_create may carry (any integer amount)
          Preimages,     \* preimages: records with a length and a tag
          HashAlgos,     \* hash algorithms in use
          SizeInputs,    \* preimage sizes an htlc_create may declare
          MemoLens,      \* memo lengths
          HTLC_MIN_DURATION_SEC, HTLC_MAX_DURATION_SEC,
          HTLC_MAX_OPEN_PER_ACCOUNT,
          MAX_HTLC_PREIMAGE_LEN,
          MaxHtlcs       \* bound: HTLCs created in a behaviour

ASSUME HtlcAssumption ==
  /\ AssetInputs \subseteq [amount: Int, symbol: Symbols]
  /\ Preimages \subseteq [len: Nat, tag: STRING]
  /\ HashAlgos \subseteq {"sha256", "ripemd160"}
  /\ SizeInputs \subseteq Nat
  /\ MemoLens \subseteq Nat
  /\ HTLC_MIN_DURATION_SEC \in Nat
  /\ HTLC_MAX_DURATION_SEC \in Nat
  /\ HTLC_MAX_OPEN_PER_ACCOUNT \in Nat
  /\ MAX_HTLC_PREIMAGE_LEN \in Nat
  /\ MaxHtlcs \in Nat

VARIABLES htlcs,         \* id -> htlc object; closed ones are kept
          next_htlc_id

htlcVars == <<htlcs, next_htlc_id>>
vars     == <<dbVars, htlcVars>>

\* Two preimages with one digest under one algorithm are not modelled.
digest_of(algo, preimage) == [algo |-> algo, of |-> preimage]

Digests == [algo: HashAlgos, of: Preimages]

HtlcStatus == {"open", "redeemed", "refunded"}

HtlcObjects ==
  [from: Accounts, to: Accounts, amount: [amount: Nat \ {0}, symbol: Symbols],
   preimage_hash: Digests, preimage_size: Nat, expiration: Nat, created: Nat,
   status: HtlcStatus]

HtlcVirtualOps ==
  [name: {"htlc_created"}, htlc_id: Nat, from: Accounts, to: Accounts]
    \cup [name: {"htlc_redeemed"}, htlc_id: Nat, to: Accounts]
    \cup [name: {"htlc_refunded"}, htlc_id: Nat, from: Accounts]

HtlcCreateOps ==
  [from: Accounts, to: Accounts, amount: AssetInputs, preimage_hash: Digests,
   preimage_size: SizeInputs, expiration: 0..MaxTime, memo_len: MemoLens]

----------------------------------------------------------------------------
IsOpen(id) == htlcs[id].status = "open"

OpenFrom(account) == {id \in DOMAIN htlcs : IsOpen(id) /\ htlcs[id].from = account}

open_htlc_count(account) == Cardinality(OpenFrom(account))

htlc_create_validate(op, now) ==
  /\ op.memo_len <= MAX_MEMO_LEN
  /\ op.amount.amount > 0
  /\ op.preimage_size # 0 /\ op.preimage_size <= MAX_HTLC_PREIMAGE_LEN
  /\ op.expiration >= now + HTLC_MIN_DURATION_SEC
  /\ op.expiration <= now + HTLC_MAX_DURATION_SEC

----------------------------------------------------------------------------
\* Mutant: the cap is off by one.
CreateAcceptsPastCap(op) ==
  /\ require_hardfork(HIVE_HARDFORK_HTLC)
  /\ require_full_htlc_state
  /\ htlc_create_validate(op, head_time)
  /\ account_exists(op.from) /\ account_exists(op.to)
  /\ open_htlc_count(op.from) <= HTLC_MAX_OPEN_PER_ACCOUNT

\* Everything apply(htlc_create) checks before it charges RC.
CreateAccepts(op) ==
  /\ require_hardfork(HIVE_HARDFORK_HTLC)
  /\ require_full_htlc_state
  /\ htlc_create_validate(op, head_time)
  /\ account_exists(op.from) /\ account_exists(op.to)
  /\ open_htlc_count(op.from) < HTLC_MAX_OPEN_PER_ACCOUNT

\* The balance is checked by adjust_balance, after RC has been charged: an
\* uncovered create throws and leaves its charge behind.
HtlcCreate(op) ==
  /\ CreateAccepts(op)
  /\ next_htlc_id <= MaxHtlcs
  /\ last_rc_charged' = cost_htlc_create(op.memo_len)
  /\ \/ /\ CanAdjust(op.from, -op.amount.amount, op.amount.symbol)
        /\ adjust_balance(op.from, -op.amount.amount, op.amount.symbol)
        /\ next_htlc_id' = next_htlc_id + 1
        /\ htlcs' = [id \in DOMAIN htlcs \cup {next_htlc_id} |->
                       IF id = next_htlc_id
                       THEN [from |-> op.from, to |-> op.to, amount |-> op.amount,
                             preimage_hash |-> op.preimage_hash,
                             preimage_size |-> op.preimage_size,
                             expiration |-> op.expiration, created |-> head_time,
                             status |-> "open"]
                       ELSE htlcs[id]]
        /\ push_virtual([name |-> "htlc_created", htlc_id |-> next_htlc_id,
                         from |-> op.from, to |-> op.to])
     \/ /\ ~CanAdjust(op.from, -op.amount.amount, op.amount.symbol)
        /\ UNCHANGED <<balances, htlcVars, pending_virtual_ops>>
  /\ UNCHANGED <<head_time, config, issued>>

\* Mutant: a redeem is still accepted at the expiration itself.
RedeemAcceptsAtExpiry(to, id, preimage) ==
  /\ require_hardfork(HIVE_HARDFORK_HTLC)
  /\ require_full_htlc_state
  /\ id \in DOMAIN htlcs
  /\ IsOpen(id)
  /\ htlcs[id].to = to
  /\ head_time <= htlcs[id].expiration
  /\ preimage.len = htlcs[id].preimage_size
  /\ digest_of(htlcs[id].preimage_hash.algo, preimage) = htlcs[id].preimage_hash

\* Mutant: the status is not looked at.
RedeemAcceptsClosed(to, id, preimage) ==
  /\ id \in DOMAIN htlcs
  /\ htlcs[id].to = to
  /\ head_time < htlcs[id].expiration
  /\ digest_of(htlcs[id].preimage_hash.algo, preimage) = htlcs[id].preimage_hash

RedeemAccepts(to, id, preimage) ==
  /\ require_hardfork(HIVE_HARDFORK_HTLC)
  /\ require_full_htlc_state
  /\ preimage.len # 0 /\ preimage.len <= MAX_HTLC_PREIMAGE_LEN
  /\ id \in DOMAIN htlcs
  /\ IsOpen(id)
  /\ htlcs[id].to = to
  /\ head_time < htlcs[id].expiration
  /\ preimage.len = htlcs[id].preimage_size
  /\ digest_of(htlcs[id].preimage_hash.algo, preimage) = htlcs[id].preimage_hash

HtlcRedeem(to, id, preimage) ==
  /\ RedeemAccepts(to, id, preimage)
  /\ LET asset == htlcs[id].amount
     IN  /\ CanAdjust(to, asset.amount, asset.symbol)
         /\ adjust_balance(to, asset.amount, asset.symbol)
  /\ last_rc_charged' = cost_htlc_redeem(preimage.len)
  /\ htlcs' = [htlcs EXCEPT ![id].status = "redeemed"]
  /\ push_virtual([name |-> "htlc_redeemed", htlc_id |-> id, to |-> to])
  /\ UNCHANGED <<head_time, config, issued, next_htlc_id>>

\* Mutant: a refund before the expiration.
RefundAcceptsEarly(from, id) ==
  /\ id \in DOMAIN htlcs
  /\ IsOpen(id)
  /\ htlcs[id].from = from

\* Mutant: a refund of an HTLC that is already settled.
RefundAcceptsClosed(from, id) ==
  /\ id \in DOMAIN htlcs
  /\ htlcs[id].from = from
  /\ head_time >= htlcs[id].expiration

\* Mutant: the comparison with the expiration is the wrong way round.
RefundAcceptsInverted(from, id) ==
  /\ id \in DOMAIN htlcs
  /\ IsOpen(id)
  /\ htlcs[id].from = from
  /\ head_time < htlcs[id].expiration

RefundAccepts(from, id) ==
  /\ require_hardfork(HIVE_HARDFORK_HTLC)
  /\ require_full_htlc_state
  /\ id \in DOMAIN htlcs
  /\ IsOpen(id)
  /\ htlcs[id].from = from
  /\ head_time >= htlcs[id].expiration

HtlcRefund(from, id) ==
  /\ RefundAccepts(from, id)
  /\ LET asset == htlcs[id].amount
     IN  /\ CanAdjust(from, asset.amount, asset.symbol)
         /\ adjust_balance(from, asset.amount, asset.symbol)
  /\ last_rc_charged' = cost_htlc_refund
  /\ htlcs' = [htlcs EXCEPT ![id].status = "refunded"]
  /\ push_virtual([name |-> "htlc_refunded", htlc_id |-> id, from |-> from])
  /\ UNCHANGED <<head_time, config, issued, next_htlc_id>>

----------------------------------------------------------------------------
HtlcInit == htlcs = << >> /\ next_htlc_id = 1

HtlcNext ==
  \/ \E op \in HtlcCreateOps : HtlcCreate(op)
  \/ \E to \in Accounts, id \in DOMAIN htlcs, p \in Preimages : HtlcRedeem(to, id, p)
  \/ \E from \in Accounts, id \in DOMAIN htlcs : HtlcRefund(from, id)

Init == DbInit /\ HtlcInit

Next == (DbNext /\ UNCHANGED htlcVars) \/ HtlcNext

Spec == Init /\ [][Next]_vars

----------------------------------------------------------------------------
\* Environment of the liveness property: blocks keep arriving, the consumer
\* keeps clearing the virtual operations, and the sender of an HTLC keeps
\* submitting its refund.  Strong fairness because a refund is refused while
\* the node runs a profile that skips HTLC state or the queue is full.
FairSpec ==
  /\ Spec
  /\ WF_vars(AdvanceTime /\ UNCHANGED htlcVars)
  /\ WF_vars(ClearVirtual /\ UNCHANGED htlcVars)
  /\ \A id \in 1..MaxHtlcs : SF_vars(\E from \in Accounts : HtlcRefund(from, id))

----------------------------------------------------------------------------
\* Types of the tables.  No balance is ever negative: every debit is covered.
TypeOK ==
  /\ DbTypeOK
  /\ pending_virtual_ops \in Seq(HtlcVirtualOps)
  /\ next_htlc_id \in Nat \ {0}
  /\ htlcs \in [1..(next_htlc_id - 1) -> HtlcObjects]

\* A sum of natural numbers, counted in units: the size of a set that has as
\* many pairs for each argument as the function says.
Units(amount) == UNION {{x} \X (1..amount[x]) : x \in DOMAIN amount}
Total(amount) == Cardinality(Units(amount))

Held(s) == [a \in DOMAIN balances |-> balances[a][s]]

Locked(s) ==
  [id \in {x \in DOMAIN htlcs : IsOpen(x) /\ htlcs[x].amount.symbol = s} |-> htlcs[id].amount.amount]

\* Funds are neither created nor lost: for each symbol, the balances and the
\* open HTLCs together hold what create_account issued.  Create, redeem and
\* refund each write a balance and an HTLC in separate statements.
FundsConserved == \A s \in Symbols : Total(Held(s)) + Total(Locked(s)) = issued[s]

\* The time lock means what the create validated: the expiration lies in the
\* allowed window after the creation, and an HTLC has been refunded only once
\* the head time reached its expiration.
TimeLockKept ==
  \A id \in DOMAIN htlcs :
    /\ htlcs[id].created <= head_time
    /\ htlcs[id].expiration \in (htlcs[id].created + HTLC_MIN_DURATION_SEC)
                                 ..(htlcs[id].created + HTLC_MAX_DURATION_SEC)
    /\ htlcs[id].status = "refunded" => head_time >= htlcs[id].expiration

\* The cap on open HTLCs holds for every sender, whatever was settled between.
OpenCapKept == \A a \in Accounts : open_htlc_count(a) <= HTLC_MAX_OPEN_PER_ACCOUNT

\* The sender declared the size the hashed preimage really has.
KeyFits(id) == htlcs[id].preimage_hash.of.len = htlcs[id].preimage_size

\* Redeem and refund cut time exactly at the expiration: an open HTLC on a
\* node that keeps HTLC state can be redeemed with its preimage, and no other,
\* before; it can be refunded from then on; never both; and the credit itself
\* cannot fail.
ExactlyOneExit ==
  \A id \in DOMAIN htlcs :
    LET h == htlcs[id]
        redeemable == \E p \in Preimages : RedeemAccepts(h.to, id, p)
        refundable == RefundAccepts(h.from, id)
    IN  IsOpen(id) /\ require_full_htlc_state =>
          /\ redeemable <=> (head_time < h.expiration /\ KeyFits(id))
          /\ refundable <=> ~(head_time < h.expiration)
          /\ \A p \in Preimages : RedeemAccepts(h.to, id, p) => p = h.preimage_hash.of
          /\ CanAdjust(h.to, h.amount.amount, h.amount.symbol)
          /\ CanAdjust(h.from, h.amount.amount, h.amount.symbol)

Terms(h) == [h EXCEPT !.status = "open"]

\* An HTLC id stands for one lock for ever: its terms never change, it never
\* disappears, and once redeemed or refunded it is never settled again.
SettledForGood ==
  [][\A id \in DOMAIN htlcs :
       /\ id \in DOMAIN htlcs'
       /\ Terms(htlcs'[id]) = Terms(htlcs[id])
       /\ ~IsOpen(id) => htlcs'[id] = htlcs[id]]_vars

\* No funds stay locked for ever: if the node keeps HTLC state from some time
\* on, every open HTLC is eventually redeemed or refunded.
EveryLockSettles ==
  <>[]require_full_htlc_state =>
    \A id \in 1..MaxHtlcs :
      (id \in DOMAIN htlcs /\ IsOpen(id)) ~> (id \in DOMAIN htlcs /\ ~IsOpen(id))

----------------------------------------------------------------------------
\* The inductive invariant behind the proofs: both parties of an HTLC exist,
\* its size is legal, and the hardfork was active when it was made and stays so.
HtlcInv ==
  /\ TypeOK
  /\ TimeLockKept
  /\ \A id \in DOMAIN htlcs :
       /\ {htlcs[id].from, htlcs[id].to} \subseteq DOMAIN balances
       /\ htlcs[id].preimage_size \in 1..MAX_HTLC_PREIMAGE_LEN
       /\ require_hardfork(HIVE_HARDFORK_HTLC)

----------------------------------------------------------------------------
\* What the evaluators promise about money alone: see module Escrow.
Locks == [id \in DOMAIN htlcs |->
            [from |-> htlcs[id].from, to |-> htlcs[id].to,
             asset |-> htlcs[id].amount, status |-> htlcs[id].status]]

E == INSTANCE Escrow WITH purse <- balances, locks <- Locks,
                          Assets <- AssetInputs, Ids <- 1..MaxHtlcs

\* The evaluators implement the escrow: each step moves the funds of at most
\* one lock, from the sender when it is made, and then once, to the receiver
\* or back to the sender.
EscrowSpec == E!Spec
============================================================================
