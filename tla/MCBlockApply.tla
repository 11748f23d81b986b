---------------------------- MODULE MCBlockApply ----------------------------
\* Blocks of up to three operations on a small chain: ann and bob own a token
\* each, cat may move bob's, ann and bob may each redeem a lock of the other,
\* and everyone may call one contract.
EXTENDS BlockApply

FullNode == [nft_skip_state |-> FALSE, htlc_skip_state |-> FALSE, contracts_skip |-> FALSE,
             is_consensus_node |-> TRUE, hardfork |-> 9003]

Art == << [creator |-> "ann", symbol |-> [len |-> 3, tag |-> "ART"], max_supply |-> 0,
           supply |-> 2, transferable |-> TRUE] >>

CatForBob == {<<"bob", "cat", 0>>}

Token(n, owner) == [collection |-> 1, token_serial |-> n, owner |-> owner, approved |-> "",
                    soulbound |-> FALSE]

Secret == [len |-> 4, tag |-> "open sesame"]
Guess  == [len |-> 4, tag |-> "guess"]

SecretOrGuess == {Secret, Guess}

Lock(from, to) == [from |-> from, to |-> to, amount |-> [amount |-> 5, symbol |-> "HIVE"],
                   preimage_hash |-> [algo |-> "sha256", of |-> Secret], preimage_size |-> 4,
                   expiration |-> 9, created |-> 1, status |-> "open"]

Text(t) == [len |-> 1, tag |-> t]

Calls == {[do |-> "write", key |-> Text("k"), val |-> Text(v), len |-> 10] : v \in {"v", "w"}}
           \cup {[do |-> "deny", host |-> "transfer", len |-> 13]}

Counter == << [owner |-> "ann", code_len |-> 64, created |-> 1] >>

SmallChain ==
  [balances |-> [a \in Accounts |-> [HIVE |-> 5, HBD |-> 0]],
   nfts |-> <<Token(1, "ann"), Token(2, "bob")>>,
   htlcs |-> <<Lock("bob", "ann"), Lock("ann", "bob")>>,
   contract_storage |-> << [k \in {} |-> 0] >>,
   pending_virtual_ops |-> << >>]
============================================================================
