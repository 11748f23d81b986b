------------------------------- MODULE Escrow -------------------------------
(***************************************************************************)
(* The promise of the HTLC evaluators about money, without hashes, clocks, *)
(* limits or node configuration: a lock takes an asset out of its sender's *)
(* purse and later pays it once, to the receiver or back to the sender.    *)
(***************************************************************************)
EXTENDS Integers

CONSTANTS Accounts, Endowments, Assets, Ids

VARIABLES purse,   \* account -> symbol -> amount
          locks    \* id -> [from, to, asset, status]

Init == purse = << >> /\ locks = << >>

\* An account is opened, or reset, with a given endowment.
Endow(a, e) ==
  /\ purse' = [x \in DOMAIN purse \cup {a} |-> IF x = a THEN e ELSE purse[x]]
  /\ UNCHANGED locks

Lock(id, from, to, asset) ==
  /\ id \notin DOMAIN locks
  /\ {from, to} \subseteq DOMAIN purse
  /\ asset.amount > 0
  /\ purse[from][asset.symbol] >= asset.amount
  /\ purse' = [purse EXCEPT ![from][asset.symbol] = @ - asset.amount]
  /\ locks' = [x \in DOMAIN locks \cup {id} |->
                 IF x = id THEN [from |-> from, to |-> to, asset |-> asset, status |-> "open"]
                           ELSE locks[x]]

\* Settle lock id: the asset goes to account payee and the lock is closed.
Settle(id, payee, status) ==
  /\ locks[id].status = "open"
  /\ purse' = [purse EXCEPT ![payee][locks[id].asset.symbol] = @ + locks[id].asset.amount]
  /\ locks' = [locks EXCEPT ![id].status = status]

Pay(id)    == Settle(id, locks[id].to, "redeemed")
Return(id) == Settle(id, locks[id].from, "refunded")

Next ==
  \/ \E a \in Accounts, e \in Endowments : Endow(a, e)
  \/ \E id \in Ids, from, to \in Accounts, asset \in Assets : Lock(id, from, to, asset)
  \/ \E id \in DOMAIN locks : Pay(id) \/ Return(id)

Spec == Init /\ [][Next]_<<purse, locks>>
============================================================================
