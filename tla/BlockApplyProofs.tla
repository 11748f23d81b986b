-------------------------- MODULE BlockApplyProofs --------------------------
(***************************************************************************)
(* Proofs that the evaluators read and write only what their operations    *)
(* are classified by, and so that apply_scheduled gives the results of the *)
(* block order and of every order within its layers.                       *)
(***************************************************************************)
EXTENDS BlockApply, TLAPS

\* What a view holds under an account.
LEMMA ViewAccount ==
  ASSUME NEW a \in DOMAIN Start.balances
  PROVE  <<"account", a>> \in Keys /\ \A t : View(t)[<<"account", a>>] = t.balances[a]
<1>1. <<"account", a>> \in Keys
  BY Zenon DEF Keys
<1> QED
  BY <1>1 DEF View

\* What a view holds under a token.
LEMMA ViewNft ==
  ASSUME NEW n \in DOMAIN Start.nfts
  PROVE  <<"nft", n>> \in Keys /\ \A t : View(t)[<<"nft", n>>] = t.nfts[n]
<1>1. <<"nft", n>> \in Keys
  BY Zenon DEF Keys
<1> QED
  BY <1>1 DEF View

\* What a view holds under an HTLC.
LEMMA ViewHtlc ==
  ASSUME NEW h \in DOMAIN Start.htlcs
  PROVE  <<"htlc", h>> \in Keys /\ \A t : View(t)[<<"htlc", h>>] = t.htlcs[h]
<1>1. <<"htlc", h>> \in Keys
  BY Zenon DEF Keys
<1> QED
  BY <1>1 DEF View

\* What a view holds under a contract.
LEMMA ViewContract ==
  ASSUME NEW c \in DOMAIN Start.contract_storage
  PROVE  <<"contract", c>> \in Keys /\ \A t : View(t)[<<"contract", c>>] = t.contract_storage[c]
<1>1. <<"contract", c>> \in Keys
  BY Zenon DEF Keys
<1> QED
  BY <1>1 DEF View

\* There are no other keys.
LEMMA KeyKinds ==
  ASSUME NEW key \in Keys
  PROVE  \/ \E a \in DOMAIN Start.balances : key = <<"account", a>>
         \/ \E n \in DOMAIN Start.nfts : key = <<"nft", n>>
         \/ \E h \in DOMAIN Start.htlcs : key = <<"htlc", h>>
         \/ \E c \in DOMAIN Start.contract_storage : key = <<"contract", c>>
BY Zenon DEF Keys

\* A table keeps its rows.
IsTable(f, g) == g = [x \in DOMAIN Start[f] |-> g[x]]

\* Two tables hold the same in the rows of D that K names.
Alike(tag, f, g, D, K) == \A x \in D : <<tag, x>> \in K => f[x] = g[x]

\* A table is like itself.
LEMMA AlikeSelf == \A tag, f, D, K : Alike(tag, f, f, D, K)
BY DEF Alike

\* Tables hold the same under K if and only if each of the four does.
LEMMA SameTables ==
  ASSUME NEW t, NEW u, NEW K
  PROVE  SameOn(t, u, K) <=> /\ Alike("account", t.balances, u.balances, DOMAIN Start.balances, K)
                             /\ Alike("nft", t.nfts, u.nfts, DOMAIN Start.nfts, K)
                             /\ Alike("htlc", t.htlcs, u.htlcs, DOMAIN Start.htlcs, K)
                             /\ Alike("contract", t.contract_storage, u.contract_storage,
                                      DOMAIN Start.contract_storage, K)
<1>1. ASSUME NEW x \in DOMAIN Start.balances
      PROVE  /\ <<"account", x>> \in Keys /\ View(t)[<<"account", x>>] = t.balances[x]
             /\ View(u)[<<"account", x>>] = u.balances[x]
  BY <1>1, ViewAccount
<1>2. ASSUME NEW x \in DOMAIN Start.nfts
      PROVE  /\ <<"nft", x>> \in Keys /\ View(t)[<<"nft", x>>] = t.nfts[x]
             /\ View(u)[<<"nft", x>>] = u.nfts[x]
  BY <1>2, ViewNft
<1>3. ASSUME NEW x \in DOMAIN Start.htlcs
      PROVE  /\ <<"htlc", x>> \in Keys /\ View(t)[<<"htlc", x>>] = t.htlcs[x]
             /\ View(u)[<<"htlc", x>>] = u.htlcs[x]
  BY <1>3, ViewHtlc
<1>4. ASSUME NEW x \in DOMAIN Start.contract_storage
      PROVE  /\ <<"contract", x>> \in Keys /\ View(t)[<<"contract", x>>] = t.contract_storage[x]
             /\ View(u)[<<"contract", x>>] = u.contract_storage[x]
  BY <1>4, ViewContract
<1>5. ASSUME SameOn(t, u, K)
      PROVE  /\ Alike("account", t.balances, u.balances, DOMAIN Start.balances, K)
             /\ Alike("nft", t.nfts, u.nfts, DOMAIN Start.nfts, K)
             /\ Alike("htlc", t.htlcs, u.htlcs, DOMAIN Start.htlcs, K)
             /\ Alike("contract", t.contract_storage, u.contract_storage, DOMAIN Start.contract_storage, K)
  <2>1. Alike("account", t.balances, u.balances, DOMAIN Start.balances, K)
    BY <1>1, <1>5 DEF SameOn, Alike
  <2>2. Alike("nft", t.nfts, u.nfts, DOMAIN Start.nfts, K)
    BY <1>2, <1>5 DEF SameOn, Alike
  <2>3. Alike("htlc", t.htlcs, u.htlcs, DOMAIN Start.htlcs, K)
    BY <1>3, <1>5 DEF SameOn, Alike
  <2>4. Alike("contract", t.contract_storage, u.contract_storage, DOMAIN Start.contract_storage, K)
    BY <1>4, <1>5 DEF SameOn, Alike
  <2> QED
    BY <2>1, <2>2, <2>3, <2>4, Zenon
<1>6. ASSUME Alike("account", t.balances, u.balances, DOMAIN Start.balances, K),
             Alike("nft", t.nfts, u.nfts, DOMAIN Start.nfts, K),
             Alike("htlc", t.htlcs, u.htlcs, DOMAIN Start.htlcs, K),
             Alike("contract", t.contract_storage, u.contract_storage, DOMAIN Start.contract_storage, K)
      PROVE  SameOn(t, u, K)
  <2> SUFFICES ASSUME NEW key \in Keys, key \in K PROVE View(t)[key] = View(u)[key]
    BY DEF SameOn
  <2>1. ASSUME NEW x \in DOMAIN Start.balances, key = <<"account", x>>
        PROVE  View(t)[key] = View(u)[key]
    BY <1>1, <1>6, <2>1 DEF Alike
  <2>2. ASSUME NEW x \in DOMAIN Start.nfts, key = <<"nft", x>>
        PROVE  View(t)[key] = View(u)[key]
    BY <1>2, <1>6, <2>2 DEF Alike
  <2>3. ASSUME NEW x \in DOMAIN Start.htlcs, key = <<"htlc", x>>
        PROVE  View(t)[key] = View(u)[key]
    BY <1>3, <1>6, <2>3, Zenon DEF Alike
  <2>4. ASSUME NEW x \in DOMAIN Start.contract_storage, key = <<"contract", x>>
        PROVE  View(t)[key] = View(u)[key]
    BY <1>4, <1>6, <2>4 DEF Alike
  <2>5. \/ \E x \in DOMAIN Start.balances : key = <<"account", x>>
        \/ \E x \in DOMAIN Start.nfts : key = <<"nft", x>>
        \/ \E x \in DOMAIN Start.htlcs : key = <<"htlc", x>>
        \/ \E x \in DOMAIN Start.contract_storage : key = <<"contract", x>>
    BY KeyKinds, Zenon
  <2> QED
    BY <2>1, <2>2, <2>3, <2>4, <2>5, Zenon
<1> QED
  BY <1>5, <1>6, Zenon

\* The four tables of a database.
LEMMA TablesOf ==
  ASSUME NEW t, Shape(t)
  PROVE  /\ IsTable("balances", t.balances) /\ IsTable("nfts", t.nfts)
         /\ IsTable("htlcs", t.htlcs) /\ IsTable("contract_storage", t.contract_storage)
BY DEF Shape, TableNames, IsTable

\* None of them gains or loses a row.
LEMMA DomainsOf ==
  ASSUME NEW t, Shape(t)
  PROVE  /\ DOMAIN t.balances = DOMAIN Start.balances /\ DOMAIN t.nfts = DOMAIN Start.nfts
         /\ DOMAIN t.htlcs = DOMAIN Start.htlcs
         /\ DOMAIN t.contract_storage = DOMAIN Start.contract_storage
BY TablesOf, ZenonT(30) DEF IsTable

\* Tables that hold the same under all keys are the same.
LEMMA SameOnAll ==
  ASSUME NEW t, Shape(t), NEW u, Shape(u), SameOn(t, u, Keys)
  PROVE  \A f \in TableNames : t[f] = u[f]
<1>0. /\ Alike("account", t.balances, u.balances, DOMAIN Start.balances, Keys)
      /\ Alike("nft", t.nfts, u.nfts, DOMAIN Start.nfts, Keys)
      /\ Alike("htlc", t.htlcs, u.htlcs, DOMAIN Start.htlcs, Keys)
      /\ Alike("contract", t.contract_storage, u.contract_storage, DOMAIN Start.contract_storage, Keys)
  BY SameTables, Zenon
<1>1. t.balances = u.balances
  <2>1. \A x \in DOMAIN Start.balances : t.balances[x] = u.balances[x]
    BY <1>0, ViewAccount, Zenon DEF Alike
  <2>2. IsTable("balances", t.balances) /\ IsTable("balances", u.balances)
    BY TablesOf
  <2> QED
    BY <2>1, <2>2 DEF IsTable
<1>2. t.nfts = u.nfts
  <2>1. \A x \in DOMAIN Start.nfts : t.nfts[x] = u.nfts[x]
    BY <1>0, ViewNft, Zenon DEF Alike
  <2>2. IsTable("nfts", t.nfts) /\ IsTable("nfts", u.nfts)
    BY TablesOf
  <2> QED
    BY <2>1, <2>2 DEF IsTable
<1>3. t.htlcs = u.htlcs
  <2>1. \A x \in DOMAIN Start.htlcs : t.htlcs[x] = u.htlcs[x]
    BY <1>0, ViewHtlc, Zenon DEF Alike
  <2>2. IsTable("htlcs", t.htlcs) /\ IsTable("htlcs", u.htlcs)
    BY TablesOf
  <2> QED
    BY <2>1, <2>2 DEF IsTable
<1>4. t.contract_storage = u.contract_storage
  <2>1. \A x \in DOMAIN Start.contract_storage : t.contract_storage[x] = u.contract_storage[x]
    BY <1>0, ViewContract, Zenon DEF Alike
  <2>2. IsTable("contract_storage", t.contract_storage) /\ IsTable("contract_storage", u.contract_storage)
    BY TablesOf
  <2> QED
    BY <2>1, <2>2 DEF IsTable
<1> QED
  BY <1>1, <1>2, <1>3, <1>4 DEF TableNames

----------------------------------------------------------------------------
\* What an operation makes of the tables.
Leaves(t, r, b, n, h, c, vop) ==
  /\ DOMAIN r = Fields
  /\ r.balances = b /\ r.nfts = n /\ r.htlcs = h /\ r.contract_storage = c
  /\ r.pending_virtual_ops = Append(t.pending_virtual_ops, vop)

\* What a transfer reports.
TransferVop(t, op) == <<"nft_transferred", op.nft_id, t.nfts[op.nft_id].owner, op.to>>

\* What a transfer leaves: the owner of one token, and a report.
LEMMA TransferLeaves ==
  ASSUME NEW t, Shape(t), NEW op
  PROVE  LET res == Transfer(t, op)
         IN  IF N(t)!TransferAccepts(op.from, op.to, op.nft_id, 0)
             THEN /\ res.throws = FALSE
                  /\ Leaves(t, res.tables, t.balances, [t.nfts EXCEPT ![op.nft_id] = N(t)!Transferred(@, op.to)],
                            t.htlcs, t.contract_storage, TransferVop(t, op))
             ELSE res.throws = TRUE /\ res.tables = t
<1>1. PICK v : v = TransferVop(t, op)
  OBVIOUS
<1>2. PICK n : n = [t.nfts EXCEPT ![op.nft_id] = N(t)!Transferred(@, op.to)]
  BY Zenon
<1>3. PICK r : r = push_virtual([t EXCEPT !.nfts = n], v)
  OBVIOUS
<1>4. Leaves(t, r, t.balances, n, t.htlcs, t.contract_storage, v)
  BY <1>3 DEF Leaves, push_virtual, Shape, Fields
<1>5. CASE N(t)!TransferAccepts(op.from, op.to, op.nft_id, 0)
  <2>1. Transfer(t, op) = [throws |-> FALSE, tables |-> r]
    BY <1>1, <1>2, <1>3, <1>5, Zenon DEF Transfer, TransferVop
  <2> QED
    BY <1>1, <1>2, <1>4, <1>5, <2>1, SMTT(30)
<1>6. CASE ~N(t)!TransferAccepts(op.from, op.to, op.nft_id, 0)
  BY <1>6 DEF Transfer
<1> QED
  BY <1>5, <1>6, Zenon

----------------------------------------------------------------------------
----------------------------------------------------------------------------
\* The guard of a redeem.
RedeemAdmitted(t, op) ==
  /\ H(t)!RedeemAccepts(op.to, op.htlc_id, op.preimage)
  /\ H(t)!CanAdjust(op.to, t.htlcs[op.htlc_id].amount.amount, t.htlcs[op.htlc_id].amount.symbol)

\* The balances after a redeem.
Credited(t, op) ==
  LET asset == t.htlcs[op.htlc_id].amount
  IN  [t.balances EXCEPT ![op.to][asset.symbol] = @ + asset.amount]

\* The HTLCs after a redeem.
Settled(t, op) == [t.htlcs EXCEPT ![op.htlc_id].status = "redeemed"]

\* What a redeem leaves: one balance, one HTLC, and a report.
LEMMA RedeemLeaves ==
  ASSUME NEW t, Shape(t), NEW op
  PROVE  LET res == Redeem(t, op)
         IN  IF RedeemAdmitted(t, op)
             THEN /\ res.throws = FALSE
                  /\ Leaves(t, res.tables, Credited(t, op), t.nfts, Settled(t, op),
                            t.contract_storage, <<"htlc_redeemed", op.htlc_id, op.to>>)
             ELSE res.throws = TRUE /\ res.tables = t
<1>1. PICK v : v = <<"htlc_redeemed", op.htlc_id, op.to>>
  BY Zenon
<1>2. PICK asset : asset = t.htlcs[op.htlc_id].amount
  OBVIOUS
<1>3. PICK tt : tt = [t EXCEPT !.balances[op.to][asset.symbol] = @ + asset.amount,
                               !.htlcs[op.htlc_id].status = "redeemed"]
  OBVIOUS
<1>4. /\ DOMAIN tt = Fields /\ tt.nfts = t.nfts /\ tt.contract_storage = t.contract_storage
      /\ tt.pending_virtual_ops = t.pending_virtual_ops
  BY <1>3, Zenon DEF Shape, Fields
<1>7. tt.balances = Credited(t, op)
  BY <1>2, <1>3, SMTT(30) DEF Shape, Fields, Credited
<1>8. tt.htlcs = Settled(t, op)
  BY <1>2, <1>3 DEF Shape, Fields, Settled
<1>9. Leaves(t, push_virtual(tt, v), Credited(t, op), t.nfts, Settled(t, op), t.contract_storage, v)
  BY <1>4, <1>7, <1>8, Zenon DEF Leaves, push_virtual, Fields
<1>5. CASE RedeemAdmitted(t, op)
  <2>1. Redeem(t, op) = [throws |-> FALSE, tables |-> push_virtual(tt, v)]
    BY <1>1, <1>2, <1>3, <1>5, ZenonT(30) DEF Redeem, RedeemAdmitted
  <2> QED
    BY <1>1, <1>9, <1>5, <2>1
<1>6. CASE ~RedeemAdmitted(t, op)
  BY <1>6 DEF Redeem, RedeemAdmitted
<1> QED
  BY <1>5, <1>6, Zenon

\* The operation a call hands to the contract evaluator.
CallOf(op) == [caller |-> op.caller, contract_id |-> op.contract_id, export_len |-> 4,
               cmd |-> op.cmd, fuel_limit |-> fuel_limit]

\* What a call reports.
CallVop(t, op) ==
  LET res == C(t)!call(op.cmd, fuel_limit)
  IN  <<"contract_called", op.contract_id, res.success, res.fuel_used>>

\* What a call leaves: the storage of one contract, and a report.
LEMMA CallLeaves ==
  ASSUME NEW t, Shape(t), NEW op
  PROVE  LET res == Call(t, op)
         IN  IF C(t)!CallAccepts(CallOf(op))
             THEN /\ res.throws = ~C(t)!call(op.cmd, fuel_limit).success
                  /\ Leaves(t, res.tables, t.balances, t.nfts, t.htlcs,
                            C(t)!Committed(op.contract_id, C(t)!call(op.cmd, fuel_limit)),
                            CallVop(t, op))
             ELSE res.throws = TRUE /\ res.tables = t
<1>1. PICK v : v = CallVop(t, op)
  OBVIOUS
<1>2. PICK c : c = C(t)!Committed(op.contract_id, C(t)!call(op.cmd, fuel_limit))
  OBVIOUS
<1>3. PICK r : r = push_virtual([t EXCEPT !.contract_storage = c], v)
  OBVIOUS
<1>4. Leaves(t, r, t.balances, t.nfts, t.htlcs, c, v)
  BY <1>3 DEF Leaves, push_virtual, Shape, Fields
<1>5. CASE C(t)!CallAccepts(CallOf(op))
  <2>1. Call(t, op) = [throws |-> ~C(t)!call(op.cmd, fuel_limit).success, tables |-> r]
    BY <1>1, <1>2, <1>3, <1>5, Zenon DEF Call, CallVop, CallOf
  <2> QED
    BY <1>1, <1>2, <1>4, <1>5, <2>1
<1>6. CASE ~C(t)!CallAccepts(CallOf(op))
  BY <1>6 DEF Call, CallOf
<1> QED
  BY <1>5, <1>6, Zenon

----------------------------------------------------------------------------
\* A queue stays a queue when a virtual operation is pushed.
LEMMA PushQueue ==
  ASSUME NEW p, Queue(p), NEW v
  PROVE  Queue(Append(p, v))
<1>1. PICK S : p \in Seq(S)
  BY DEF Queue
<1>2. p \in Seq(S \cup {v}) /\ v \in S \cup {v}
  BY <1>1
<1>3. Append(p, v) \in Seq(S \cup {v})
  BY <1>2
<1> QED
  BY <1>3 DEF Queue

\* What an evaluator leaves has the shape of tables.
LEMMA LeavesShape ==
  ASSUME NEW t, Shape(t), NEW r, NEW b, NEW n, NEW h, NEW c, NEW v, Leaves(t, r, b, n, h, c, v),
         IsTable("balances", b), IsTable("nfts", n), IsTable("htlcs", h),
         IsTable("contract_storage", c)
  PROVE  Shape(r)
<1>1. Queue(r.pending_virtual_ops)
  BY PushQueue DEF Leaves, Shape
<1>2. \A f \in TableNames : r[f] = [x \in DOMAIN Start[f] |-> r[f][x]]
  BY DEF Leaves, IsTable, TableNames
<1> QED
  BY <1>1, <1>2 DEF Leaves, Shape

\* An operation that changes nothing is framed.
LEMMA Unchanged == ASSUME NEW t, Shape(t), NEW op PROVE Frames(t, t, op)
BY DEF Frames, SameOn

\* An evaluator is framed if each table is alike outside the keys of its operation.
LEMMA LeavesFrame ==
  ASSUME NEW t, Shape(t), NEW r, NEW b, NEW n, NEW h, NEW c, NEW v, NEW op,
         Leaves(t, r, b, n, h, c, v),
         IsTable("balances", b), IsTable("nfts", n), IsTable("htlcs", h),
         IsTable("contract_storage", c),
         Alike("account", b, t.balances, DOMAIN Start.balances, Keys \ classify(op)),
         Alike("nft", n, t.nfts, DOMAIN Start.nfts, Keys \ classify(op)),
         Alike("htlc", h, t.htlcs, DOMAIN Start.htlcs, Keys \ classify(op)),
         Alike("contract", c, t.contract_storage, DOMAIN Start.contract_storage, Keys \ classify(op))
  PROVE  Frames(t, r, op)
<1>1. Shape(r)
  BY LeavesShape, Zenon
<1>2. r.balances = b /\ r.nfts = n /\ r.htlcs = h /\ r.contract_storage = c
  BY DEF Leaves
<1>3. SameOn(r, t, Keys \ classify(op))
  BY <1>2, SameTables, Zenon
<1> QED
  BY <1>1, <1>3, Zenon DEF Frames

\* A transfer changes only what it is classified by.
LEMMA TransferFrame ==
  ASSUME NEW t, Shape(t), NEW op, op.kind = "nft_transfer"
  PROVE  Frames(t, Transfer(t, op).tables, op)
<1>1. CASE ~N(t)!TransferAccepts(op.from, op.to, op.nft_id, 0)
  BY <1>1, TransferLeaves, Unchanged, Zenon
<1>2. CASE N(t)!TransferAccepts(op.from, op.to, op.nft_id, 0)
  <2>1. PICK r, n, v : /\ r = Transfer(t, op).tables
                       /\ n = [t.nfts EXCEPT ![op.nft_id] = N(t)!Transferred(@, op.to)]
                       /\ Leaves(t, r, t.balances, n, t.htlcs, t.contract_storage, v)
    BY <1>2, TransferLeaves, Zenon
  <2>2. IsTable("nfts", n)
    BY <2>1, TablesOf, ZenonT(30) DEF IsTable
  <2>3. <<"nft", op.nft_id>> \in classify(op)
    BY DEF classify
  <2>4. DOMAIN t.nfts = DOMAIN Start.nfts
    BY DomainsOf, Zenon
  <2>5. Alike("nft", n, t.nfts, DOMAIN Start.nfts, Keys \ classify(op))
    BY <2>1, <2>3, <2>4 DEF Alike
  <2> QED
    BY <2>1, <2>2, <2>5, AlikeSelf, TablesOf, LeavesFrame, ZenonT(30)
<1> QED
  BY <1>1, <1>2

\* A redeem changes only what it is classified by.
LEMMA RedeemFrame ==
  ASSUME NEW t, Shape(t), NEW op, op.kind = "htlc_redeem"
  PROVE  Frames(t, Redeem(t, op).tables, op)
<1>1. CASE ~RedeemAdmitted(t, op)
  BY <1>1, RedeemLeaves, Unchanged, Zenon
<1>2. CASE RedeemAdmitted(t, op)
  <2>1. PICK r, b, h, v : /\ r = Redeem(t, op).tables
                          /\ b = Credited(t, op) /\ h = Settled(t, op)
                          /\ Leaves(t, r, b, t.nfts, h, t.contract_storage, v)
    BY <1>2, RedeemLeaves, Zenon
  <2>2. IsTable("balances", b) /\ IsTable("htlcs", h)
    <3>1. IsTable("balances", t.balances) /\ IsTable("htlcs", t.htlcs)
      BY TablesOf
    <3>2. IsTable("balances", b)
      BY <2>1, <3>1, ZenonT(30) DEF IsTable, Credited
    <3>3. IsTable("htlcs", h)
      BY <2>1, <3>1, Zenon DEF IsTable, Settled
    <3> QED
      BY <3>2, <3>3, Zenon
  <2>3. <<"htlc", op.htlc_id>> \in classify(op) /\ <<"account", op.to>> \in classify(op)
    BY DEF classify
  <2>4. DOMAIN t.balances = DOMAIN Start.balances /\ DOMAIN t.htlcs = DOMAIN Start.htlcs
    BY DomainsOf, Zenon
  <2>5. Alike("account", b, t.balances, DOMAIN Start.balances, Keys \ classify(op))
    BY <2>1, <2>3, <2>4, ZenonT(30) DEF Alike, Credited
  <2>6. Alike("htlc", h, t.htlcs, DOMAIN Start.htlcs, Keys \ classify(op))
    BY <2>1, <2>3, <2>4, Zenon DEF Alike, Settled
  <2> QED
    BY <2>1, <2>2, <2>5, <2>6, AlikeSelf, TablesOf, LeavesFrame, Zenon
<1> QED
  BY <1>1, <1>2

\* A contract call changes only what it is classified by.
LEMMA CallFrame ==
  ASSUME NEW t, Shape(t), NEW op, op.kind = "contract_call"
  PROVE  Frames(t, Call(t, op).tables, op)
<1>1. CASE ~C(t)!CallAccepts(CallOf(op))
  BY <1>1, CallLeaves, Unchanged, Zenon
<1>2. CASE C(t)!CallAccepts(CallOf(op))
  <2>1. PICK r, c, v, res : /\ r = Call(t, op).tables
                            /\ c = C(t)!Committed(op.contract_id, res)
                            /\ Leaves(t, r, t.balances, t.nfts, t.htlcs, c, v)
    BY <1>2, CallLeaves, Zenon
  <2>2. IsTable("contract_storage", c)
    BY <2>1, TablesOf, Zenon DEF IsTable, C!Committed
  <2>3. <<"contract", op.contract_id>> \in classify(op)
    BY DEF classify
  <2>4. DOMAIN t.contract_storage = DOMAIN Start.contract_storage
    BY DomainsOf, Zenon
  <2>5. Alike("contract", c, t.contract_storage, DOMAIN Start.contract_storage, Keys \ classify(op))
    BY <2>1, <2>3, <2>4, Zenon DEF Alike, C!Committed
  <2> QED
    BY <2>1, <2>2, <2>5, AlikeSelf, TablesOf, LeavesFrame, Zenon
<1> QED
  BY <1>1, <1>2

\* A global operation only reports.
LEMMA GlobalLeaves ==
  ASSUME NEW t, Shape(t)
  PROVE  Leaves(t, push_virtual(t, <<"global_marker">>), t.balances, t.nfts, t.htlcs,
                t.contract_storage, <<"global_marker">>)
<1>1. PICK v : v = <<"global_marker">>
  BY Zenon
<1>2. Leaves(t, push_virtual(t, v), t.balances, t.nfts, t.htlcs, t.contract_storage, v)
  BY DEF Leaves, push_virtual, Shape, Fields
<1> QED
  BY <1>1, <1>2

\* The kinds of operations there are.
LEMMA OpKinds ==
  ASSUME NEW op \in scheduled_op
  PROVE  op.kind \in {"nft_transfer", "htlc_redeem", "contract_call", "global"}
BY DEF scheduled_op

\* apply_one dispatches on the kind.
LEMMA ApplyIs ==
  ASSUME NEW t, NEW op
  PROVE  /\ op.kind = "nft_transfer" => apply_one(t, op) = Transfer(t, op)
         /\ op.kind = "htlc_redeem" => apply_one(t, op) = Redeem(t, op)
         /\ op.kind = "contract_call" => apply_one(t, op) = Call(t, op)
         /\ op.kind = "global" =>
              apply_one(t, op) = [throws |-> FALSE, tables |-> push_virtual(t, <<"global_marker">>)]
BY DEF apply_one

\* apply_one changes only what the operation is classified by.
LEMMA ApplyFrame ==
  ASSUME NEW t, Shape(t), NEW op \in scheduled_op
  PROVE  Frames(t, apply_one(t, op).tables, op)
<1>1. CASE op.kind = "nft_transfer"
  BY <1>1, ApplyIs, TransferFrame, Zenon
<1>2. CASE op.kind = "htlc_redeem"
  BY <1>2, ApplyIs, RedeemFrame, Zenon
<1>3. CASE op.kind = "contract_call"
  BY <1>3, ApplyIs, CallFrame, Zenon
<1>4. CASE op.kind = "global"
  <2>1. apply_one(t, op).tables = push_virtual(t, <<"global_marker">>)
    BY <1>4, ApplyIs
  <2> QED
    BY <2>1, GlobalLeaves, AlikeSelf, TablesOf, LeavesFrame, Zenon
<1> QED
  BY <1>1, <1>2, <1>3, <1>4, OpKinds, Zenon

----------------------------------------------------------------------------
\* Two applications that leave alike tables and push the same answer alike.
LEMMA LeavesAnswer ==
  ASSUME NEW t, NEW u, NEW op, NEW x, NEW y, x.throws = y.throws, NEW v,
         NEW b, NEW n, NEW h, NEW c, Leaves(t, x.tables, b, n, h, c, v),
         NEW bb, NEW nn, NEW hh, NEW cc, Leaves(u, y.tables, bb, nn, hh, cc, v),
         Alike("account", b, bb, DOMAIN Start.balances, classify(op)),
         Alike("nft", n, nn, DOMAIN Start.nfts, classify(op)),
         Alike("htlc", h, hh, DOMAIN Start.htlcs, classify(op)),
         Alike("contract", c, cc, DOMAIN Start.contract_storage, classify(op))
  PROVE  Answers(t, u, op, x, y)
<1>1. PICK r, s : r = x.tables /\ s = y.tables
  BY Zenon
<1>2. /\ r.balances = b /\ r.nfts = n /\ r.htlcs = h /\ r.contract_storage = c
      /\ s.balances = bb /\ s.nfts = nn /\ s.htlcs = hh /\ s.contract_storage = cc
  BY <1>1 DEF Leaves
<1>3. SameOn(r, s, classify(op))
  BY <1>2, SameTables, Zenon
<1>4. Reported(t, u, x, y)
  BY Zenon DEF Leaves, Reported
<1> QED
  BY <1>1, <1>3, <1>4, Zenon DEF Answers

\* So do two that are refused.
LEMMA RefusedAnswer ==
  ASSUME NEW t, NEW u, NEW op, SameOn(t, u, classify(op)), NEW x, NEW y,
         x.throws = TRUE, y.throws = TRUE, x.tables = t, y.tables = u
  PROVE  Answers(t, u, op, x, y)
BY Zenon DEF Answers

\* A transfer depends only on what it is classified by.
LEMMA TransferLocal ==
  ASSUME NEW t, Shape(t), NEW u, Shape(u), NEW op, op.kind = "nft_transfer",
         SameOn(t, u, classify(op))
  PROVE  Answers(t, u, op, Transfer(t, op), Transfer(u, op))
<1>1. <<"nft", op.nft_id>> \in classify(op)
  BY DEF classify
<1>2. /\ Alike("account", t.balances, u.balances, DOMAIN Start.balances, classify(op))
      /\ Alike("nft", t.nfts, u.nfts, DOMAIN Start.nfts, classify(op))
      /\ Alike("htlc", t.htlcs, u.htlcs, DOMAIN Start.htlcs, classify(op))
      /\ Alike("contract", t.contract_storage, u.contract_storage,
               DOMAIN Start.contract_storage, classify(op))
  BY SameTables, Zenon
<1>3. /\ DOMAIN t.nfts = DOMAIN Start.nfts /\ DOMAIN u.nfts = DOMAIN Start.nfts
      /\ DOMAIN t.balances = DOMAIN u.balances
  BY DomainsOf, Zenon
<1>4. op.nft_id \in DOMAIN Start.nfts => t.nfts[op.nft_id] = u.nfts[op.nft_id]
  BY <1>1, <1>2, SMTT(30) DEF Alike
<1>5. N(t)!TransferAccepts(op.from, op.to, op.nft_id, 0)
        <=> N(u)!TransferAccepts(op.from, op.to, op.nft_id, 0)
  BY <1>3, <1>4 DEF N!TransferAccepts, N!nft_enabled, N!require_hardfork, N!require_full_nft_state,
       N!HIVE_HARDFORK_NFT, N!MAX_MEMO_LEN, N!account_exists, N!is_operator_approved
<1>6. CASE ~N(t)!TransferAccepts(op.from, op.to, op.nft_id, 0)
  BY <1>5, <1>6, TransferLeaves, RefusedAnswer, ZenonT(30)
<1>7. CASE N(t)!TransferAccepts(op.from, op.to, op.nft_id, 0)
  <2>1. op.nft_id \in DOMAIN Start.nfts
    BY <1>3, <1>7, Zenon DEF N!TransferAccepts
  <2>2. PICK x, y, n, nn : /\ x = Transfer(t, op) /\ y = Transfer(u, op)
                           /\ n = [t.nfts EXCEPT ![op.nft_id] = N(t)!Transferred(@, op.to)]
                           /\ nn = [u.nfts EXCEPT ![op.nft_id] = N(u)!Transferred(@, op.to)]
    BY Zenon
  <2>3. /\ x.throws = y.throws
        /\ Leaves(t, x.tables, t.balances, n, t.htlcs, t.contract_storage, TransferVop(t, op))
        /\ Leaves(u, y.tables, u.balances, nn, u.htlcs, u.contract_storage, TransferVop(u, op))
    BY <1>5, <1>7, <2>2, TransferLeaves, ZenonT(30)
  <2>4. TransferVop(t, op) = TransferVop(u, op)
    BY <1>4, <2>1 DEF TransferVop
  <2>5. n[op.nft_id] = nn[op.nft_id]
    BY <1>3, <1>4, <2>1, <2>2, Zenon DEF N!Transferred, N!NoAccount
  <2>6. \A i \in DOMAIN Start.nfts : i # op.nft_id => n[i] = t.nfts[i] /\ nn[i] = u.nfts[i]
    BY <1>3, <2>2, Zenon
  <2>7. Alike("nft", n, nn, DOMAIN Start.nfts, classify(op))
    BY <1>2, <2>5, <2>6, Zenon DEF Alike
  <2>8. Answers(t, u, op, x, y)
    BY <1>2, <2>3, <2>4, <2>7, LeavesAnswer, ZenonT(30)
  <2> QED
    BY <2>2, <2>8, Zenon
<1> QED
  BY <1>6, <1>7, Zenon

\* A redeem depends only on what it is classified by.
LEMMA RedeemLocal ==
  ASSUME NEW t, Shape(t), NEW u, Shape(u), NEW op, op.kind = "htlc_redeem",
         SameOn(t, u, classify(op))
  PROVE  Answers(t, u, op, Redeem(t, op), Redeem(u, op))
<1>1. <<"htlc", op.htlc_id>> \in classify(op) /\ <<"account", op.to>> \in classify(op)
  BY DEF classify
<1>2. /\ Alike("account", t.balances, u.balances, DOMAIN Start.balances, classify(op))
      /\ Alike("nft", t.nfts, u.nfts, DOMAIN Start.nfts, classify(op))
      /\ Alike("htlc", t.htlcs, u.htlcs, DOMAIN Start.htlcs, classify(op))
      /\ Alike("contract", t.contract_storage, u.contract_storage,
               DOMAIN Start.contract_storage, classify(op))
  BY SameTables, Zenon
<1>3. /\ DOMAIN t.htlcs = DOMAIN Start.htlcs /\ DOMAIN u.htlcs = DOMAIN Start.htlcs
      /\ DOMAIN t.balances = DOMAIN Start.balances /\ DOMAIN u.balances = DOMAIN Start.balances
  BY DomainsOf, Zenon
<1>4. op.htlc_id \in DOMAIN Start.htlcs => t.htlcs[op.htlc_id] = u.htlcs[op.htlc_id]
  BY <1>1, <1>2, Zenon DEF Alike
<1>5. op.to \in DOMAIN Start.balances => t.balances[op.to] = u.balances[op.to]
  BY <1>1, <1>2, SMTT(30) DEF Alike
<1>6. H(t)!RedeemAccepts(op.to, op.htlc_id, op.preimage)
        <=> H(u)!RedeemAccepts(op.to, op.htlc_id, op.preimage)
  BY <1>3, <1>4, SMTT(30) DEF H!RedeemAccepts, H!require_hardfork, H!require_full_htlc_state,
       H!HIVE_HARDFORK_HTLC, H!IsOpen, H!digest_of
<1>7. H(t)!RedeemAccepts(op.to, op.htlc_id, op.preimage) => op.htlc_id \in DOMAIN Start.htlcs
  BY <1>3, Zenon DEF H!RedeemAccepts
<1>8. \A amount, symbol : H(t)!CanAdjust(op.to, amount, symbol)
                            <=> H(u)!CanAdjust(op.to, amount, symbol)
  BY <1>3, <1>5, Zenon DEF H!CanAdjust, H!account_exists
<1>9. RedeemAdmitted(t, op) <=> RedeemAdmitted(u, op)
  BY <1>4, <1>6, <1>7, <1>8, ZenonT(30) DEF RedeemAdmitted
<1>10. CASE ~RedeemAdmitted(t, op)
  BY <1>9, <1>10, RedeemLeaves, RefusedAnswer, ZenonT(30)
<1>11. CASE RedeemAdmitted(t, op)
  <2>1. op.htlc_id \in DOMAIN Start.htlcs
    BY <1>7, <1>11, Zenon DEF RedeemAdmitted
  <2>2. op.to \in DOMAIN Start.balances
    BY <1>3, <1>11, Zenon DEF RedeemAdmitted, H!CanAdjust, H!account_exists
  <2>3. PICK x, y, v : x = Redeem(t, op) /\ y = Redeem(u, op)
                       /\ v = <<"htlc_redeemed", op.htlc_id, op.to>>
    BY Zenon
  <2>4. PICK b, bb, h, hh : /\ b = Credited(t, op) /\ bb = Credited(u, op)
                            /\ h = Settled(t, op) /\ hh = Settled(u, op)
    OBVIOUS
  <2>5. /\ x.throws = y.throws
        /\ Leaves(t, x.tables, b, t.nfts, h, t.contract_storage, v)
        /\ Leaves(u, y.tables, bb, u.nfts, hh, u.contract_storage, v)
    BY <1>9, <1>11, <2>3, <2>4, RedeemLeaves, ZenonT(30)
  <2>6. h[op.htlc_id] = hh[op.htlc_id]
    BY <1>3, <1>4, <2>1, <2>4, Zenon DEF Settled
  <2>7. b[op.to] = bb[op.to]
    BY <1>3, <1>4, <1>5, <2>1, <2>2, <2>4, ZenonT(30) DEF Credited
  <2>8. \A i \in DOMAIN Start.htlcs : i # op.htlc_id => h[i] = t.htlcs[i] /\ hh[i] = u.htlcs[i]
    BY <1>3, <2>4, Zenon DEF Settled
  <2>9. \A a \in DOMAIN Start.balances : a # op.to => b[a] = t.balances[a] /\ bb[a] = u.balances[a]
    BY <1>3, <2>4, ZenonT(30) DEF Credited
  <2>10. /\ Alike("htlc", h, hh, DOMAIN Start.htlcs, classify(op))
         /\ Alike("account", b, bb, DOMAIN Start.balances, classify(op))
    BY <1>2, <2>6, <2>7, <2>8, <2>9, SMTT(30) DEF Alike
  <2>11. Answers(t, u, op, x, y)
    BY <1>2, <2>5, <2>10, LeavesAnswer, ZenonT(30)
  <2> QED
    BY <2>3, <2>11, Zenon
<1> QED
  BY <1>10, <1>11, Zenon

\* The engine sees the tables only through the writes it stages.
LEMMA EngineLocal ==
  ASSUME NEW t, NEW u, NEW cmd, NEW limit
  PROVE  C(t)!call(cmd, limit) = C(u)!call(cmd, limit)
BY Zenon DEF C!call, C!burn, C!BaseFuel, C!Weight, C!host_fuel_weight, C!Refused, C!host_allowed, C!Failed,
   C!NoWrites, C!max_storage_key, C!max_storage_value

\* A call depends only on what it is classified by.
LEMMA CallLocal ==
  ASSUME NEW t, Shape(t), NEW u, Shape(u), NEW op, op.kind = "contract_call",
         SameOn(t, u, classify(op))
  PROVE  Answers(t, u, op, Call(t, op), Call(u, op))
<1>1. <<"contract", op.contract_id>> \in classify(op)
  BY DEF classify
<1>2. /\ Alike("account", t.balances, u.balances, DOMAIN Start.balances, classify(op))
      /\ Alike("nft", t.nfts, u.nfts, DOMAIN Start.nfts, classify(op))
      /\ Alike("htlc", t.htlcs, u.htlcs, DOMAIN Start.htlcs, classify(op))
      /\ Alike("contract", t.contract_storage, u.contract_storage,
               DOMAIN Start.contract_storage, classify(op))
  BY SameTables, Zenon
<1>3. /\ DOMAIN t.contract_storage = DOMAIN Start.contract_storage
      /\ DOMAIN u.contract_storage = DOMAIN Start.contract_storage
      /\ DOMAIN t.balances = DOMAIN u.balances
  BY DomainsOf, Zenon
<1>4. C(t)!CallAccepts(CallOf(op)) <=> C(u)!CallAccepts(CallOf(op))
  BY <1>3 DEF C!CallAccepts, C!require_hardfork, C!HIVE_HARDFORK_CONTRACTS, C!contracts_enabled,
       C!contract_call_validate, C!MAX_CONTRACT_EXPORT, C!MAX_CONTRACT_ARGS, C!account_exists
<1>5. CASE ~C(t)!CallAccepts(CallOf(op))
  BY <1>4, <1>5, CallLeaves, RefusedAnswer, ZenonT(30)
<1>6. CASE C(t)!CallAccepts(CallOf(op))
  <2>1. PICK x, y, res : x = Call(t, op) /\ y = Call(u, op) /\ res = C(t)!call(op.cmd, fuel_limit)
    OBVIOUS
  <2>2. res = C(u)!call(op.cmd, fuel_limit)
    BY <2>1, EngineLocal
  <2>3. PICK c, cc, v : /\ c = C(t)!Committed(op.contract_id, res)
                        /\ cc = C(u)!Committed(op.contract_id, res)
                        /\ v = <<"contract_called", op.contract_id, res.success, res.fuel_used>>
    BY Zenon
  <2>4. CallVop(t, op) = v /\ CallVop(u, op) = v
    BY <2>1, <2>2, <2>3, ZenonT(30) DEF CallVop
  <2>5. /\ x.throws = y.throws
        /\ Leaves(t, x.tables, t.balances, t.nfts, t.htlcs, c, v)
        /\ Leaves(u, y.tables, u.balances, u.nfts, u.htlcs, cc, v)
    <3>1. x.throws = ~res.success /\ Leaves(t, x.tables, t.balances, t.nfts, t.htlcs, c, v)
      BY <1>6, <2>1, <2>3, <2>4, CallLeaves, ZenonT(30)
    <3>2. y.throws = ~res.success /\ Leaves(u, y.tables, u.balances, u.nfts, u.htlcs, cc, v)
      BY <1>4, <1>6, <2>1, <2>2, <2>3, <2>4, CallLeaves, ZenonT(30)
    <3> QED
      BY <3>1, <3>2, Zenon
  <2>6. \A i \in DOMAIN Start.contract_storage : i # op.contract_id =>
          c[i] = t.contract_storage[i] /\ cc[i] = u.contract_storage[i]
    BY <1>3, <2>3, Zenon DEF C!Committed
  <2>7. op.contract_id \in DOMAIN Start.contract_storage =>
          t.contract_storage[op.contract_id] = u.contract_storage[op.contract_id]
    BY <1>1, <1>2, Zenon DEF Alike
  <2>8. op.contract_id \in DOMAIN Start.contract_storage => c[op.contract_id] = cc[op.contract_id]
    BY <1>3, <2>3, <2>7, Zenon DEF C!Committed, C!Overlay
  <2>9. Alike("contract", c, cc, DOMAIN Start.contract_storage, classify(op))
    BY <1>2, <2>6, <2>8, Zenon DEF Alike
  <2>10. Answers(t, u, op, x, y)
    BY <1>2, <2>5, <2>9, LeavesAnswer, ZenonT(30)
  <2> QED
    BY <2>1, <2>10, Zenon
<1> QED
  BY <1>5, <1>6, Zenon

\* apply_one depends only on what the operation is classified by.
LEMMA ApplyLocal ==
  ASSUME NEW t, Shape(t), NEW u, Shape(u), NEW op \in scheduled_op, SameOn(t, u, classify(op))
  PROVE  Answers(t, u, op, apply_one(t, op), apply_one(u, op))
<1>1. CASE op.kind = "nft_transfer"
  BY <1>1, ApplyIs, TransferLocal, SMTT(30)
<1>2. CASE op.kind = "htlc_redeem"
  BY <1>2, ApplyIs, RedeemLocal, SMTT(30)
<1>3. CASE op.kind = "contract_call"
  BY <1>3, ApplyIs, CallLocal, SMTT(30)
<1>4. CASE op.kind = "global"
  <2>1. PICK x, y, v : x = apply_one(t, op) /\ y = apply_one(u, op) /\ v = <<"global_marker">>
    BY Zenon
  <2>2. x.throws = y.throws /\ x.tables = push_virtual(t, v) /\ y.tables = push_virtual(u, v)
    <3>1. /\ x = [throws |-> FALSE, tables |-> push_virtual(t, v)]
          /\ y = [throws |-> FALSE, tables |-> push_virtual(u, v)]
      BY <1>4, <2>1, ApplyIs, Zenon
    <3> QED
      BY <3>1
  <2>3. /\ Leaves(t, x.tables, t.balances, t.nfts, t.htlcs, t.contract_storage, v)
        /\ Leaves(u, y.tables, u.balances, u.nfts, u.htlcs, u.contract_storage, v)
    BY <2>1, <2>2, GlobalLeaves, Zenon
  <2>4. /\ Alike("account", t.balances, u.balances, DOMAIN Start.balances, classify(op))
        /\ Alike("nft", t.nfts, u.nfts, DOMAIN Start.nfts, classify(op))
        /\ Alike("htlc", t.htlcs, u.htlcs, DOMAIN Start.htlcs, classify(op))
        /\ Alike("contract", t.contract_storage, u.contract_storage,
                 DOMAIN Start.contract_storage, classify(op))
    BY SameTables, Zenon
  <2>5. Answers(t, u, op, x, y)
    BY <2>2, <2>3, <2>4, LeavesAnswer, ZenonT(30)
  <2> QED
    BY <2>1, <2>5
<1> QED
  BY <1>1, <1>2, <1>3, <1>4, OpKinds, Zenon

\* apply_one throws or it does not.
LEMMA ThrowsBoolean ==
  ASSUME NEW t, Shape(t), NEW op \in scheduled_op
  PROVE  apply_one(t, op).throws \in BOOLEAN
<1>1. CASE op.kind = "nft_transfer"
  <2>1. Transfer(t, op).throws = TRUE \/ Transfer(t, op).throws = FALSE
    BY TransferLeaves
  <2> QED
    BY <1>1, <2>1, ApplyIs, ZenonT(30)
<1>2. CASE op.kind = "htlc_redeem"
  <2>1. Redeem(t, op).throws = TRUE \/ Redeem(t, op).throws = FALSE
    BY RedeemLeaves
  <2> QED
    BY <1>2, <2>1, ApplyIs, Zenon
<1>3. CASE op.kind = "contract_call"
  <2>1. PICK b : b = ~C(t)!call(op.cmd, fuel_limit).success
    OBVIOUS
  <2>2. Call(t, op).throws = TRUE \/ Call(t, op).throws = b
    BY <2>1, CallLeaves, Zenon
  <2>3. b \in BOOLEAN
    BY <2>1
  <2> QED
    BY <1>3, <2>2, <2>3, ApplyIs, Zenon
<1>4. CASE op.kind = "global"
  <2>1. PICK r : r = push_virtual(t, <<"global_marker">>)
    OBVIOUS
  <2>2. apply_one(t, op) = [throws |-> FALSE, tables |-> r]
    BY <1>4, <2>1, ApplyIs, Zenon
  <2>3. apply_one(t, op).throws = FALSE
    BY <2>2
  <2> QED
    BY <2>3, Zenon
<1> QED
  BY <1>1, <1>2, <1>3, <1>4, OpKinds, Zenon

----------------------------------------------------------------------------
\* The scheduler with the evaluators.
EffectIsApplyOne == \A t, op : effect(t, op) = apply_one(t, op)

\* The evaluators stay within what their operations are classified by.
LEMMA ApplyOneLocal == EffectIsApplyOne => LocalEffects
<1> SUFFICES ASSUME EffectIsApplyOne PROVE LocalEffects
  OBVIOUS
<1>1. ASSUME NEW t, NEW op \in scheduled_op, Shape(t)
      PROVE  effect(t, op).throws \in BOOLEAN /\ Frames(t, effect(t, op).tables, op)
  <2>1. effect(t, op) = apply_one(t, op)
    BY Zenon DEF EffectIsApplyOne
  <2>2. apply_one(t, op).throws \in BOOLEAN /\ Frames(t, apply_one(t, op).tables, op)
    BY <1>1, ApplyFrame, ThrowsBoolean, Zenon
  <2> QED
    BY <2>1, <2>2, Zenon
<1>2. ASSUME NEW t, NEW u, NEW op \in scheduled_op, Shape(t), Shape(u), SameOn(t, u, classify(op))
      PROVE  Answers(t, u, op, effect(t, op), effect(u, op))
  <2>1. effect(t, op) = apply_one(t, op) /\ effect(u, op) = apply_one(u, op)
    BY Zenon DEF EffectIsApplyOne
  <2>2. Answers(t, u, op, apply_one(t, op), apply_one(u, op))
    BY <1>2, ApplyLocal, Zenon
  <2> QED
    BY <2>1, <2>2, Zenon
<1>3. ASSUME NEW t, NEW u, Shape(t), Shape(u), SameOn(t, u, Keys)
      PROVE  \A f \in TableNames : t[f] = u[f]
  BY <1>3, SameOnAll, SMTT(30)
<1> QED
  BY <1>1, <1>2, <1>3, Zenon DEF LocalEffects


----------------------------------------------------------------------------
\* The theorems about the scheduler over tables, for these evaluators.
Run == INSTANCE ApplySchedulerProofs

\* A name of ApplySchedulerProofs means there what it means here.  The effects are
\* local there if they are local here.
LEMMA SameEffects == Run!LocalEffects <=> LocalEffects
BY Zenon DEF Run!LocalEffects, LocalEffects, Run!Shape, Shape, Run!Frames, Frames, Run!SameOn, SameOn,
       Run!Answers, Answers, Run!Reported, Reported, Run!View, View, Run!Keys, Keys,
       Run!classify, classify, Run!scheduled_op, scheduled_op, Run!Queue, Queue, Run!Fields, Fields,
       Run!TableNames, TableNames

\* The first state is the same.
LEMMA SameInit == Run!BlockInit <=> BlockInit
BY Zenon DEF Run!BlockInit, BlockInit, Run!Init, Init, Run!Blocks, Blocks, Run!scheduled_op,
       scheduled_op

\* The steps are the same.
LEMMA SameNext == [Run!BlockNext]_(Run!allVars) <=> [BlockNext]_allVars
BY Zenon DEF Run!BlockNext, BlockNext, Run!allVars, allVars, Run!vars, vars, Run!Place, Place,
       Run!Planned, Planned, Run!ApplyOrThrow, ApplyOrThrow, Run!ApplyOne, ApplyOne, Run!Throw,
       Throw, Run!Fits, Fits, Run!layer_global, layer_global, Run!layer_accounts,
       layer_accounts, Run!Current, Current, Run!HasMore, HasMore, Run!classify, classify,
       Run!Touch, Touch, Run!Global, Global, Run!Members, Members

\* What is assumed of the constants there is assumed here.
LEMMA SameAssumptions ==
  /\ MaxOps \in Nat
  /\ DOMAIN Start = Run!TableNames \cup {"pending_virtual_ops"}
  /\ \A f \in Run!TableNames : Start[f] = [x \in DOMAIN Start[f] |-> Start[f][x]]
  /\ Start.pending_virtual_ops \in Seq(Run!Range(Start.pending_virtual_ops))
BY StartAssumption, MaxOpsAssumption, Zenon DEF Run!TableNames, TableNames, Run!Range, Range

\* The bijections are the same.
LEMMA SameBijection == \A S, T : Run!Bijection(S, T) = Bijection(S, T)
BY Zenon DEF Run!Bijection, Bijection, Run!Injection, Injection, Run!Surjection, Surjection,
       Run!IsInjective, IsInjective

\* The same outcomes agree.
LEMMA SameAgree == \A x, y : Run!Agree(x, y) <=> Agree(x, y)
BY SameBijection, ZenonT(30) DEF Run!Agree, Agree, Run!TableNames, TableNames

\* The same operations have the same outcome.
LEMMA SameOutcome == \A t, s : Run!Outcome(t, s) = Outcome(t, s)
BY Zenon DEF Run!Outcome, Outcome

\* LayerOrderFree says the same.
LEMMA SameLayerOrderFree == Run!LayerOrderFree <=> LayerOrderFree
BY SameBijection, SameAgree, SameOutcome, Zenon DEF Run!LayerOrderFree, LayerOrderFree

\* ScheduledAsSerial says the same.
LEMMA SameScheduledAsSerial == Run!ScheduledAsSerial <=> ScheduledAsSerial
<1>1. Run!ConflictsInOrder <=> ConflictsInOrder
  BY Zenon DEF Run!ConflictsInOrder, ConflictsInOrder, Run!Conflict, Conflict, Run!Members, Members,
         Run!Touch, Touch, Run!Global, Global, Run!classify, classify
<1> QED
  BY <1>1, SameAgree, SameOutcome, Zenon DEF Run!ScheduledAsSerial, ScheduledAsSerial

\* The operations of a layer of build_parallel_schedule give one and the same result
\* in every order, whatever the tables hold when the layer is due.
THEOREM LayersOrderFree == EffectIsApplyOne => (BlockSpec => []LayerOrderFree)
<1> SUFFICES ASSUME EffectIsApplyOne PROVE BlockSpec => []LayerOrderFree
  BY Zenon
<1>1. Run!LocalEffects
  BY ApplyOneLocal, SameEffects, Zenon
<1>2. Run!BlockSpec => []Run!LayerOrderFree
  BY <1>1, SameAssumptions, Run!LayersOrderFree, SMTT(30)
<1> QED
  BY <1>2, SameInit, SameNext, SameLayerOrderFree, PTL DEF BlockSpec, Run!BlockSpec

\* apply_scheduled ends a block as the block order does, unless the schedule lets
\* an operation overtake one it conflicts with.
THEOREM BlockAsSerial == EffectIsApplyOne => (BlockSpec => []ScheduledAsSerial)
<1> SUFFICES ASSUME EffectIsApplyOne PROVE BlockSpec => []ScheduledAsSerial
  OBVIOUS
<1>1. Run!LocalEffects
  BY ApplyOneLocal, SameEffects
<1>2. Run!BlockSpec => []Run!ScheduledAsSerial
  BY <1>1, SameAssumptions, Run!BlockAsSerial
<1> QED
  BY <1>2, SameInit, SameNext, SameScheduledAsSerial, PTL DEF BlockSpec, Run!BlockSpec
=============================================================================
