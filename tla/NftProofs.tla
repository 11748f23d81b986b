----------------------------- MODULE NftProofs -----------------------------
(***************************************************************************)
(* Proofs about the NFT evaluators, for every value of the constants.      *)
(***************************************************************************)
EXTENDS Nft, DatabaseProofs, FiniteSetTheorems

\* The live tokens of a collection form a finite set.
LEMMA LiveFinite ==
  ASSUME TypeOK, NEW c
  PROVE  IsFiniteSet(Live(c)) /\ Cardinality(Live(c)) \in Nat
<1>1. next_nft_id - 1 \in Int /\ Live(c) \in SUBSET (1..(next_nft_id - 1))
  BY DEF TypeOK, Live
<1>2. IsFiniteSet(Live(c))
  BY <1>1, FS_Interval, FS_Subset
<1> QED
  BY <1>2, FS_CardinalityType

\* The fields of a token and of a collection.
LEMMA TokenType ==
  ASSUME TypeOK, NEW id \in DOMAIN nfts
  PROVE  /\ nfts[id] \in Tokens /\ id \in Nat /\ id # next_nft_id
         /\ nfts[id].collection \in Nat /\ nfts[id].owner \in Accounts
         /\ nfts[id].approved \in Accounts \cup {NoAccount} /\ nfts[id].soulbound \in BOOLEAN
<1>1. nfts[id] \in Tokens /\ id \in Nat /\ id # next_nft_id
  BY DEF TypeOK
<1> QED
  BY <1>1 DEF Tokens

\* A collection object and its fields.
LEMMA CollectionType ==
  ASSUME TypeOK, NEW c \in DOMAIN collections
  PROVE  /\ collections[c] \in Collections /\ c \in Nat
         /\ collections[c].max_supply \in Nat /\ collections[c].supply \in Nat
         /\ collections[c].transferable \in BOOLEAN
<1>1. collections[c] \in Collections /\ c \in Nat
  BY DEF TypeOK
<1> QED
  BY <1>1 DEF Collections

----------------------------------------------------------------------------
\* A new collection starts with no live token and a symbol nobody has.
LEMMA CreateCollectionInv ==
  ASSUME NftInv, NEW a \in Accounts, NEW s \in CollectionSymbols, NEW l \in TextLens,
         NEW m \in MaxSupplies, NEW t \in BOOLEAN, NftCreateCollection(a, s, l, m, t)
  PROVE  NftInv'
<1> DEFINE n == next_collection_id
           c0 == [creator |-> a, symbol |-> s, max_supply |-> m, supply |-> 0,
                  transferable |-> t]
           vop == [name |-> "nft_collection_created", id |-> n, symbol |-> s]
<1> USE NftAssumption
<1>0. TypeOK /\ DbTypeOK /\ m \in Nat /\ l \in Nat /\ s.len \in Nat
  BY Zenon DEF NftInv, TypeOK
<1>1. /\ next_collection_id' = n + 1
      /\ collections' = With(collections, n, c0)
      /\ collection_by_symbol' = With(collection_by_symbol, s, n)
      /\ push_virtual(vop)
      /\ last_rc_charged' = cost_nft_create_collection(s.len + l)
      /\ UNCHANGED <<head_time, config, balances, issued, nfts, operators, next_nft_id, history>>
      /\ s \notin DOMAIN collection_by_symbol
  BY DEF NftCreateCollection, CreateCollectionAccepts
<1>2. c0 \in Collections /\ vop \in NftVirtualOps
  BY <1>0 DEF Collections, NftVirtualOps, TypeOK
<1>3. /\ c0.symbol = s /\ c0.supply = 0 /\ c0.max_supply \in Nat
  BY <1>0
<1> HIDE DEF c0, vop
<1>4. n \in Nat \ {0} /\ DOMAIN collections = 1..(n - 1) /\ (1..(n - 1)) \cup {n} = 1..n
  BY <1>0 DEF TypeOK
<1>5. /\ collections' \in [1..n -> Collections]
      /\ DOMAIN collections' = DOMAIN collections \cup {n}
      /\ collections'[n] = c0
      /\ \A c \in DOMAIN collections : collections'[c] = collections[c]
  <2>1. collections \in [1..(n - 1) -> Collections] /\ n \notin 1..(n - 1)
    BY <1>0, <1>4 DEF TypeOK
  <2>2. /\ collections' \in [(1..(n - 1)) \cup {n} -> Collections]
        /\ collections'[n] = c0
        /\ \A z \in 1..(n - 1) : z # n => collections'[z] = collections[z]
    BY <1>1, <1>2, <2>1 DEF With
  <2> QED
    BY <1>4, <2>1, <2>2
<1>6. /\ DOMAIN collection_by_symbol' = DOMAIN collection_by_symbol \cup {s}
      /\ collection_by_symbol'[s] = n
      /\ \A x \in DOMAIN collection_by_symbol : collection_by_symbol'[x] = collection_by_symbol[x]
      /\ collection_by_symbol' \in [DOMAIN collection_by_symbol' -> DOMAIN collections']
  BY <1>0, <1>1, <1>5, Zenon DEF With, TypeOK
<1>b. next_collection_id' <= MaxCollections + 1
  BY <1>1, <1>4 DEF NftCreateCollection
<1>7. TypeOK'
  <2>1. pending_virtual_ops' \in Seq(NftVirtualOps)
    BY <1>0, <1>1, <1>2, PushType DEF TypeOK
  <2>2. last_rc_charged' \in Nat
    BY <1>0, <1>1 DEF cost_nft_create_collection, bytes_cost, TRANSFER_BASE
  <2>3. DbTypeOK'
    BY <1>0, <1>1, <2>2 DEF DbTypeOK
  <2>4. next_collection_id' \in Nat \ {0} /\ next_collection_id' - 1 = n
    BY <1>1, <1>4
  <2>5. DOMAIN collection_by_symbol' \subseteq CollectionSymbols
    BY <1>0, <1>6 DEF TypeOK
  <2> QED
    BY <1>0, <1>1, <1>5, <1>6, <2>1, <2>3, <2>4, <2>5, ZenonT(30) DEF TypeOK
<1>8. SupplyCounts'
  <2> SUFFICES ASSUME NEW c \in DOMAIN collections'
               PROVE  /\ collections'[c].supply = Cardinality(Live(c)')
                      /\ collections'[c].max_supply # 0
                           => collections'[c].supply <= collections'[c].max_supply
    BY DEF SupplyCounts
  <2>1. CASE c \in DOMAIN collections
    <3>1. Live(c)' = Live(c)
      BY <1>1 DEF Live
    <3> QED
      BY <1>5, <2>1, <3>1 DEF NftInv, SupplyCounts
  <2>2. CASE c = n
    <3>1. Live(c)' = {}
      BY <1>1, <1>4, <2>2 DEF Live, NftInv, TablesAgree
    <3> QED
      BY <1>3, <1>5, <2>2, <3>1, FS_EmptySet
  <2> QED
    BY <1>5, <2>1, <2>2
<1>9. TablesAgree'
  <2>1. \A c \in DOMAIN collections' :
          /\ collections'[c].symbol \in DOMAIN collection_by_symbol'
          /\ collection_by_symbol'[collections'[c].symbol] = c
    BY <1>3, <1>5, <1>6 DEF NftInv, TablesAgree
  <2>2. ASSUME NEW x \in DOMAIN collection_by_symbol'
        PROVE  collections'[collection_by_symbol'[x]].symbol = x
    <3>1. CASE x = s
      BY <1>3, <1>5, <1>6, <3>1, Zenon
    <3>2. CASE x \in DOMAIN collection_by_symbol /\ x # s
      <4>1. collection_by_symbol[x] \in DOMAIN collections
        BY <1>0, <3>2 DEF TypeOK
      <4>2. collections[collection_by_symbol[x]].symbol = x
        BY <3>2 DEF NftInv, TablesAgree
      <4> QED
        BY <1>3, <1>5, <1>6, <3>2, <4>1, <4>2, Zenon
    <3> QED
      BY <1>6, <3>1, <3>2
  <2>3. \A id \in DOMAIN nfts' : nfts'[id].collection \in DOMAIN collections'
    BY <1>1, <1>5, Zenon DEF NftInv, TablesAgree
  <2> QED
    BY <2>1, <2>2, <2>3, Zenon DEF TablesAgree
<1>10. ApprovalIsOwners'
  BY <1>1, Zenon DEF NftInv, ApprovalIsOwners
<1>11. \A id \in DOMAIN nfts' :
         /\ ~collections'[nfts'[id].collection].transferable => nfts'[id].soulbound
         /\ nfts'[id].soulbound => nfts'[id].owner = history'[id].minted_to
  BY <1>1, <1>5 DEF NftInv, TablesAgree
<1> QED
  BY <1>b, <1>7, <1>8, <1>9, <1>10, <1>11, Zenon DEF NftInv

\* A mint adds one live token and one to the supply of its collection.
LEMMA MintInv ==
  ASSUME NftInv, NEW a \in Accounts, NEW to \in Accounts, NEW c \in DOMAIN collections,
         NEW l \in TextLens, NEW b \in BOOLEAN, NftMint(a, c, to, l, b)
  PROVE  NftInv'
<1> DEFINE n == next_nft_id
           t0 == [collection |-> c, token_serial |-> collections[c].supply + 1, owner |-> to,
                  approved |-> NoAccount, soulbound |-> b \/ ~collections[c].transferable]
           h0 == [minted_to |-> to, grantor |-> NoAccount]
           vop == [name |-> "nft_minted", nft_id |-> n, to |-> to]
           Hist == [minted_to: Accounts, grantor: Accounts \cup {NoAccount}]
<1> USE NftAssumption
<1>0. TypeOK /\ DbTypeOK /\ l \in Nat
  BY Zenon DEF NftInv, TypeOK
<1>1. /\ next_nft_id' = n + 1
      /\ nfts' = With(nfts, n, t0)
      /\ collections' = [collections EXCEPT ![c].supply = @ + 1]
      /\ push_virtual(vop)
      /\ history' = With(history, n, h0)
      /\ last_rc_charged' = cost_nft_mint(l)
      /\ UNCHANGED <<head_time, config, balances, issued, collection_by_symbol, operators,
                     next_collection_id>>
  BY DEF NftMint
<1>2. collections[c] \in Collections /\ c \in Nat /\ collections[c].supply \in Nat
      /\ collections[c].max_supply \in Nat
  BY <1>0, CollectionType
<1>3. collections[c].max_supply = 0 \/ collections[c].supply < collections[c].max_supply
  BY DEF NftMint, MintAccepts
<1>4. t0 \in Tokens /\ h0 \in Hist /\ vop \in NftVirtualOps
  BY <1>0, <1>2 DEF Tokens, NftVirtualOps, TypeOK
<1>5. /\ t0.collection = c /\ t0.owner = to /\ t0.approved = NoAccount
      /\ ~collections[c].transferable => t0.soulbound
      /\ h0.minted_to = to
  BY ZenonT(30)
<1> HIDE DEF t0, h0, vop, Hist
<1>6. n \in Nat \ {0} /\ n \notin DOMAIN nfts
  BY <1>0 DEF TypeOK
<1>7. /\ nfts' \in [DOMAIN nfts \cup {n} -> Tokens]
      /\ nfts'[n] = t0
      /\ \A id \in DOMAIN nfts : nfts'[id] = nfts[id]
  BY <1>0, <1>1, <1>4, <1>6, Zenon DEF With, TypeOK
<1>8. DOMAIN history = DOMAIN nfts /\ history \in [DOMAIN nfts -> Hist]
  BY <1>0 DEF TypeOK, Hist
<1>9. /\ history' \in [DOMAIN nfts \cup {n} -> Hist]
      /\ history'[n] = h0
      /\ \A id \in DOMAIN nfts : history'[id] = history[id]
  BY <1>1, <1>4, <1>6, <1>8 DEF With
<1>10. /\ collections' \in [DOMAIN collections -> Collections]
       /\ collections'[c].supply = collections[c].supply + 1
       /\ \A x \in DOMAIN collections :
            /\ collections'[x].symbol = collections[x].symbol
            /\ collections'[x].max_supply = collections[x].max_supply
            /\ collections'[x].transferable = collections[x].transferable
            /\ x # c => collections'[x] = collections[x]
  <2>1. /\ [collections[c] EXCEPT !.supply = @ + 1] \in Collections
        /\ [collections[c] EXCEPT !.supply = @ + 1].supply = collections[c].supply + 1
        /\ [collections[c] EXCEPT !.supply = @ + 1].symbol = collections[c].symbol
        /\ [collections[c] EXCEPT !.supply = @ + 1].max_supply = collections[c].max_supply
        /\ [collections[c] EXCEPT !.supply = @ + 1].transferable = collections[c].transferable
    BY <1>2 DEF Collections
  <2> QED
    BY <1>0, <1>1, <2>1, ZenonT(30) DEF TypeOK
<1>11. TypeOK'
  <2>1. pending_virtual_ops' \in Seq(NftVirtualOps)
    BY <1>0, <1>1, <1>4, PushType DEF TypeOK
  <2>2. last_rc_charged' \in Nat
    BY <1>0, <1>1 DEF cost_nft_mint, bytes_cost, TRANSFER_BASE
  <2>3. DbTypeOK'
    BY <1>0, <1>1, <2>2 DEF DbTypeOK
  <2>4. /\ next_nft_id' \in Nat \ {0}
        /\ DOMAIN nfts' \subseteq 1..(next_nft_id' - 1)
    BY <1>0, <1>1, <1>6, <1>7 DEF TypeOK
  <2>5. nfts' \in [DOMAIN nfts' -> Tokens] /\ history' \in [DOMAIN nfts' -> Hist]
    BY <1>7, <1>9
  <2>6. /\ collections' \in [1..(next_collection_id' - 1) -> Collections]
        /\ DOMAIN collections' = DOMAIN collections
    BY <1>0, <1>1, <1>10, Zenon DEF TypeOK
  <2> QED
    BY <1>0, <1>1, <2>1, <2>3, <2>4, <2>5, <2>6, Zenon DEF TypeOK, Hist
<1>12. SupplyCounts'
  <2> SUFFICES ASSUME NEW x \in DOMAIN collections
               PROVE  /\ collections'[x].supply = Cardinality(Live(x)')
                      /\ collections'[x].max_supply # 0
                           => collections'[x].supply <= collections'[x].max_supply
    BY <1>10, Zenon DEF SupplyCounts
  <2>1. CASE x # c
    <3>1. Live(x)' = Live(x)
      BY <1>5, <1>6, <1>7, <2>1, Zenon DEF Live
    <3> QED
      BY <1>10, <2>1, <3>1, Zenon DEF NftInv, SupplyCounts
  <2>2. CASE x = c
    <3>1. Live(c)' = Live(c) \cup {n} /\ n \notin Live(c)
      BY <1>5, <1>6, <1>7 DEF Live
    <3>2. Cardinality(Live(c)') = Cardinality(Live(c)) + 1
      BY <1>0, <3>1, LiveFinite, FS_AddElement, ZenonT(30)
    <3>3. collections[c].supply = Cardinality(Live(c))
      BY DEF NftInv, SupplyCounts
    <3> QED
      BY <1>2, <1>3, <1>10, <2>2, <3>2, <3>3
  <2> QED
    BY <2>1, <2>2, Zenon
<1>13. TablesAgree'
  <2>1. collection_by_symbol' = collection_by_symbol /\ DOMAIN collections' = DOMAIN collections
    BY <1>1, <1>10
  <2>2. collection_by_symbol \in [DOMAIN collection_by_symbol -> DOMAIN collections]
    BY <1>0 DEF TypeOK
  <2>3. \A x \in DOMAIN collections' :
          /\ collections'[x].symbol \in DOMAIN collection_by_symbol'
          /\ collection_by_symbol'[collections'[x].symbol] = x
    BY <1>10, <2>1 DEF NftInv, TablesAgree
  <2>4. \A x \in DOMAIN collection_by_symbol' : collections'[collection_by_symbol'[x]].symbol = x
    BY <1>10, <2>1, <2>2, Zenon DEF NftInv, TablesAgree
  <2>5. \A id \in DOMAIN nfts' : nfts'[id].collection \in DOMAIN collections'
    BY <1>5, <1>7, <2>1 DEF NftInv, TablesAgree
  <2> QED
    BY <2>3, <2>4, <2>5 DEF TablesAgree
<1>14. ApprovalIsOwners'
  BY <1>5, <1>7, <1>9 DEF NftInv, ApprovalIsOwners
<1>15. \A id \in DOMAIN nfts' :
         /\ ~collections'[nfts'[id].collection].transferable => nfts'[id].soulbound
         /\ nfts'[id].soulbound => nfts'[id].owner = history'[id].minted_to
  BY <1>5, <1>7, <1>9, <1>10 DEF NftInv, TablesAgree
<1> QED
  BY <1>1, <1>11, <1>12, <1>13, <1>14, <1>15, Zenon DEF NftInv

\* Rewriting one token in place is harmless when its collection stays, an
\* approval comes from its owner and a soulbound one keeps its owner.
LEMMA RewriteInv ==
  ASSUME NftInv, NEW id \in DOMAIN nfts, NEW t \in Tokens,
         t.collection = nfts[id].collection, t.soulbound = nfts[id].soulbound,
         t.soulbound => t.owner = nfts[id].owner,
         nfts' = [nfts EXCEPT ![id] = t],
         history' \in [DOMAIN nfts -> [minted_to: Accounts, grantor: Accounts \cup {NoAccount}]],
         \A x \in DOMAIN nfts : history'[x].minted_to = history[x].minted_to,
         \A x \in DOMAIN nfts : x # id => history'[x] = history[x],
         t.approved # NoAccount => history'[id].grantor = t.owner,
         UNCHANGED <<collections, collection_by_symbol, operators,
                     next_collection_id, next_nft_id>>,
         DbTypeOK', pending_virtual_ops' \in Seq(NftVirtualOps)
  PROVE  NftInv'
<1>0. TypeOK
  BY DEF NftInv
<1>1. /\ DOMAIN nfts' = DOMAIN nfts
      /\ nfts'[id] = t
      /\ \A x \in DOMAIN nfts : x # id => nfts'[x] = nfts[x]
      /\ nfts' \in [DOMAIN nfts -> Tokens]
  BY <1>0 DEF TypeOK
<1>2. TypeOK'
  BY <1>0, <1>1, Zenon DEF TypeOK
<1>3. \A x \in DOMAIN nfts : nfts'[x].collection = nfts[x].collection
  BY <1>1, Zenon
<1>4. SupplyCounts'
  <2>1. \A c : Live(c)' = Live(c)
    BY <1>1, <1>3, Zenon DEF Live
  <2> SUFFICES ASSUME NEW c \in DOMAIN collections
               PROVE  /\ collections[c].supply = Cardinality(Live(c)')
                      /\ collections[c].max_supply # 0
                           => collections[c].supply <= collections[c].max_supply
    BY DEF SupplyCounts
  <2>2. Live(c)' = Live(c)
    BY <2>1, Zenon
  <2> QED
    BY <2>2 DEF NftInv, SupplyCounts
<1>5. TablesAgree'
  BY <1>1, <1>3 DEF NftInv, TablesAgree
<1>6. ApprovalIsOwners'
  BY <1>1 DEF NftInv, ApprovalIsOwners
<1>7. \A x \in DOMAIN nfts' :
        /\ ~collections'[nfts'[x].collection].transferable => nfts'[x].soulbound
        /\ nfts'[x].soulbound => nfts'[x].owner = history'[x].minted_to
  BY <1>1, <1>3 DEF NftInv
<1> QED
  BY <1>2, <1>4, <1>5, <1>6, <1>7, Zenon DEF NftInv

\* A transfer moves a token that is not soulbound and clears its approval.
LEMMA TransferInv ==
  ASSUME NftInv, NEW from \in Accounts, NEW to \in Accounts, NEW id \in DOMAIN nfts,
         NEW l \in TextLens, NftTransfer(from, to, id, l)
  PROVE  NftInv'
<1> DEFINE vop == [name |-> "nft_transferred", nft_id |-> id, from |-> nfts[id].owner, to |-> to]
           t == Transferred(nfts[id], to)
<1>0. TypeOK /\ DbTypeOK /\ l \in Nat
  BY NftAssumption, Zenon DEF NftInv, TypeOK
<1>1. nfts[id] \in Tokens /\ id \in Nat /\ nfts[id].owner \in Accounts
  BY <1>0, TokenType
<1>2. /\ t \in Tokens /\ t.collection = nfts[id].collection /\ t.soulbound = nfts[id].soulbound
      /\ t.approved = NoAccount
  BY <1>1, ZenonT(30) DEF Tokens, Transferred
<1>3. ~t.soulbound
  BY <1>2 DEF NftTransfer, TransferAccepts
<1>4. vop \in NftVirtualOps
  BY <1>1 DEF NftVirtualOps
<1>5. /\ nfts' = [nfts EXCEPT ![id] = t]
      /\ push_virtual(vop) /\ last_rc_charged' = cost_nft_transfer(l)
      /\ UNCHANGED <<head_time, config, balances, issued, collections, collection_by_symbol,
                     operators, next_collection_id, next_nft_id, history>>
  BY DEF NftTransfer
<1> HIDE DEF vop, t
<1>6. pending_virtual_ops' \in Seq(NftVirtualOps)
  BY <1>0, <1>4, <1>5, PushType, Zenon DEF TypeOK
<1>7. DbTypeOK'
  <2>1. last_rc_charged' \in Nat
    BY <1>0, <1>5 DEF cost_nft_transfer, bytes_cost, TRANSFER_BASE
  <2> QED
    BY <1>0, <1>5, <2>1, Zenon DEF DbTypeOK
<1>8. history \in [DOMAIN nfts -> [minted_to: Accounts, grantor: Accounts \cup {NoAccount}]]
  BY <1>0 DEF TypeOK
<1> QED
  BY <1>2, <1>3, <1>5, <1>6, <1>7, <1>8, RewriteInv, ZenonT(30)

\* An approval is set by the owner, who is recorded as the grantor.
LEMMA ApproveInv ==
  ASSUME NftInv, NEW a \in Accounts, NEW id \in DOMAIN nfts,
         NEW p \in Accounts \cup {NoAccount}, NftApprove(a, id, p)
  PROVE  NftInv'
<1> DEFINE vop == [name |-> "nft_approved", nft_id |-> id, approved |-> p]
           t == [nfts[id] EXCEPT !.approved = p]
           h == [history[id] EXCEPT !.grantor = a]
           Hist == [minted_to: Accounts, grantor: Accounts \cup {NoAccount}]
<1>0. TypeOK /\ DbTypeOK
  BY DEF NftInv, TypeOK
<1>1. nfts[id] \in Tokens /\ id \in Nat /\ history[id] \in Hist
  BY <1>0, TokenType DEF TypeOK
<1>2. /\ t \in Tokens /\ t.collection = nfts[id].collection /\ t.soulbound = nfts[id].soulbound
      /\ t.owner = nfts[id].owner
  BY <1>1 DEF Tokens
<1>3. h \in Hist /\ h.minted_to = history[id].minted_to /\ h.grantor = a
  BY <1>1
<1>4. vop \in NftVirtualOps /\ nfts[id].owner = a
  BY <1>1 DEF NftVirtualOps, NftApprove, ApproveAccepts
<1>5. /\ nfts' = [nfts EXCEPT ![id] = t]
      /\ history' = [history EXCEPT ![id] = h]
      /\ push_virtual(vop) /\ last_rc_charged' = cost_nft_approve
      /\ UNCHANGED <<head_time, config, balances, issued, collections, collection_by_symbol,
                     operators, next_collection_id, next_nft_id>>
  BY DEF NftApprove
<1>6. /\ history' \in [DOMAIN nfts -> Hist] /\ history'[id] = h
      /\ \A x \in DOMAIN nfts : x # id => history'[x] = history[x]
  <2>1. history \in [DOMAIN nfts -> Hist]
    BY <1>0 DEF TypeOK
  <2> HIDE DEF h, Hist
  <2> QED
    BY <1>3, <1>5, <2>1
<1> HIDE DEF vop, t, h
<1>7. pending_virtual_ops' \in Seq(NftVirtualOps)
  BY <1>0, <1>4, <1>5, PushType, Zenon DEF TypeOK
<1>8. DbTypeOK'
  <2>1. last_rc_charged' \in Nat
    BY <1>5 DEF cost_nft_approve, TRANSFER_BASE
  <2> QED
    BY <1>0, <1>5, <2>1, Zenon DEF DbTypeOK
<1>9. \A x \in DOMAIN nfts : history'[x].minted_to = history[x].minted_to
  BY <1>3, <1>6
<1> QED
  BY <1>2, <1>3, <1>4, <1>5, <1>6, <1>7, <1>8, <1>9, RewriteInv, ZenonT(30)

\* Operator approvals are read by no other clause of the invariant.
LEMMA SetApprovalInv ==
  ASSUME NftInv, NEW a \in Accounts, NEW p \in Accounts, NEW c \in DOMAIN collections \cup {0},
         NEW b \in BOOLEAN, NftSetApprovalForAll(a, p, c, b)
  PROVE  NftInv'
<1> DEFINE vop == [name |-> "nft_approval_for_all", owner |-> a, operator |-> p,
                   collection |-> c, approved |-> b]
<1>0. TypeOK /\ DbTypeOK
  BY DEF NftInv, TypeOK
<1>1. c \in Nat
  BY <1>0, CollectionType
<1>2. vop \in NftVirtualOps
  BY <1>1, Zenon DEF NftVirtualOps
<1>3. /\ operators' = IF b THEN operators \cup {<<a, p, c>>} ELSE operators \ {<<a, p, c>>}
      /\ push_virtual(vop) /\ last_rc_charged' = cost_nft_set_approval_for_all
      /\ UNCHANGED <<head_time, config, balances, issued, collections, collection_by_symbol,
                     nfts, next_collection_id, next_nft_id, history>>
  BY DEF NftSetApprovalForAll
<1> HIDE DEF vop
<1>4. pending_virtual_ops' \in Seq(NftVirtualOps)
  BY <1>0, <1>2, <1>3, PushType, Zenon DEF TypeOK
<1>5. DbTypeOK'
  <2>1. last_rc_charged' \in Nat
    BY <1>3 DEF cost_nft_set_approval_for_all, TRANSFER_BASE
  <2> QED
    BY <1>0, <1>3, <2>1, Zenon DEF DbTypeOK
<1>6. operators' \subseteq Accounts \X Accounts \X Nat
  <2>1. operators \subseteq Accounts \X Accounts \X Nat
    BY <1>0, Zenon DEF TypeOK
  <2> QED
    BY <1>1, <1>3, <2>1
<1>7. TypeOK'
  BY <1>0, <1>3, <1>4, <1>5, <1>6, Zenon DEF TypeOK
<1> QED
  BY <1>3, <1>7, ZenonT(30) DEF NftInv, SupplyCounts, TablesAgree, ApprovalIsOwners, Live

\* A burn removes one live token and one from the supply of its collection;
\* the guard against a supply of zero never bites.
LEMMA BurnInv ==
  ASSUME NftInv, NEW a \in Accounts, NEW id \in DOMAIN nfts, NftBurn(a, id)
  PROVE  NftInv'
<1>c. PICK c : c = nfts[id].collection
  OBVIOUS
<1> DEFINE vop == [name |-> "nft_burned", nft_id |-> id, owner |-> a]
           Hist == [minted_to: Accounts, grantor: Accounts \cup {NoAccount}]
<1>0. TypeOK /\ DbTypeOK
  BY Zenon DEF NftInv, TypeOK
<1>1. id \in Nat /\ c \in DOMAIN collections
  BY <1>0, <1>c, TokenType, Zenon DEF NftInv, TablesAgree
<1>2. collections[c] \in Collections /\ collections[c].supply \in Nat
      /\ collections[c].max_supply \in Nat
  BY <1>0, <1>1, CollectionType
<1>3. /\ IsFiniteSet(Live(c)) /\ id \in Live(c) /\ Cardinality(Live(c)) \in Nat
      /\ collections[c].supply = Cardinality(Live(c))
  BY <1>0, <1>1, <1>c, LiveFinite, ZenonT(30) DEF Live, NftInv, SupplyCounts
<1>4. collections[c].supply > 0
  BY <1>2, <1>3, FS_EmptySet
<1>5. /\ nfts' = [x \in DOMAIN nfts \ {id} |-> nfts[x]]
      /\ history' = [x \in DOMAIN nfts \ {id} |-> history[x]]
      /\ collections' = [collections EXCEPT ![c].supply = @ - 1]
      /\ push_virtual(vop) /\ last_rc_charged' = cost_nft_burn
      /\ UNCHANGED <<head_time, config, balances, issued, collection_by_symbol, operators,
                     next_collection_id, next_nft_id>>
  BY <1>1, <1>4, <1>c, Zenon DEF NftBurn, Released
<1>6. vop \in NftVirtualOps
  BY <1>1 DEF NftVirtualOps
<1> HIDE DEF vop, Hist
<1>7. /\ DOMAIN nfts' = DOMAIN nfts \ {id}
      /\ \A x \in DOMAIN nfts' : nfts'[x] = nfts[x] /\ history'[x] = history[x]
  BY <1>5
<1>8. /\ collections' \in [DOMAIN collections -> Collections]
      /\ collections'[c].supply = collections[c].supply - 1
      /\ \A x \in DOMAIN collections :
           /\ collections'[x].symbol = collections[x].symbol
           /\ collections'[x].max_supply = collections[x].max_supply
           /\ collections'[x].transferable = collections[x].transferable
           /\ x # c => collections'[x] = collections[x]
  <2>1. /\ [collections[c] EXCEPT !.supply = @ - 1] \in Collections
        /\ [collections[c] EXCEPT !.supply = @ - 1].supply = collections[c].supply - 1
        /\ [collections[c] EXCEPT !.supply = @ - 1].symbol = collections[c].symbol
        /\ [collections[c] EXCEPT !.supply = @ - 1].max_supply = collections[c].max_supply
        /\ [collections[c] EXCEPT !.supply = @ - 1].transferable = collections[c].transferable
    BY <1>2, <1>4 DEF Collections
  <2> QED
    BY <1>0, <1>1, <1>5, <2>1, ZenonT(30) DEF TypeOK
<1>9. TypeOK'
  <2>1. pending_virtual_ops' \in Seq(NftVirtualOps)
    BY <1>0, <1>5, <1>6, PushType, Zenon DEF TypeOK
  <2>2. DbTypeOK'
    <3>1. last_rc_charged' \in Nat
      BY <1>5 DEF cost_nft_burn, TRANSFER_BASE
    <3> QED
      BY <1>0, <1>5, <3>1 DEF DbTypeOK
  <2>3. nfts' \in [DOMAIN nfts' -> Tokens] /\ DOMAIN nfts' \subseteq 1..(next_nft_id' - 1)
    BY <1>0, <1>5, <1>7, Zenon DEF TypeOK
  <2>4. history' \in [DOMAIN nfts' -> Hist]
    BY <1>0, <1>5, <1>7, Zenon DEF TypeOK, Hist
  <2>5. /\ collections' \in [1..(next_collection_id' - 1) -> Collections]
        /\ DOMAIN collections' = DOMAIN collections
    BY <1>0, <1>5, <1>8, Zenon DEF TypeOK
  <2> QED
    BY <1>0, <1>5, <2>1, <2>2, <2>3, <2>4, <2>5, Zenon DEF TypeOK, Hist
<1>10. SupplyCounts'
  <2> SUFFICES ASSUME NEW x \in DOMAIN collections
               PROVE  /\ collections'[x].supply = Cardinality(Live(x)')
                      /\ collections'[x].max_supply # 0
                           => collections'[x].supply <= collections'[x].max_supply
    BY <1>8, Zenon DEF SupplyCounts
  <2>1. CASE x # c
    <3>1. Live(x)' = Live(x)
      BY <1>7, <1>c, <2>1, Zenon DEF Live
    <3> QED
      BY <1>8, <2>1, <3>1, Zenon DEF NftInv, SupplyCounts
  <2>2. CASE x = c
    <3>1. Live(c)' = Live(c) \ {id}
      BY <1>7 DEF Live
    <3>2. Cardinality(Live(c) \ {id}) = Cardinality(Live(c)) - 1
      BY <1>3, FS_RemoveElement, ZenonT(30)
    <3>3. collections[c].max_supply # 0 => collections[c].supply <= collections[c].max_supply
      BY <1>1, Zenon DEF NftInv, SupplyCounts
    <3> QED
      BY <1>2, <1>3, <1>8, <2>2, <3>1, <3>2, <3>3
  <2> QED
    BY <2>1, <2>2, Zenon
<1>11. TablesAgree'
  BY <1>0, <1>5, <1>7, <1>8 DEF NftInv, TablesAgree, TypeOK
<1>12. ApprovalIsOwners'
  BY <1>7, Zenon DEF NftInv, ApprovalIsOwners
<1>13. \A x \in DOMAIN nfts' :
         /\ ~collections'[nfts'[x].collection].transferable => nfts'[x].soulbound
         /\ nfts'[x].soulbound => nfts'[x].owner = history'[x].minted_to
  BY <1>7, <1>8 DEF NftInv, TablesAgree
<1> QED
  BY <1>5, <1>9, <1>10, <1>11, <1>12, <1>13, Zenon DEF NftInv

----------------------------------------------------------------------------
\* The invariant holds in a fresh database.
LEMMA InitInv == Init => NftInv
<1> SUFFICES ASSUME Init PROVE NftInv
  OBVIOUS
<1>1. /\ DOMAIN nfts = {} /\ DOMAIN collections = {} /\ DOMAIN collection_by_symbol = {}
      /\ DbTypeOK
  BY DbInitTypeOK DEF Init, NftInit
<1>2. TypeOK
  BY <1>1 DEF Init, DbInit, NftInit, TypeOK
<1> QED
  BY <1>1, <1>2, NftAssumption
     DEF Init, NftInit, NftInv, SupplyCounts, TablesAgree, ApprovalIsOwners

\* Every step preserves the invariant.
LEMMA NextInv == NftInv /\ [Next]_vars => NftInv'
<1> SUFFICES ASSUME NftInv, [Next]_vars PROVE NftInv'
  BY Zenon
<1>0. TypeOK /\ DbTypeOK
  BY Zenon DEF NftInv, TypeOK
<1>1. ASSUME UNCHANGED nftVars, DbTypeOK', pending_virtual_ops' \in Seq(NftVirtualOps)
      PROVE  NftInv'
  <2>1. TypeOK'
    BY <1>0, <1>1 DEF nftVars, TypeOK
  <2> QED
    BY <1>1, <2>1 DEF nftVars, NftInv, SupplyCounts, TablesAgree, ApprovalIsOwners, Live
<1>2. CASE DbNext /\ UNCHANGED nftVars
  BY <1>0, <1>1, <1>2, DbNextTypeOK, DbNextQueue, Zenon DEF TypeOK
<1>3. CASE UNCHANGED vars
  BY <1>0, <1>1, <1>3, Zenon DEF vars, dbVars, TypeOK, DbTypeOK
<1>4. CASE NftNext
  BY <1>4, CreateCollectionInv, MintInv, TransferInv, ApproveInv, SetApprovalInv, BurnInv, Zenon
     DEF NftNext
<1> QED
  BY <1>2, <1>3, <1>4, Zenon DEF Next

\* The strengthened invariant holds throughout every behaviour.
THEOREM InvariantHolds == Spec => []NftInv
<1> QED
  BY InitInv, NextInv, PTL DEF Spec

\* Type correctness of the NFT evaluators.
THEOREM TypeCorrect == Spec => []TypeOK
<1>1. NftInv => TypeOK
  BY Zenon DEF NftInv
<1> QED
  BY <1>1, InvariantHolds, PTL

\* The stored supply is the number of live tokens and respects the cap.
THEOREM SupplyIsCounted == Spec => []SupplyCounts
<1>1. NftInv => SupplyCounts
  BY Zenon DEF NftInv
<1> QED
  BY <1>1, InvariantHolds, PTL

\* Symbol index, collections and tokens stay consistent with each other.
THEOREM TablesStayConsistent == Spec => []TablesAgree
<1>1. NftInv => TablesAgree
  BY DEF NftInv
<1> QED
  BY <1>1, InvariantHolds, PTL

\* No per-token approval outlives the ownership of the account that gave it.
THEOREM ApprovalsAreOwners == Spec => []ApprovalIsOwners
<1>1. NftInv => ApprovalIsOwners
  BY Zenon DEF NftInv
<1> QED
  BY <1>1, InvariantHolds, PTL

\* Bound tokens never leave the account they were minted to.
THEOREM BoundTokensStay == Spec => []BoundStaysHome
<1>1. NftInv => BoundStaysHome
  BY DEF NftInv, BoundStaysHome
<1> QED
  BY <1>1, InvariantHolds, PTL

----------------------------------------------------------------------------
\* A mint as the ledger sees it: the supply the guard reads is the count of
\* the tokens alive.
LEMMA MintRefines ==
  ASSUME NftInv, NEW a \in Accounts, NEW to \in Accounts, NEW c \in DOMAIN collections,
         NEW l \in TextLens, NEW b \in BOOLEAN, NftMint(a, c, to, l, b)
  PROVE  T!Next
<1> DEFINE n == next_nft_id
           bound == b \/ ~collections[c].transferable
<1>0. TypeOK
  BY DEF NftInv
<1>1. n \in 1..MaxNfts /\ n \notin DOMAIN nfts /\ n \notin UsedIds
  BY <1>0, NftAssumption DEF NftMint, TypeOK, UsedIds
<1>2. c \in 1..MaxCollections
  BY <1>0, NftAssumption DEF NftInv, TypeOK
<1>3. SupplyCaps[c] = 0 \/ T!Cardinality(T!Alive(c)) < SupplyCaps[c]
  <2>1. T!Alive(c) = Live(c)
    BY DEF T!Alive, Live, LiveTokens
  <2>2. T!Cardinality(Live(c)) = Cardinality(Live(c))
    BY DEF Cardinality, T!Cardinality
  <2> QED
    BY <2>1, <2>2, Zenon DEF NftMint, MintAccepts, NftInv, SupplyCounts, SupplyCaps
<1>4. LiveTokens' = [x \in DOMAIN LiveTokens \cup {n} |->
                       IF x = n THEN [collection |-> c, owner |-> to, bound |-> bound]
                                ELSE LiveTokens[x]]
  BY <1>1 DEF NftMint, With, LiveTokens
<1>5. UsedIds' = UsedIds \cup {n}
  BY <1>0 DEF NftMint, TypeOK, UsedIds
<1>6. UNCHANGED SupplyCaps
  <2>1. collections' = [collections EXCEPT ![c].supply = @ + 1]
    BY DEF NftMint
  <2>2. /\ DOMAIN collections' = DOMAIN collections
        /\ \A x \in DOMAIN collections : collections'[x].max_supply = collections[x].max_supply
    <3>1. collections[c] \in Collections
      BY <1>0, CollectionType
    <3>2. [collections[c] EXCEPT !.supply = @ + 1].max_supply = collections[c].max_supply
      BY <3>1 DEF Collections
    <3> QED
      BY <2>1, <3>2
  <2> QED
    BY <2>2 DEF SupplyCaps
<1>7. bound \in BOOLEAN /\ c \in DOMAIN SupplyCaps
  BY Zenon DEF SupplyCaps
<1> HIDE DEF n, bound
<1>8. T!Mint(n, c, to, bound)
  BY <1>1, <1>3, <1>4, <1>5, <1>6, <1>7, Zenon DEF T!Mint
<1> QED
  BY <1>1, <1>2, <1>7, <1>8, Zenon DEF T!Next

\* Rewriting the approval or the owner of a token, as the ledger sees it.
LEMMA TransferRefines ==
  ASSUME NftInv, NEW from \in Accounts, NEW to \in Accounts, NEW id \in DOMAIN nfts,
         NEW l \in TextLens, NftTransfer(from, to, id, l)
  PROVE  T!Next
<1>0. nfts[id] \in Tokens
  BY TokenType DEF NftInv
<1>1. /\ Transferred(nfts[id], to).collection = nfts[id].collection
      /\ Transferred(nfts[id], to).owner = to
      /\ Transferred(nfts[id], to).soulbound = nfts[id].soulbound
  BY <1>0, Zenon DEF Tokens, Transferred
<1>2. nfts' = [nfts EXCEPT ![id] = Transferred(nfts[id], to)]
  BY DEF NftTransfer
<1>3. LiveTokens' = [LiveTokens EXCEPT ![id].owner = to]
  <2>1. DOMAIN LiveTokens' = DOMAIN nfts /\ DOMAIN LiveTokens = DOMAIN nfts
    BY <1>2 DEF LiveTokens
  <2>2. LiveTokens'[id] = [LiveTokens[id] EXCEPT !.owner = to]
    BY <1>1, <1>2 DEF LiveTokens
  <2>3. \A x \in DOMAIN nfts : x # id => LiveTokens'[x] = LiveTokens[x]
    BY <1>2 DEF LiveTokens
  <2>4. LiveTokens' = [x \in DOMAIN nfts |-> LiveTokens'[x]]
    BY <1>2, Zenon DEF LiveTokens
  <2> QED
    BY <2>1, <2>2, <2>3, <2>4, ZenonT(30) DEF LiveTokens
<1>4. ~LiveTokens[id].bound /\ id \in DOMAIN LiveTokens
  BY DEF NftTransfer, TransferAccepts, LiveTokens
<1>5. UNCHANGED <<SupplyCaps, UsedIds>>
  BY DEF NftTransfer, SupplyCaps, UsedIds
<1>6. T!Move(id, to)
  BY <1>3, <1>4, <1>5, Zenon DEF T!Move
<1> QED
  BY <1>4, <1>6, Zenon DEF T!Next

\* A burn as the ledger sees it.
LEMMA BurnRefines ==
  ASSUME NftInv, NEW a \in Accounts, NEW id \in DOMAIN nfts, NftBurn(a, id)
  PROVE  T!Next
<1>0. TypeOK
  BY Zenon DEF NftInv
<1>1. nfts' = [x \in DOMAIN nfts \ {id} |-> nfts[x]] /\ UNCHANGED next_nft_id
  BY DEF NftBurn
<1>2. LiveTokens' = [x \in DOMAIN LiveTokens \ {id} |-> LiveTokens[x]] /\ id \in DOMAIN LiveTokens
  BY <1>1 DEF LiveTokens
<1>3. UNCHANGED <<SupplyCaps, UsedIds>>
  <2>1. PICK c : c = nfts[id].collection
    OBVIOUS
  <2>2. CASE c \in DOMAIN collections /\ collections[c].supply > 0
    <3>1. collections' = [collections EXCEPT ![c].supply = @ - 1]
      BY <2>1, <2>2, Zenon DEF NftBurn, Released
    <3>2. collections[c] \in Collections
      BY <1>0, <2>2, CollectionType
    <3>3. [collections[c] EXCEPT !.supply = @ - 1].max_supply = collections[c].max_supply
      BY <3>2 DEF Collections
    <3> QED
      BY <1>1, <2>2, <3>1, <3>3, Zenon DEF SupplyCaps, UsedIds
  <2>3. CASE ~(c \in DOMAIN collections /\ collections[c].supply > 0)
    BY <1>1, <2>1, <2>3, Zenon DEF NftBurn, Released, SupplyCaps, UsedIds
  <2> QED
    BY <2>2, <2>3
<1>4. T!Burn(id)
  BY <1>2, <1>3 DEF T!Burn
<1> QED
  BY <1>2, <1>4, Zenon DEF T!Next

\* The evaluators implement the ledger of module TokenLedger.
THEOREM ImplementsLedger == Spec => TokenLedgerSpec
<1>1. Init => T!Init
  BY DEF Init, NftInit, T!Init, SupplyCaps, LiveTokens, UsedIds
<1>2. ASSUME NftInv, [Next]_vars
      PROVE  [T!Next]_<<SupplyCaps, LiveTokens, UsedIds>>
  <2>1. CASE UNCHANGED <<collections, nfts, next_nft_id>>
    BY <2>1 DEF SupplyCaps, LiveTokens, UsedIds
  <2>2. ASSUME NEW a \in Accounts, NEW s \in CollectionSymbols, NEW l \in TextLens,
               NEW m \in MaxSupplies, NEW t \in BOOLEAN, NftCreateCollection(a, s, l, m, t)
        PROVE  T!Next
    <3> DEFINE n == next_collection_id
    <3>1. n \in 1..MaxCollections /\ n \notin DOMAIN collections
      BY <1>2, <2>2, NftAssumption DEF NftCreateCollection, NftInv, TypeOK
    <3>2. SupplyCaps' = [x \in DOMAIN SupplyCaps \cup {n} |-> IF x = n THEN m ELSE SupplyCaps[x]]
      BY <2>2, <3>1, ZenonT(30) DEF NftCreateCollection, With, SupplyCaps
    <3>3. UNCHANGED <<LiveTokens, UsedIds>>
      BY <2>2, ZenonT(30) DEF NftCreateCollection, LiveTokens, UsedIds
    <3>4. T!Open(n, m)
      BY <3>1, <3>2, <3>3 DEF T!Open, SupplyCaps
    <3> QED
      BY <3>1, <3>4, Zenon DEF T!Next
  <2>3. ASSUME NEW a \in Accounts, NEW id \in DOMAIN nfts, NEW p \in Accounts \cup {NoAccount},
               NftApprove(a, id, p)
        PROVE  UNCHANGED <<SupplyCaps, LiveTokens, UsedIds>>
    <3>1. nfts[id] \in Tokens
      BY <1>2, TokenType DEF NftInv
    <3>2. /\ [nfts[id] EXCEPT !.approved = p].collection = nfts[id].collection
          /\ [nfts[id] EXCEPT !.approved = p].owner = nfts[id].owner
          /\ [nfts[id] EXCEPT !.approved = p].soulbound = nfts[id].soulbound
      BY <3>1 DEF Tokens
    <3> QED
      BY <2>3, <3>2, Zenon DEF NftApprove, SupplyCaps, LiveTokens, UsedIds
  <2>4. CASE NftNext
    BY <1>2, <2>1, <2>2, <2>3, <2>4, MintRefines, TransferRefines, BurnRefines, ZenonT(30)
       DEF NftNext, NftSetApprovalForAll
  <2> QED
    BY <1>2, <2>1, <2>4, Zenon DEF Next, vars, nftVars
<1> QED
  BY <1>1, <1>2, InvariantHolds, PTL DEF Spec, TokenLedgerSpec, T!Spec
============================================================================
