-------------------------------- MODULE Nft --------------------------------
(***************************************************************************)
(* Non-fungible tokens: the six NFT evaluators over the chain database.    *)
(* A collection counts its live tokens; a token has an owner and may have  *)
(* one approved account; an owner may name operators for one collection or *)
(* for all of them (collection 0).                                         *)
(***************************************************************************)
EXTENDS Database, FiniteSets

CONSTANTS CollectionSymbols,  \* collection symbols: records with a length and a tag
          MaxSupplies,        \* max_supply values asked for; 0 is unlimited
          TextLens,           \* lengths of names, uris and memos
          MaxCollections,     \* bound: collections created in a behaviour
          MaxNfts,            \* bound: tokens minted in a behaviour
          MaxOperators        \* bound: operator approvals in force at once

NoAccount == ""

MAX_NFT_SYMBOL_LEN == 16
MAX_NFT_NAME_LEN   == 64
MAX_NFT_URI_LEN    == 256

ASSUME NftAssumption ==
  /\ NoAccount \notin Accounts
  /\ CollectionSymbols \subseteq [len: Nat, tag: STRING]
  /\ MaxSupplies \subseteq Nat
  /\ TextLens \subseteq Nat
  /\ MaxCollections \in Nat
  /\ MaxNfts \in Nat
  /\ MaxOperators \in Nat

VARIABLES collections,           \* id -> collection object
          collection_by_symbol,  \* symbol -> id
          nfts,                  \* id -> token; burned ones are erased
          operators,             \* <<owner, operator, collection>> approved for all
          next_collection_id, next_nft_id,
          history                \* history: live id -> mint recipient, grantor of approved

nftVars == <<collections, collection_by_symbol, nfts, operators,
             next_collection_id, next_nft_id, history>>
vars    == <<dbVars, nftVars>>

Collections ==
  [creator: Accounts, symbol: CollectionSymbols, max_supply: Nat, supply: Nat,
   transferable: BOOLEAN]

Tokens ==
  [collection: Nat, token_serial: Nat, owner: Accounts, approved: Accounts \cup {NoAccount},
   soulbound: BOOLEAN]

NftVirtualOps ==
  [name: {"nft_collection_created"}, id: Nat, symbol: CollectionSymbols]
    \cup [name: {"nft_minted"}, nft_id: Nat, to: Accounts]
    \cup [name: {"nft_transferred"}, nft_id: Nat, from: Accounts, to: Accounts]
    \cup [name: {"nft_approved"}, nft_id: Nat, approved: Accounts \cup {NoAccount}]
    \cup [name: {"nft_approval_for_all"}, owner: Accounts, operator: Accounts,
          collection: Nat, approved: BOOLEAN]
    \cup [name: {"nft_burned"}, nft_id: Nat, owner: Accounts]

----------------------------------------------------------------------------
nft_enabled == require_hardfork(HIVE_HARDFORK_NFT) /\ require_full_nft_state

is_operator_approved(owner, op, collection) ==
  <<owner, op, collection>> \in operators \/ <<owner, op, 0>> \in operators

\* The function f with x mapped to y, whether or not f had x.
With(f, x, y) == [z \in DOMAIN f \cup {x} |-> IF z = x THEN y ELSE f[z]]

----------------------------------------------------------------------------
\* Mutant: the symbol may be taken.
CreateCollectionAcceptsTaken(creator, symbol, name_len) ==
  /\ nft_enabled
  /\ symbol.len # 0 /\ symbol.len <= MAX_NFT_SYMBOL_LEN /\ name_len <= MAX_NFT_NAME_LEN
  /\ account_exists(creator)

CreateCollectionAccepts(creator, symbol, name_len) ==
  /\ nft_enabled
  /\ symbol.len # 0 /\ symbol.len <= MAX_NFT_SYMBOL_LEN /\ name_len <= MAX_NFT_NAME_LEN
  /\ account_exists(creator)
  /\ symbol \notin DOMAIN collection_by_symbol

NftCreateCollection(creator, symbol, name_len, max_supply, transferable) ==
  /\ CreateCollectionAccepts(creator, symbol, name_len)
  /\ next_collection_id <= MaxCollections
  /\ last_rc_charged' = cost_nft_create_collection(symbol.len + name_len)
  /\ next_collection_id' = next_collection_id + 1
  /\ collections' = With(collections, next_collection_id,
       [creator |-> creator, symbol |-> symbol, max_supply |-> max_supply,
        supply |-> 0, transferable |-> transferable])
  /\ collection_by_symbol' = With(collection_by_symbol, symbol, next_collection_id)
  /\ push_virtual([name |-> "nft_collection_created", id |-> next_collection_id,
                   symbol |-> symbol])
  /\ UNCHANGED <<head_time, config, balances, issued, nfts, operators, next_nft_id, history>>

\* Mutant: the cap is off by one.
MintAcceptsPastCap(creator, collection, to, uri_len) ==
  /\ nft_enabled
  /\ account_exists(creator) /\ account_exists(to)
  /\ collection \in DOMAIN collections
  /\ collections[collection].creator = creator
  /\ collections[collection].max_supply = 0
       \/ collections[collection].supply <= collections[collection].max_supply

MintAccepts(creator, collection, to, uri_len) ==
  /\ nft_enabled
  /\ uri_len <= MAX_NFT_URI_LEN
  /\ account_exists(creator) /\ account_exists(to)
  /\ collection \in DOMAIN collections
  /\ collections[collection].creator = creator
  /\ collections[collection].max_supply = 0
       \/ collections[collection].supply < collections[collection].max_supply

NftMint(creator, collection, to, uri_len, soulbound) ==
  /\ MintAccepts(creator, collection, to, uri_len)
  /\ next_nft_id <= MaxNfts
  /\ last_rc_charged' = cost_nft_mint(uri_len)
  /\ next_nft_id' = next_nft_id + 1
  /\ nfts' = With(nfts, next_nft_id,
       [collection |-> collection, token_serial |-> collections[collection].supply + 1,
        owner |-> to, approved |-> NoAccount,
        soulbound |-> soulbound \/ ~collections[collection].transferable])
  /\ collections' = [collections EXCEPT ![collection].supply = @ + 1]
  /\ push_virtual([name |-> "nft_minted", nft_id |-> next_nft_id, to |-> to])
  /\ history' = With(history, next_nft_id, [minted_to |-> to, grantor |-> NoAccount])
  /\ UNCHANGED <<head_time, config, balances, issued, collection_by_symbol, operators,
                 next_collection_id>>

\* Mutant: soulbound is not looked at.
TransferAcceptsBound(from, to, id, memo_len) ==
  /\ nft_enabled
  /\ from # to
  /\ account_exists(to)
  /\ id \in DOMAIN nfts
  /\ nfts[id].owner = from

TransferAccepts(from, to, id, memo_len) ==
  /\ nft_enabled
  /\ from # to /\ memo_len <= MAX_MEMO_LEN
  /\ account_exists(to)
  /\ id \in DOMAIN nfts
  /\ \/ nfts[id].owner = from
     \/ nfts[id].approved = from
     \/ is_operator_approved(nfts[id].owner, from, nfts[id].collection)
  /\ ~nfts[id].soulbound

\* Mutant: the per-token approval outlives the transfer.
TransferredStillApproved(n, to) == [n EXCEPT !.owner = to]

\* The token after a transfer: the per-token approval is cleared.
Transferred(n, to) == [n EXCEPT !.owner = to, !.approved = NoAccount]

NftTransfer(from, to, id, memo_len) ==
  /\ TransferAccepts(from, to, id, memo_len)
  /\ last_rc_charged' = cost_nft_transfer(memo_len)
  /\ nfts' = [nfts EXCEPT ![id] = Transferred(@, to)]
  /\ push_virtual([name |-> "nft_transferred", nft_id |-> id, from |-> nfts[id].owner, to |-> to])
  /\ UNCHANGED <<head_time, config, balances, issued, collections, collection_by_symbol,
                 operators, next_collection_id, next_nft_id, history>>

ApproveAccepts(owner, id, approved) ==
  /\ nft_enabled
  /\ id \in DOMAIN nfts
  /\ nfts[id].owner = owner
  /\ approved # NoAccount => account_exists(approved)

NftApprove(owner, id, approved) ==
  /\ ApproveAccepts(owner, id, approved)
  /\ last_rc_charged' = cost_nft_approve
  /\ nfts' = [nfts EXCEPT ![id].approved = approved]
  /\ push_virtual([name |-> "nft_approved", nft_id |-> id, approved |-> approved])
  /\ history' = [history EXCEPT ![id].grantor = owner]
  /\ UNCHANGED <<head_time, config, balances, issued, collections, collection_by_symbol,
                 operators, next_collection_id, next_nft_id>>

NftSetApprovalForAll(owner, operator, collection, approved) ==
  /\ nft_enabled
  /\ owner # operator
  /\ account_exists(owner) /\ account_exists(operator)
  /\ collection = 0 \/ collection \in DOMAIN collections
  /\ last_rc_charged' = cost_nft_set_approval_for_all
  /\ operators' = IF approved THEN operators \cup {<<owner, operator, collection>>}
                              ELSE operators \ {<<owner, operator, collection>>}
  /\ Cardinality(operators') <= MaxOperators
  /\ push_virtual([name |-> "nft_approval_for_all", owner |-> owner, operator |-> operator,
                   collection |-> collection, approved |-> approved])
  /\ UNCHANGED <<head_time, config, balances, issued, collections, collection_by_symbol,
                 nfts, next_collection_id, next_nft_id, history>>

\* Mutant: a burn does not count.
ReleasedNever(c) == collections

\* The collections after a burn in collection c; a count of zero stays.
Released(c) ==
  IF c \in DOMAIN collections /\ collections[c].supply > 0
  THEN [collections EXCEPT ![c].supply = @ - 1]
  ELSE collections

NftBurn(owner, id) ==
  /\ nft_enabled
  /\ id \in DOMAIN nfts
  /\ nfts[id].owner = owner
  /\ last_rc_charged' = cost_nft_burn
  /\ nfts' = [x \in DOMAIN nfts \ {id} |-> nfts[x]]
  /\ collections' = Released(nfts[id].collection)
  /\ push_virtual([name |-> "nft_burned", nft_id |-> id, owner |-> owner])
  /\ history' = [x \in DOMAIN nfts \ {id} |-> history[x]]
  /\ UNCHANGED <<head_time, config, balances, issued, collection_by_symbol, operators,
                 next_collection_id, next_nft_id>>

----------------------------------------------------------------------------
NftInit ==
  /\ collections = << >> /\ collection_by_symbol = << >>
  /\ nfts = << >> /\ operators = {} /\ history = << >>
  /\ next_collection_id = 1 /\ next_nft_id = 1

NftNext ==
  \/ \E a \in Accounts, s \in CollectionSymbols, l \in TextLens, m \in MaxSupplies, t \in BOOLEAN :
       NftCreateCollection(a, s, l, m, t)
  \/ \E a, to \in Accounts, c \in DOMAIN collections, l \in TextLens, b \in BOOLEAN :
       NftMint(a, c, to, l, b)
  \/ \E from, to \in Accounts, id \in DOMAIN nfts, l \in TextLens : NftTransfer(from, to, id, l)
  \/ \E a \in Accounts, id \in DOMAIN nfts, p \in Accounts \cup {NoAccount} : NftApprove(a, id, p)
  \/ \E a, p \in Accounts, c \in DOMAIN collections \cup {0}, b \in BOOLEAN :
       NftSetApprovalForAll(a, p, c, b)
  \/ \E a \in Accounts, id \in DOMAIN nfts : NftBurn(a, id)

Init == DbInit /\ NftInit

Next == (DbNext /\ UNCHANGED nftVars) \/ NftNext

Spec == Init /\ [][Next]_vars

----------------------------------------------------------------------------
\* Types of the tables.
TypeOK ==
  /\ DbTypeOK
  /\ pending_virtual_ops \in Seq(NftVirtualOps)
  /\ next_collection_id \in Nat \ {0} /\ next_nft_id \in Nat \ {0}
  /\ collections \in [1..(next_collection_id - 1) -> Collections]
  /\ DOMAIN collection_by_symbol \subseteq CollectionSymbols
  /\ collection_by_symbol \in [DOMAIN collection_by_symbol -> DOMAIN collections]
  /\ DOMAIN nfts \subseteq 1..(next_nft_id - 1)
  /\ nfts \in [DOMAIN nfts -> Tokens]
  /\ operators \subseteq Accounts \X Accounts \X Nat
  /\ history \in [DOMAIN nfts -> [minted_to: Accounts, grantor: Accounts \cup {NoAccount}]]

Live(c) == {id \in DOMAIN nfts : nfts[id].collection = c}

\* The supply a collection stores, incremented by mint and decremented by burn,
\* is the number of its live tokens, and it never exceeds a max_supply.
SupplyCounts ==
  \A c \in DOMAIN collections :
    /\ collections[c].supply = Cardinality(Live(c))
    /\ collections[c].max_supply # 0 => collections[c].supply <= collections[c].max_supply

\* The symbol index and the collection table, written one after the other by
\* create_collection, are inverse to each other; every live token is in a
\* collection.
TablesAgree ==
  /\ \A c \in DOMAIN collections :
       /\ collections[c].symbol \in DOMAIN collection_by_symbol
       /\ collection_by_symbol[collections[c].symbol] = c
  /\ \A s \in DOMAIN collection_by_symbol : collections[collection_by_symbol[s]].symbol = s
  /\ \A id \in DOMAIN nfts : nfts[id].collection \in DOMAIN collections

\* A per-token approval in force was given by the account that owns the token
\* now: none survives a change of owner, whoever made the transfer.
ApprovalIsOwners ==
  \A id \in DOMAIN nfts :
    nfts[id].approved # NoAccount => history[id].grantor = nfts[id].owner

\* A token that is soulbound, or that belongs to a collection that is not
\* transferable, is owned by the account it was minted to, for its whole life.
BoundStaysHome ==
  \A id \in DOMAIN nfts :
    (nfts[id].soulbound \/ ~collections[nfts[id].collection].transferable)
      => nfts[id].owner = history[id].minted_to

\* In no collection do two live tokens carry the same serial: the HAF table of
\* tokens declares (collection_id, token_serial) unique.
SerialsUnique ==
  \A x, y \in DOMAIN nfts :
    nfts[x].collection = nfts[y].collection /\ nfts[x].token_serial = nfts[y].token_serial => x = y

\* The inductive invariant behind the proofs: mint makes the tokens of a
\* collection that is not transferable soulbound, and a soulbound token stays
\* with the account it was minted to.
NftInv ==
  /\ TypeOK
  /\ next_collection_id <= MaxCollections + 1
  /\ SupplyCounts
  /\ TablesAgree
  /\ ApprovalIsOwners
  /\ \A id \in DOMAIN nfts :
       /\ ~collections[nfts[id].collection].transferable => nfts[id].soulbound
       /\ nfts[id].soulbound => nfts[id].owner = history[id].minted_to

----------------------------------------------------------------------------
\* What the evaluators promise about tokens alone: see module TokenLedger.
SupplyCaps == [c \in DOMAIN collections |-> collections[c].max_supply]

LiveTokens == [id \in DOMAIN nfts |-> [collection |-> nfts[id].collection,
                                       owner |-> nfts[id].owner, bound |-> nfts[id].soulbound]]

UsedIds == 1..(next_nft_id - 1)

T == INSTANCE TokenLedger WITH
       caps <- SupplyCaps, tokens <- LiveTokens, spent <- UsedIds,
       Owners <- Accounts, Caps <- MaxSupplies,
       CollectionIds <- 1..MaxCollections, TokenIds <- 1..MaxNfts

\* The evaluators implement the ledger: the cap holds for the tokens really
\* alive, bound tokens never move, and an identifier is used once.
TokenLedgerSpec == T!Spec
============================================================================
