--------------------------- MODULE MCDatabaseApi ---------------------------
\* Each list of the API over a table of up to three rows.
EXTENDS DatabaseApi

NoCoins == {[s \in Symbols |-> 0]}

FewRows ==
  [nft      |-> [owner: Accounts, collection: {1}] \cup [owner: {"ann"}, collection: {2}],
   htlc     |-> {[from |-> "ann", to |-> "bob", expiration |-> 1, status |-> "open"],
                 [from |-> "bob", to |-> "ann", expiration |-> 2, status |-> "open"]},
   contract |-> [owner: Accounts]]

AllLists ==
  [table: {"nft"}, list: {"nfts_by_owner"}, account: {"ann"}]
    \cup [table: {"nft"}, list: {"nfts_by_collection"}, collection: {1}]
    \cup [table: {"htlc"}, list: {"htlcs_by_from", "htlcs_by_to"}, account: {"ann"}]
    \cup [table: {"htlc"}, list: {"htlcs_by_expiration"}, min_expiration: {1, 2}]
    \cup [table: {"contract"}, list: {"contracts_by_owner"}, account: {"ann"}]
============================================================================
