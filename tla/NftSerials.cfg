\* Mint twice, burn the first token, mint again.
CONSTANTS
  Accounts = {alice}
  Endowments <- NoCoins
  Hardforks = {9001}
  MaxTime = 0
  MaxPending = 1
  CollectionSymbols <- TwoSymbols
  MaxSupplies = {0, 2}
  TextLens = {1}
  MaxCollections = 2
  MaxNfts = 3
  MaxOperators = 0
SPECIFICATION Spec
INVARIANT SerialsUnique
