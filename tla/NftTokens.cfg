\* Owner, agent and a third account; a token minted, moved, burned and minted again.
CONSTANTS
  Accounts = {alice, bob, carol}
  Endowments <- NoCoins
  Hardforks = {9001}
  MaxTime = 0
  MaxPending = 1
  CollectionSymbols <- OneSymbol
  MaxSupplies = {1}
  TextLens = {1}
  MaxCollections = 2
  MaxNfts = 2
  MaxOperators = 1
SYMMETRY AccountSymmetry
SPECIFICATION Spec
INVARIANTS SupplyCounts TablesAgree ApprovalIsOwners BoundStaysHome
PROPERTY TokenLedgerSpec
