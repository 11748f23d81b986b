CONSTANTS
  Accounts = {"ann", "bob"}
  Endowments <- NoCoins
  Hardforks = {9003}
  MaxTime = 0
  MaxPending = 0
  NewRows <- FewRows
  Queries <- AllLists
  Limits = {0, 2, 101}
  MaxRows = 3
SPECIFICATION Spec
INVARIANTS ScanComplete 
 
