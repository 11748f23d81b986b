CONSTANTS
  Accounts = {"ann", "bob", "cat", "dan"}
  Endowments <- OnePenny
  Hardforks = {0}
  MaxTime = 0
  MaxPending = 0
  hash_of <- Collide
  MIN_CAPACITY = 4
  Deltas <- PennyUpOrDown
  MaxRecreated = 1
  MaxBehind = 1
  MaxBalance = 1
SPECIFICATION IndexSpec
INVARIANTS MapWellFormed CacheCoherent
