CONSTANTS
  Accounts = {"ann"}
  Endowments <- NoCoins
  Hardforks = {9002, 9003}
  MaxTime = 0
  MaxPending = 1
  UINT64_MOD = 65536
  Commands <- AllCommands
  FuelLimits = {0, 49, 80, 9000}
  CodeLens = {0, 64, 524289}
  ArgLens = {0, 65537}
  ExportLens = {0, 4, 65}
  MaxContracts = 2
SPECIFICATION NodeSpec
INVARIANTS StorageWithinLimits 
PROPERTIES StorageOnlyByOwnCall RunsAsStarted
