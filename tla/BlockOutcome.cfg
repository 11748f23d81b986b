CONSTANTS
  Accounts = {"ann", "bob", "cat"}
  NftIds = {1, 2}
  HtlcIds = {1, 2}
  ContractIds = {1}
  Preimages <- SecretOrGuess
  Commands <- Calls
  MaxOps = 3
  head_time = 2
  config <- FullNode
  collections <- Art
  operators <- CatForBob
  contracts <- Counter
  MAX_HTLC_PREIMAGE_LEN = 64
  UINT64_MOD = 65536
  fuel_limit = 9000
  Start <- SmallChain
  effect <- apply_one
SPECIFICATION BlockSpec
INVARIANTS LayersIndependent EachOpOnce CoveredOrderKept LayerOrderFree ScheduledAsSerial
CHECK_DEADLOCK FALSE
