\* Two accounts, two keys, at most two HTLCs, one open per account.
CONSTANTS
  Accounts = {alice, bob}
  Endowments <- MoneyEndowments
  Hardforks = {9001, 9002}
  MaxTime = 2
  MaxPending = 1
  AssetInputs <- SwapAssets
  Preimages <- TwoKeys
  HashAlgos = {"sha256"}
  SizeInputs = {0, 1, 3}
  MemoLens = {3, 2049}
  HTLC_MIN_DURATION_SEC = 1
  HTLC_MAX_DURATION_SEC = 2
  HTLC_MAX_OPEN_PER_ACCOUNT = 1
  MAX_HTLC_PREIMAGE_LEN = 2
  MaxHtlcs = 2
SPECIFICATION FairSpec
INVARIANTS TypeOK FundsConserved TimeLockKept OpenCapKept ExactlyOneExit
PROPERTIES SettledForGood EscrowSpec EveryLockSettles
