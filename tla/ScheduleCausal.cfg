CONSTANTS
  Accounts = {"ann", "bob"}
  NftIds = {1}
  HtlcIds = {1}
  ContractIds = {1}
  Preimages = {"p"}
  Commands = {"c"}
  MaxOps = 4
SPECIFICATION Spec
INVARIANT CausalOrderKept
CHECK_DEADLOCK FALSE
