CONSTANTS
  Accounts = {"ann", "bob"}
  Deltas <- Payments
  Limit = 1
  MaxStack = 3
SPECIFICATION Spec
INVARIANT RollbackRestores
