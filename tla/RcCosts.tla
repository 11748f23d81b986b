------------------------------ MODULE RcCosts ------------------------------
(***************************************************************************)
(* Resource-credit (RC) prices of the native operations.  A price depends  *)
(* on the operation only through the length of its variable-size payload   *)
(* and, for contracts, on fuel, so these are the arguments here.           *)
(***************************************************************************)
EXTENDS Naturals

TRANSFER_BASE == 1000
FUEL_TO_RC_NUM == 1
FUEL_TO_RC_DEN == 10

bytes_cost(n) == n * 2

cost_nft_create_collection(text_len) == TRANSFER_BASE * 3 + bytes_cost(text_len) + 500
cost_nft_mint(uri_len)               == TRANSFER_BASE * 2 + bytes_cost(uri_len) + 800
cost_nft_transfer(memo_len)          == TRANSFER_BASE + bytes_cost(memo_len)
cost_nft_approve                     == TRANSFER_BASE \div 2
cost_nft_set_approval_for_all        == TRANSFER_BASE \div 2 + 100
cost_nft_burn                        == TRANSFER_BASE
cost_htlc_create(memo_len)           == TRANSFER_BASE * 2 + bytes_cost(memo_len) + 600
cost_htlc_redeem(preimage_len)       == TRANSFER_BASE + bytes_cost(preimage_len) + 200
cost_htlc_refund                     == TRANSFER_BASE

cost_contract_deploy(code_len, fuel_limit) ==
  TRANSFER_BASE * 10 + bytes_cost(code_len) + (fuel_limit * FUEL_TO_RC_NUM) \div FUEL_TO_RC_DEN

\* A call that burned no fuel is charged for its whole limit.
cost_contract_call(args_len, fuel_limit, fuel_used) ==
  LET fuel == IF fuel_used # 0 THEN fuel_used ELSE fuel_limit
  IN  TRANSFER_BASE * 2 + bytes_cost(args_len) + (fuel * FUEL_TO_RC_NUM) \div FUEL_TO_RC_DEN
============================================================================
