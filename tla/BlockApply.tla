----------------------------- MODULE BlockApply -----------------------------
(***************************************************************************)
(* The evaluators apply_scheduled calls, as the effect of an operation on  *)
(* the tables: the guards and the new values are those of the modules Nft, *)
(* Htlc and Contracts.  The operations of one block share the head time    *)
(* and the configuration; RC is left out, its last charge depends on the   *)
(* order.                                                                  *)
(***************************************************************************)
EXTENDS BlockRun

CONSTANTS head_time, config, collections, operators, contracts, MAX_HTLC_PREIMAGE_LEN,
          UINT64_MOD,
          fuel_limit   \* of every call

\* The evaluators over the tables t; what they neither read nor write is empty.
N(t) == INSTANCE Nft WITH
  balances <- t.balances, nfts <- t.nfts, pending_virtual_ops <- t.pending_virtual_ops,
  last_rc_charged <- 0, issued <- << >>, history <- << >>, collection_by_symbol <- << >>,
  next_collection_id <- 0, next_nft_id <- 0, Endowments <- {}, Hardforks <- {}, MaxTime <- 0,
  MaxPending <- 0, CollectionSymbols <- {}, MaxSupplies <- {}, TextLens <- {},
  MaxCollections <- 0, MaxNfts <- 0, MaxOperators <- 0

H(t) == INSTANCE Htlc WITH
  balances <- t.balances, htlcs <- t.htlcs, pending_virtual_ops <- t.pending_virtual_ops,
  last_rc_charged <- 0, issued <- << >>, next_htlc_id <- 0, Endowments <- {}, Hardforks <- {},
  MaxTime <- 0, MaxPending <- 0, AssetInputs <- {}, HashAlgos <- {}, SizeInputs <- {},
  MemoLens <- {}, HTLC_MIN_DURATION_SEC <- 0, HTLC_MAX_DURATION_SEC <- 0,
  HTLC_MAX_OPEN_PER_ACCOUNT <- 0, MaxHtlcs <- 0

C(t) == INSTANCE Contracts WITH
  balances <- t.balances, contract_storage <- t.contract_storage,
  pending_virtual_ops <- t.pending_virtual_ops, last_rc_charged <- 0, issued <- << >>,
  next_contract_id <- 0, last_call <- << >>, Endowments <- {}, Hardforks <- {}, MaxTime <- 0,
  MaxPending <- 0, FuelLimits <- {}, CodeLens <- {}, ArgLens <- {}, ExportLens <- {},
  MaxContracts <- 0

----------------------------------------------------------------------------
push_virtual(t, vop) == [t EXCEPT !.pending_virtual_ops = Append(@, vop)]

\* What apply_one makes of the tables, and whether it throws.
Transfer(t, op) ==
  IF N(t)!TransferAccepts(op.from, op.to, op.nft_id, 0)
  THEN [throws |-> FALSE,
        tables |-> push_virtual([t EXCEPT !.nfts[op.nft_id] = N(t)!Transferred(@, op.to)],
                                <<"nft_transferred", op.nft_id, t.nfts[op.nft_id].owner, op.to>>)]
  ELSE [throws |-> TRUE, tables |-> t]

Redeem(t, op) ==
  IF /\ H(t)!RedeemAccepts(op.to, op.htlc_id, op.preimage)
     /\ H(t)!CanAdjust(op.to, t.htlcs[op.htlc_id].amount.amount, t.htlcs[op.htlc_id].amount.symbol)
  THEN LET asset == t.htlcs[op.htlc_id].amount
       IN  [throws |-> FALSE,
            tables |-> push_virtual([t EXCEPT !.balances[op.to][asset.symbol] = @ + asset.amount,
                                              !.htlcs[op.htlc_id].status = "redeemed"],
                                    <<"htlc_redeemed", op.htlc_id, op.to>>)]
  ELSE [throws |-> TRUE, tables |-> t]

\* A call that fails in the engine is reported before it throws.
Call(t, op) ==
  LET res == C(t)!call(op.cmd, fuel_limit)
  IN  IF C(t)!CallAccepts([caller |-> op.caller, contract_id |-> op.contract_id, export_len |-> 4,
                           cmd |-> op.cmd, fuel_limit |-> fuel_limit])
      THEN [throws |-> ~res.success,
            tables |-> push_virtual([t EXCEPT !.contract_storage = C(t)!Committed(op.contract_id, res)],
                                    <<"contract_called", op.contract_id, res.success, res.fuel_used>>)]
      ELSE [throws |-> TRUE, tables |-> t]

apply_one(t, op) ==
  CASE op.kind = "nft_transfer"  -> Transfer(t, op)
    [] op.kind = "htlc_redeem"   -> Redeem(t, op)
    [] op.kind = "contract_call" -> Call(t, op)
    [] op.kind = "global"        -> [throws |-> FALSE, tables |-> push_virtual(t, <<"global_marker">>)]
=============================================================================
