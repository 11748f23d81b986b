--------------------------- MODULE ApplyScheduler ---------------------------
(***************************************************************************)
(* The apply scheduler: it classifies the operations of a block by what    *)
(* they touch, places each in the first layer it does not conflict with,   *)
(* and applies the layers one after the other.  Here the effect of an      *)
(* operation is abstracted to the order in which operations apply; module  *)
(* BlockApply runs the evaluators.                                         *)
(***************************************************************************)
EXTENDS Integers, Sequences

CONSTANTS Accounts, NftIds, HtlcIds, ContractIds,
          Preimages, Commands,  \* what a redeem reveals and a call asks for
          MaxOps   \* bound: operations in a block

ASSUME MaxOpsAssumption == MaxOps \in Nat

VARIABLES block,    \* the operations, in block order
          planned,  \* how many of them are placed in layers
          layers,   \* sequence of layers, each a sequence of indices of block
          at,       \* the layer and the position of the next operation to apply
          applied,  \* indices of block in the order of application
          status

vars == <<block, planned, layers, at, applied, status>>

scheduled_op ==
  [kind: {"nft_transfer"}, from: Accounts, to: Accounts, nft_id: NftIds]
    \cup [kind: {"htlc_redeem"}, to: Accounts, htlc_id: HtlcIds, preimage: Preimages]
    \cup [kind: {"contract_call"}, caller: Accounts, contract_id: ContractIds, cmd: Commands]
    \cup [kind: {"global"}]

Blocks == UNION {[1..n -> scheduled_op] : n \in 0..MaxOps}

----------------------------------------------------------------------------
\* Mutant: calls are keyed by their caller only.
classify_caller(op) ==
  CASE op.kind = "nft_transfer"  -> {<<"account", op.from>>, <<"account", op.to>>, <<"nft", op.nft_id>>}
    [] op.kind = "htlc_redeem"   -> {<<"account", op.to>>, <<"htlc", op.htlc_id>>}
    [] op.kind = "contract_call" -> {<<"account", op.caller>>}
    [] op.kind = "global"        -> {}

\* classify_*: the accounts and objects an operation touches, as tagged keys.
classify(op) ==
  CASE op.kind = "nft_transfer"  -> {<<"account", op.from>>, <<"account", op.to>>, <<"nft", op.nft_id>>}
    [] op.kind = "htlc_redeem"   -> {<<"account", op.to>>, <<"htlc", op.htlc_id>>}
    [] op.kind = "contract_call" -> {<<"account", op.caller>>, <<"contract", op.contract_id>>}
    [] op.kind = "global"        -> {}

Touch(i)  == classify(block[i])
Global(i) == block[i].kind = "global"

Members(L)        == {layers[L][k] : k \in DOMAIN layers[L]}
layer_accounts(L) == UNION {Touch(i) : i \in Members(L)}
layer_global(L)   == \E i \in Members(L) : Global(i)

\* Mutant: only the accounts of the layer's last operation are remembered.
FitsLast(i, L) ==
  /\ ~Global(i) /\ ~layer_global(L)
  /\ Touch(i) \cap Touch(layers[L][Len(layers[L])]) = {}

\* Mutant: a global operation goes where its (empty) account set fits.
FitsGlobalAnywhere(i, L) == ~layer_global(L) /\ Touch(i) \cap layer_accounts(L) = {}

Fits(i, L) ==
  /\ ~Global(i) /\ ~layer_global(L)
  /\ Touch(i) \cap layer_accounts(L) = {}

\* One round of build_parallel_schedule: the next operation goes to the end of
\* the first layer it fits, or to a new layer.
Place ==
  /\ status = "plan" /\ planned < Len(block)
  /\ planned' = planned + 1
  /\ \/ \E L \in DOMAIN layers :
          /\ Fits(planned + 1, L)
          /\ \A K \in 1..(L - 1) : ~Fits(planned + 1, K)
          /\ layers' = [layers EXCEPT ![L] = Append(@, planned + 1)]
     \/ /\ \A L \in DOMAIN layers : ~Fits(planned + 1, L)
        /\ layers' = Append(layers, <<planned + 1>>)
  /\ UNCHANGED <<block, at, applied, status>>

\* Every operation is placed: apply_scheduled starts on the first layer, or
\* returns at once for an empty block.
Planned ==
  /\ status = "plan" /\ planned = Len(block)
  /\ status' = IF block = << >> THEN "done" ELSE "apply"
  /\ UNCHANGED <<block, planned, layers, at, applied>>

Current == layers[at.layer][at.pos]

\* Mutant: the last operation of a layer is skipped.
HasMoreShort == at.pos < Len(layers[at.layer]) - 1

\* Is there another operation in the layer being applied?
HasMore == at.pos < Len(layers[at.layer])

\* apply_one accepts the operation.
ApplyOne ==
  /\ status = "apply"
  /\ applied' = Append(applied, Current)
  /\ at' = IF HasMore THEN [at EXCEPT !.pos = @ + 1] ELSE [layer |-> at.layer + 1, pos |-> 1]
  /\ status' = IF HasMore \/ at.layer < Len(layers) THEN "apply" ELSE "done"
  /\ UNCHANGED <<block, planned, layers>>

\* An evaluator refuses the operation: the exception leaves apply_scheduled,
\* and what was applied stays applied.
Throw ==
  /\ status = "apply"
  /\ status' = "threw"
  /\ UNCHANGED <<block, planned, layers, at, applied>>

----------------------------------------------------------------------------
Init ==
  /\ block \in Blocks
  /\ planned = 0 /\ layers = << >> /\ at = [layer |-> 1, pos |-> 1] /\ applied = << >>
  /\ status = "plan"

Next == Place \/ Planned \/ ApplyOne \/ Throw

Spec == Init /\ [][Next]_vars

----------------------------------------------------------------------------
Conflict(i, j) == Global(i) \/ Global(j) \/ Touch(i) \cap Touch(j) # {}

\* Operations of one layer may run concurrently: no two of them touch a common
\* account or object, and a global operation has its layer to itself.
LayersIndependent ==
  \A L \in DOMAIN layers : \A i, j \in Members(L) : i # j => ~Conflict(i, j)

AppliedBefore(k, i) == \E m \in 1..(k - 1) : applied[m] = i

\* Scheduling neither drops nor repeats an operation.
EachOpOnce ==
  /\ \A k \in DOMAIN applied : ~AppliedBefore(k, applied[k])
  /\ status = "done" => \A i \in DOMAIN block : \E k \in DOMAIN applied : applied[k] = i

\* j touches whatever i touches; a global operation touches everything.
Covers(j, i) == Global(j) \/ (~Global(i) /\ Touch(i) \subseteq Touch(j))

\* The order the schedule does keep: an operation never overtakes an earlier
\* one whose accounts and objects it all touches, and a global operation
\* overtakes nothing.
CoveredOrderKept ==
  \A k \in DOMAIN applied : \A i \in 1..(applied[k] - 1) :
    Covers(applied[k], i) => AppliedBefore(k, i)

\* No operation is in a layer in front of an earlier one it conflicts with.
ConflictsInOrder ==
  \A K, L \in DOMAIN layers : K < L =>
    \A i \in Members(K), j \in Members(L) : Conflict(i, j) => i < j

\* What the comment on apply_scheduled promises, "preserve causal order across
\* conflicts": an operation applies after every earlier one it conflicts with.
CausalOrderKept ==
  \A k \in DOMAIN applied : \A i \in 1..(applied[k] - 1) :
    Conflict(i, applied[k]) => AppliedBefore(k, i)
============================================================================
