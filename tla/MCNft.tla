------------------------------- MODULE MCNft -------------------------------
(***************************************************************************)
(* Small instances of Nft for TLC.                                         *)
(***************************************************************************)
EXTENDS Nft, TLC

Gold   == [len |-> 4, tag |-> "GOLD"]
Silver == [len |-> 6, tag |-> "SILVER"]
Blank  == [len |-> 0, tag |-> ""]

AccountSymmetry == Permutations(Accounts)

NoCoins   == {[s \in Symbols |-> 0]}
OneSymbol == {Gold}
TwoSymbols == {Gold, Silver, Blank}
============================================================================
