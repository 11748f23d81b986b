------------------------------- MODULE MCHtlc -------------------------------
(***************************************************************************)
(* Small instances of Htlc for TLC.                                        *)
(***************************************************************************)
EXTENDS Htlc

Key1 == [len |-> 1, tag |-> "x"]
Key2 == [len |-> 2, tag |-> "y"]

Coins(hive, hbd) == [s \in Symbols |-> IF s = "HIVE" THEN hive ELSE hbd]
Hive(n) == [amount |-> n, symbol |-> "HIVE"]
Hbd(n)  == [amount |-> n, symbol |-> "HBD"]

\* Two currencies, an amount of zero, senders that can run dry.
MoneyEndowments == {Coins(1, 2)}
SwapAssets      == {Hive(0), Hbd(2)}

\* Two preimages of different lengths.
TwoKeys == {Key1, Key2}
============================================================================
