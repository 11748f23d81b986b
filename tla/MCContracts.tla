---------------------------- MODULE MCContracts ----------------------------
\* Small instances of the contract evaluators and the plugin beside them.
EXTENDS ContractsPlugin

Key(n, t) == [len |-> n, tag |-> t]

\* One command per path of the engine, at and around its limits.
AllCommands ==
  {[do |-> d, len |-> 4] : d \in {"ok", "read", "bad_write", "other"}}
    \cup {[do |-> "burn", n |-> n, len |-> 8] : n \in {30, UINT64_MOD - 36}}
    \cup {[do |-> "deny", host |-> h, len |-> 9] : h \in {"transfer", "unknown"}}
    \cup {[do |-> "write", key |-> Key(1, "k"), val |-> Key(1, v), len |-> 10] : v \in {"v", "w"}}
    \cup {[do |-> "write", key |-> Key(257, "k"), val |-> Key(0, ""), len |-> 270],
          [do |-> "write", key |-> Key(0, ""), val |-> Key(4097, "v"), len |-> 4110]}

NoCoins == {[s \in Symbols |-> 0]}
============================================================================
