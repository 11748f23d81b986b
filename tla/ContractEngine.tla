--------------------------- MODULE ContractEngine ---------------------------
(***************************************************************************)
(* The metered null engine.  A call decodes its arguments into a command;  *)
(* the model starts from the decoded command, which also carries the       *)
(* length of the argument bytes.  Fuel is a uint64_t and wraps.            *)
(***************************************************************************)
EXTENDS Integers

CONSTANT UINT64_MOD   \* 2^64

ASSUME ModAssumption == UINT64_MOD \in Nat \ {0}

max_storage_key   == 256
max_storage_value == 4096

\* Arguments that are no number after BURN: make std::stoull throw, which
\* leaves everything alone; they are no command.
Command ==
  [do: {"ok", "read", "bad_write", "other"}, len: Nat]
    \cup [do: {"burn"}, n: 0..(UINT64_MOD - 1), len: Nat]
    \cup [do: {"deny"}, host: {"transfer", "unknown"}, len: Nat]
    \cup [do: {"write"}, key: [len: Nat, tag: STRING], val: [len: Nat, tag: STRING], len: Nat]

host_allowed(f) == f \notin {"transfer", "net", "fs", "random", "wall_clock"}

host_fuel_weight(f, bytes) ==
  CASE f = "read_storage"  -> 50 + bytes
    [] f = "write_storage" -> 200 + bytes * 2

----------------------------------------------------------------------------
\* Mutant: the limit is compared before the amount is added.
burn_late(used, limit, amount) ==
  IF used > limit THEN [ok |-> FALSE, fuel |-> limit]
                  ELSE [ok |-> TRUE, fuel |-> (used + amount) % UINT64_MOD]

\* The sum is a uint64_t.
burn(used, limit, amount) ==
  LET sum == (used + amount) % UINT64_MOD
  IN  IF sum > limit THEN [ok |-> FALSE, fuel |-> limit] ELSE [ok |-> TRUE, fuel |-> sum]

BaseFuel == 50

\* What a command burns after the base fuel.
Weight(cmd) ==
  CASE cmd.do = "burn"  -> cmd.n
    [] cmd.do = "read"  -> host_fuel_weight("read_storage", 0)
    [] cmd.do = "write" -> host_fuel_weight("write_storage", cmd.val.len)
    [] cmd.do = "other" -> 20 + cmd.len
    [] cmd.do \in {"ok", "deny", "bad_write"} -> 0

\* Mutant: sizes are not checked.
RefusedUnsized(cmd) == cmd.do \in {"deny", "bad_write"}

\* Commands that fail once the base fuel is burned: a denied or unknown host, a
\* write without a value, a key or value that is too long.
Refused(cmd) ==
  \/ cmd.do = "deny" /\ (cmd.host = "transfer" => ~host_allowed("transfer"))
  \/ cmd.do = "bad_write"
  \/ cmd.do = "write" /\ (cmd.key.len > max_storage_key \/ cmd.val.len > max_storage_value)

NoWrites == [k \in {} |-> 0]

Failed(fuel) == [success |-> FALSE, fuel_used |-> fuel, storage_writes |-> NoWrites]

\* A write is staged only once it is paid for.
call(cmd, limit) ==
  LET base == burn(0, limit, BaseFuel)
      full == burn(base.fuel, limit, Weight(cmd))
  IN  IF ~base.ok \/ Refused(cmd) THEN Failed(base.fuel)
      ELSE IF ~full.ok THEN Failed(full.fuel)
      ELSE [success |-> TRUE, fuel_used |-> full.fuel,
            storage_writes |-> IF cmd.do = "write" THEN [k \in {cmd.key} |-> cmd.val] ELSE NoWrites]

deploy_and_init(code_len, limit) ==
  code_len > 0 /\ burn(0, limit, 100 + code_len \div 64).ok
============================================================================
