---------------------------- MODULE AccountIndex ----------------------------
(***************************************************************************)
(* account_index: account lookups through account_cache (a flat_hash_map   *)
(* of balances by name) over the database.  A find that misses loads the   *)
(* cache, a create seeds it, an adjustment drops the entry.  The database  *)
(* stays reachable beside the index: the evaluators adjust balances there, *)
(* and whoever owns the index must drop the entry.  The hit and miss       *)
(* counters are left out.                                                  *)
(***************************************************************************)
EXTENDS Database, FlatHashMap, FiniteSets

CONSTANTS MIN_CAPACITY,  \* slots of a fresh cache, a power of two (at least 8 in the code)
          Deltas,        \* <<amount, symbol>>: the adjustments callers ask for
          MaxRecreated,  \* bound: accounts created again between two clears
          MaxBehind,     \* bound: accounts changed behind the cache at a time
          MaxBalance     \* bound: largest balance an adjustment reaches

ASSUME IndexAssumption ==
  /\ hash_of \in [Accounts -> Nat]
  /\ MIN_CAPACITY \in Nat /\ MIN_CAPACITY >= 4 /\ PowerOfTwo(MIN_CAPACITY)
  /\ Deltas \subseteq Int \X Symbols
  /\ {MaxRecreated, MaxBehind, MaxBalance} \subseteq Nat

VARIABLES cache, cache_enabled,
          recreated,  \* history: accounts created while they existed, since the last clear
          behind      \* history: accounts changed behind the cache and not refreshed since

indexVars == <<dbVars, cache, cache_enabled, recreated, behind>>

\* account_cache
Hit(name)        == Present(cache, name)
put(name, bal)   == insert(cache, name, bal)
invalidate(name) == erase(cache, name)

Cleared == cache' = clear(cache) /\ recreated' = {} /\ behind' = {}

\* The entry of the name is gone or fresh.
Refreshed(name) == behind' = behind \ {name}

----------------------------------------------------------------------------
SetCacheEnabled(on) ==
  /\ cache_enabled' = on
  /\ IF on THEN UNCHANGED <<cache, recreated, behind>> ELSE Cleared
  /\ UNCHANGED dbVars

ClearCache == Cleared /\ UNCHANGED <<dbVars, cache_enabled>>

Create(name, endowment) ==
  /\ account_exists(name) => name \notin recreated /\ Cardinality(recreated) < MaxRecreated
  /\ CreateAccount(name, endowment)
  /\ cache' = IF cache_enabled THEN put(name, endowment) ELSE cache
  /\ recreated' = IF cache_enabled /\ account_exists(name) THEN recreated \cup {name} ELSE recreated
  /\ Refreshed(name)
  /\ UNCHANGED cache_enabled

\* What find answers: the cached balances if there are any, else the database's.
Answer(name) == IF cache_enabled /\ Hit(name) THEN find(cache, name) ELSE balances[name]

\* Only a find of an existing account that misses changes anything.
Find(name) ==
  /\ cache_enabled /\ ~Hit(name)
  /\ account_exists(name)
  /\ cache' = put(name, balances[name])
  /\ Refreshed(name)
  /\ UNCHANGED <<dbVars, cache_enabled, recreated>>

\* Mutant: the entry survives the adjustment.
InvalidatedNot(name) == cache

Invalidated(name) == IF cache_enabled THEN invalidate(name) ELSE cache

\* database::adjust_balance; here the amount comes from outside the model.
DbAdjusts(name, delta, sym) ==
  /\ CanAdjust(name, delta, sym)
  /\ balances[name][sym] + delta <= MaxBalance
  /\ adjust_balance(name, delta, sym)
  /\ issued' = [issued EXCEPT ![sym] = @ + delta]
  /\ UNCHANGED <<head_time, config, pending_virtual_ops, last_rc_charged>>

AdjustBalance(name, delta, sym) ==
  /\ DbAdjusts(name, delta, sym)
  /\ cache' = Invalidated(name)
  /\ Refreshed(name)
  /\ UNCHANGED <<cache_enabled, recreated>>

\* An evaluator adjusts the balance in the database; the index is not told.
AdjustBehind(name, delta, sym) ==
  /\ Cardinality(behind) < MaxBehind
  /\ DbAdjusts(name, delta, sym)
  /\ behind' = IF cache_enabled THEN behind \cup {name} ELSE behind
  /\ UNCHANGED <<cache, cache_enabled, recreated>>

\* The owner of the index drops an entry: cache().invalidate(name).
Invalidate(name) ==
  /\ cache' = invalidate(name)
  /\ Refreshed(name)
  /\ UNCHANGED <<dbVars, cache_enabled, recreated>>

----------------------------------------------------------------------------
IndexInit ==
  /\ DbInit
  /\ cache = FreshTable(MIN_CAPACITY) /\ cache_enabled \in BOOLEAN
  /\ recreated = {} /\ behind = {}

IndexNext ==
  \/ \E on \in BOOLEAN : SetCacheEnabled(on)
  \/ ClearCache
  \/ \E a \in Accounts :
       \/ \E e \in Endowments : Create(a, e)
       \/ Find(a) \/ Invalidate(a)
       \/ \E d \in Deltas : AdjustBalance(a, d[1], d[2]) \/ AdjustBehind(a, d[1], d[2])

IndexSpec == IndexInit /\ [][IndexNext]_indexVars

----------------------------------------------------------------------------
Used == {i \in DOMAIN cache.slots : cache.slots[i].st = "full"}

\* What every operation of the map relies on: size_ counts the full slots, every
\* entry can be reached from its home slot, a walk of insert always finds a slot
\* to stop at, and a name sits in one slot.  Only an account created again while
\* it exists can get a second one: insert stops at a tombstone before the first.
MapWellFormed ==
  /\ cache.size = Cardinality(Used)
  /\ \A i \in Used : Hit(cache.slots[i].key)
  /\ cache.size < capacity(cache)
  /\ \A i, j \in Used : cache.slots[i].key = cache.slots[j].key
                          => i = j \/ cache.slots[i].key \in recreated

\* A lookup through the cache answers what the database holds, whatever was
\* created, adjusted, dropped or rehashed before.  The exceptions are the
\* accounts changed behind the cache and not dropped since, and the accounts
\* created again: neither spoils the answer for another account.
CacheCoherent ==
  \A a \in Accounts :
    /\ cache_enabled /\ Hit(a) => account_exists(a)
    /\ account_exists(a) /\ a \notin recreated \cup behind => Answer(a) = balances[a]
============================================================================
