---------------------------- MODULE FlatHashMap ----------------------------
(***************************************************************************)
(* The open-addressing map flat_hash_map: linear probing, tombstones, and  *)
(* doubling at 70% load.  A table is a record of the slots and size_; the  *)
(* operations are operators on tables.  A tombstone or an empty slot keeps *)
(* no key that any operation looks at.                                     *)
(***************************************************************************)
EXTENDS Integers, Sequences

CONSTANT hash_of  \* key -> its hash

EmptySlot == [st |-> "empty"]
TombSlot  == [st |-> "tomb"]
FullSlot(key, value) == [st |-> "full", key |-> key, value |-> value]

Holds(slot, key) == slot.st = "full" /\ slot.key = key

capacity(t) == Len(t.slots)

\* The slot at distance d from a key's home, wrapping round.
Probe(t, key, d) == ((hash_of[key] + d) % capacity(t)) + 1

SlotAt(t, key, d) == t.slots[Probe(t, key, d)]

\* A walk from the key's home passes every slot once, in the order of distance.
Walk(t) == 0..(capacity(t) - 1)

\* Where a walk that may end at the distances in stops does end: the set of that
\* one distance, empty if the walk goes all the way round.
FirstStop(stops) == {d \in stops : \A e \in stops : d <= e}

\* The distance of the slot that holds the key: the walk ends at an empty slot.
Lookup(t, key) ==
  LET Ends(s) == s.st = "empty" \/ Holds(s, key)
  IN  {d \in FirstStop({w \in Walk(t) : Ends(SlotAt(t, key, w))}) : Holds(SlotAt(t, key, d), key)}

Present(t, key) == Lookup(t, key) # {}

find(t, key) == SlotAt(t, key, CHOOSE d \in Lookup(t, key) : TRUE).value

----------------------------------------------------------------------------
\* Every divisor but 1 is even.
PowerOfTwo(c) == \A d \in 1..c : c % d = 0 => d = 1 \/ d % 2 = 0

\* The doubling from 1 ends at the first power of two that is not below n.
FreshTable(n) ==
  [slots |-> [i \in 1..(CHOOSE c \in n..(2 * n - 1) : PowerOfTwo(c)) |-> EmptySlot],
   size  |-> 0]

\* The walk of insert stops at the first slot it may use, a tombstone included;
\* the key further along the walk is not looked for.
Place(t, key, value) ==
  LET Usable(s) == s.st # "full" \/ Holds(s, key)
      d == CHOOSE d \in FirstStop({w \in Walk(t) : Usable(SlotAt(t, key, w))}) : TRUE
  IN  [slots |-> [t.slots EXCEPT ![Probe(t, key, d)] = FullSlot(key, value)],
       size  |-> IF Holds(SlotAt(t, key, d), key) THEN t.size ELSE t.size + 1]

Crowded(t) == t.size * 10 >= capacity(t) * 7

\* The table after the first i old slots went in, at i = capacity the new table.
\* It has room for them all: an insert of rehash never finds it crowded.
rehash(t, n) ==
  LET moved[i \in 0..capacity(t)] ==
        IF i = 0 THEN FreshTable(n)
        ELSE IF t.slots[i].st = "full"
        THEN Place(moved[i - 1], t.slots[i].key, t.slots[i].value)
        ELSE moved[i - 1]
  IN  moved[capacity(t)]

insert(t, key, value) ==
  Place(IF Crowded(t) THEN rehash(t, capacity(t) * 2) ELSE t, key, value)

\* Mutant: an erased slot becomes empty and cuts the walks that pass it.
ErasedSlotEmpty == EmptySlot

ErasedSlot == TombSlot

erase(t, key) ==
  IF Present(t, key)
  THEN [slots |-> [t.slots EXCEPT ![Probe(t, key, CHOOSE d \in Lookup(t, key) : TRUE)] = ErasedSlot],
        size  |-> t.size - 1]
  ELSE t

clear(t) == [slots |-> [i \in DOMAIN t.slots |-> EmptySlot], size |-> 0]
============================================================================
