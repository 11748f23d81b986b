----------------------------- MODULE KnownTxSet -----------------------------
(***************************************************************************)
(* The set of known transactions: a bloom filter in front of an exact set. *)
(* The hash functions are arbitrary.                                       *)
(***************************************************************************)
EXTENDS Integers

CONSTANTS Txids,
          Seeds,      \* the hash functions: one per seed
          Hash(_, _), \* seed, transaction id -> natural number
          bits,       \* size of the filter
          WordBits    \* bits per word of the filter: 64 in the code

ASSUME FilterAssumption ==
  /\ bits \in Nat \ {0} /\ WordBits \in Nat \ {0}
  /\ \A i \in Seeds, x \in Txids : Hash(i, x) \in Nat

VARIABLES data,   \* word -> the bits set in it
          exact   \* exact_

filterVars == <<data, exact>>

Words == 0..((bits + WordBits - 1) \div WordBits - 1)

\* The bit a hash selects, as a word and a place in it.
Cell(i, x) == [word |-> (Hash(i, x) % bits) \div WordBits, bit |-> (Hash(i, x) % bits) % WordBits]

Empty == [w \in Words |-> {}]

\* Mutant: only the bits that fall in the first word are set.
bloom_add_partial(d, x) ==
  [w \in Words |-> d[w] \cup {Cell(i, x).bit : i \in {j \in Seeds : Cell(j, x).word = w /\ w = 0}}]

bloom_add(d, x) ==
  [w \in Words |-> d[w] \cup {Cell(i, x).bit : i \in {j \in Seeds : Cell(j, x).word = w}}]

maybe_seen(x) == \A i \in Seeds : Cell(i, x).bit \in data[Cell(i, x).word]

definitely_seen(x) == x \in exact

Add(x) ==
  /\ exact' = exact \cup {x}
  /\ data' = IF x \in exact THEN data ELSE bloom_add(data, x)

\* Mutant: clear leaves the filter as it is.
ClearExact == exact' = {} /\ UNCHANGED data

Clear == data' = Empty /\ exact' = {}

FilterInit == data = Empty /\ exact = {}

FilterNext == (\E x \in Txids : Add(x)) \/ Clear

FilterSpec == FilterInit /\ [][FilterNext]_filterVars

----------------------------------------------------------------------------
\* Types of the filter and of the set; every index is inside the words.
FilterTypeOK ==
  /\ data \in [Words -> SUBSET (0..(WordBits - 1))]
  /\ exact \subseteq Txids

\* The filter has no false negatives: what the exact set holds, maybe_seen
\* admits, so a caller may stop at a negative answer of the filter.
NoFalseNegatives == \A x \in Txids : definitely_seen(x) => maybe_seen(x)

\* A bit is set only on behalf of a transaction that is in the exact set: a
\* false positive comes from a collision of hashes, never from the past.
BitsExplained ==
  \A w \in Words : \A b \in data[w] :
    \E x \in exact, i \in Seeds : Cell(i, x) = [word |-> w, bit |-> b]

FilterInv == FilterTypeOK /\ NoFalseNegatives /\ BitsExplained
============================================================================
