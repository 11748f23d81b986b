----------------------------- MODULE PerfProofs -----------------------------
(***************************************************************************)
(* The containers and codecs of the perf library, each on its own: undo,   *)
(* the known-transaction set, the arena and compact blocks.  Every part    *)
(* has its specification, its inductive invariant and its theorems.        *)
(***************************************************************************)
EXTENDS SelectiveUndo, KnownTxSet, Arena, CompactBlock,
        FiniteSetTheorems, WellFoundedInduction, TLAPS

\* A set of naturals that is not empty has a least element.
LEMMA LeastOf ==
  ASSUME NEW S \in SUBSET Nat, S # {}
  PROVE  \E i \in S : \A j \in S : i <= j
<1>1. PICK i \in S : \A j \in S : ~(<<j, i>> \in OpToRel(<, Nat))
  BY NatLessThanWellFounded, WFMin, Zenon
<1>2. \A j \in S : ~(j < i)
  BY <1>1, Zenon DEF OpToRel
<1> QED
  BY <1>2

----------------------------------------------------------------------------
(***************************************************************************)
(* Selective undo: rollback restores, for any accounts, amounts and length *)
(* of a session.                                                           *)
(***************************************************************************)
\* The record that rollback writes last is the oldest one of the account.
LEMMA OldestRecord ==
  ASSUME TypeOK, NEW a, RecordsOf(a) # {}
  PROVE  /\ LastWritten(a) \in RecordsOf(a)
         /\ \A j \in RecordsOf(a) : LastWritten(a) <= j
<1>1. RecordsOf(a) \in SUBSET Nat
  BY DEF RecordsOf, TypeOK
<1>2. \E i \in RecordsOf(a) : \A j \in RecordsOf(a) : i <= j
  BY <1>1, LeastOf
<1> QED
  BY <1>2 DEF LastWritten

\* A new record changes nothing for an account that already has one, and is
\* the one that counts for an account that has none.
LEMMA PushKeepsOldest ==
  ASSUME TypeOK, TypeOK', NEW r \in [account: Accounts, old: Amounts],
         stack' = Append(stack, r), NEW a
  PROVE  /\ RecordsOf(a) # {} =>
              RecordsOf(a)' # {} /\ stack'[LastWritten(a)'].old = stack[LastWritten(a)].old
         /\ RecordsOf(a) = {} /\ a = r.account =>
              RecordsOf(a)' # {} /\ stack'[LastWritten(a)'].old = r.old
         /\ RecordsOf(a) = {} /\ a # r.account => RecordsOf(a)' = {}
<1> DEFINE n == Len(stack)
<1>1. /\ n \in Nat /\ DOMAIN stack = 1..n /\ DOMAIN stack' = 1..(n + 1)
      /\ \A i \in 1..n : stack'[i] = stack[i]
      /\ stack'[n + 1] = r
  BY DEF TypeOK
<1> HIDE DEF n
<1>2. RecordsOf(a)' = RecordsOf(a) \cup (IF r.account = a THEN {n + 1} ELSE {})
  <2>1. RecordsOf(a)' = {i \in 1..(n + 1) : stack'[i].account = a}
    BY <1>1 DEF RecordsOf
  <2>2. RecordsOf(a) = {i \in 1..n : stack[i].account = a}
    BY <1>1 DEF RecordsOf
  <2>3. \A i : i \in 1..(n + 1) <=> i \in 1..n \/ i = n + 1
    BY <1>1
  <2> QED
    BY <2>1, <2>2, <2>3, <1>1
<1>3. RecordsOf(a) \subseteq 1..n
  BY <1>1 DEF RecordsOf
<1>4. RecordsOf(a)' # {} => /\ LastWritten(a)' \in RecordsOf(a)'
                            /\ \A j \in RecordsOf(a)' : LastWritten(a)' <= j
  <2>1. RecordsOf(a)' \in SUBSET Nat
    BY <1>1, <1>2, <1>3
  <2>2. RecordsOf(a)' # {} => \E i \in RecordsOf(a)' : \A j \in RecordsOf(a)' : i <= j
    BY <2>1, LeastOf
  <2> QED
    BY <2>2 DEF LastWritten
<1>5. CASE RecordsOf(a) # {}
  <2>1. /\ LastWritten(a) \in RecordsOf(a)
        /\ \A j \in RecordsOf(a) : LastWritten(a) <= j
    BY <1>5, OldestRecord
  <2>2. LastWritten(a)' = LastWritten(a)
    BY <2>1, <1>1, <1>2, <1>3, <1>4
  <2> QED
    BY <2>1, <2>2, <1>1, <1>2, <1>3, <1>5
<1>6. CASE RecordsOf(a) = {}
  BY <1>6, <1>1, <1>2, <1>4
<1> QED
  BY <1>5, <1>6, Zenon

\* A session that begins has nothing to undo.
LEMMA FreshSession ==
  ASSUME stack = << >>
  PROVE  \A a : RecordsOf(a) = {}
BY DEF RecordsOf

\* What Get returns are amounts.
LEMMA GetAmounts ==
  ASSUME TypeOK, NEW a
  PROVE  Get(a) \in Amounts
BY DEF TypeOK, Get, Zero, Amounts

\* Deltas lead from amounts to amounts.
LEMMA MovedAmounts ==
  ASSUME NEW b \in Amounts, NEW d \in Deltas
  PROVE  Moved(b, d) \in Amounts
BY UndoAssumption DEF Moved, Amounts

\* Set puts one account and keeps the others.
LEMMA SetPuts ==
  ASSUME TypeOK, NEW a \in Accounts, NEW b \in Amounts
  PROVE  /\ DOMAIN Set(a, b) = DOMAIN balances \cup {a}
         /\ Set(a, b) \in [DOMAIN Set(a, b) -> Amounts]
         /\ Set(a, b)[a] = b
         /\ \A x \in DOMAIN balances : x # a => Set(a, b)[x] = balances[x]
BY DEF Set, TypeOK

\* The map a rollback leaves is well typed.
LEMMA UndoneAmounts ==
  ASSUME TypeOK
  PROVE  /\ DOMAIN Undone = DOMAIN balances
         /\ Undone \in [DOMAIN balances -> Amounts]
<1>1. ASSUME NEW a \in DOMAIN balances
      PROVE  (IF RecordsOf(a) = {} THEN balances[a] ELSE stack[LastWritten(a)].old) \in Amounts
  <2>1. CASE RecordsOf(a) = {}
    BY <2>1 DEF TypeOK
  <2>2. CASE RecordsOf(a) # {}
    <3>1. LastWritten(a) \in DOMAIN stack
      BY <2>2, OldestRecord DEF RecordsOf
    <3>2. PICK R : R = [account: Accounts, old: Amounts] /\ stack \in Seq(R)
      BY Zenon DEF TypeOK
    <3>3. LastWritten(a) \in 1..Len(stack)
      BY <3>1, <3>2
    <3>4. stack[LastWritten(a)] \in R
      <4>1. PICK s, i : s = stack /\ i = LastWritten(a)
        BY Zenon
      <4>2. s \in Seq(R) /\ i \in 1..Len(s)
        BY <3>2, <3>3, <4>1, Zenon
      <4>3. s[i] \in R
        BY <4>2
      <4> QED
        BY <4>1, <4>3, Zenon
    <3> QED
      BY <3>2, <3>4, <2>2
  <2> QED
    BY <2>1, <2>2
<1> QED
  BY <1>1 DEF Undone

\* What rollback would give to account a in the next state.
LEMMA UndoneAt ==
  ASSUME NEW a \in DOMAIN balances
  PROVE  Undone[a] = IF RecordsOf(a) = {} THEN balances[a] ELSE stack[LastWritten(a)].old
BY DEF Undone

\* An adjustment keeps what a rollback would restore.
LEMMA AdjustKeeps ==
  ASSUME UndoInv, NEW a \in Accounts, NEW d \in Deltas, Adjust(a, d)
  PROVE  UndoInv'
<1> DEFINE b == Moved(Get(a), d)
<1>0. TypeOK /\ RollbackRestores
  BY DEF UndoInv
<1>1. Get(a) \in Amounts /\ b \in Amounts
  BY <1>0, GetAmounts, MovedAmounts
<1>2. /\ balances' = Set(a, b) /\ base' = base
      /\ stack' = Append(stack, [account |-> a, old |-> Get(a)])
  BY DEF Adjust, Recorded
<1> HIDE DEF b
<1>3. /\ DOMAIN balances' = DOMAIN balances \cup {a}
      /\ balances' \in [DOMAIN balances' -> Amounts]
      /\ \A x \in DOMAIN balances : x # a => balances'[x] = balances[x]
  BY <1>0, <1>1, <1>2, SetPuts, Zenon
<1>4. TypeOK'
  <2>1. stack' \in Seq([account: Accounts, old: Amounts])
    BY <1>0, <1>1, <1>2 DEF TypeOK
  <2> QED
    BY <2>1, <1>0, <1>2, <1>3 DEF TypeOK
<1>5. RollbackRestores'
  <2> SUFFICES ASSUME NEW x \in DOMAIN balances'
               PROVE  Undone'[x] = IF x \in DOMAIN base THEN base[x] ELSE Zero
    BY <1>2 DEF RollbackRestores
  <2>1. Undone'[x] = IF RecordsOf(x)' = {} THEN balances'[x] ELSE stack'[LastWritten(x)'].old
    BY DEF Undone
  <2>2. PICK r \in [account: Accounts, old: Amounts] :
          r = [account |-> a, old |-> Get(a)] /\ stack' = Append(stack, r)
    BY <1>1, <1>2
  <2>3. /\ RecordsOf(x) # {} =>
              RecordsOf(x)' # {} /\ stack'[LastWritten(x)'].old = stack[LastWritten(x)].old
        /\ RecordsOf(x) = {} /\ x = r.account =>
              RecordsOf(x)' # {} /\ stack'[LastWritten(x)'].old = r.old
        /\ RecordsOf(x) = {} /\ x # r.account => RecordsOf(x)' = {}
    BY <2>2, <1>0, <1>4, PushKeepsOldest, Zenon
  <2>4. CASE x \in DOMAIN balances
    <3>1. /\ Undone[x] = IF x \in DOMAIN base THEN base[x] ELSE Zero
          /\ Undone[x] = IF RecordsOf(x) = {} THEN balances[x] ELSE stack[LastWritten(x)].old
      BY <2>4, <1>0, UndoneAt DEF RollbackRestores
    <3> QED
      BY <3>1, <2>1, <2>2, <2>3, <2>4, <1>3, Zenon DEF Get
  <2>5. CASE x \notin DOMAIN balances
    <3>1. x = a /\ x \notin DOMAIN base /\ Get(x) = Zero
      BY <2>5, <1>0, <1>3 DEF TypeOK, Get
    <3>2. stack'[LastWritten(x)'].old = Zero /\ RecordsOf(x)' # {}
      <4>1. RecordsOf(x) = {}
        BY <2>5 DEF UndoInv, RecordsOf
      <4> QED
        BY <4>1, <3>1, <2>2, <2>3, Zenon
    <3> QED
      BY <3>1, <3>2, <2>1
  <2> QED
    BY <2>4, <2>5
<1>6. \A i \in DOMAIN stack' : stack'[i].account \in DOMAIN balances'
  <2>1. \A i \in DOMAIN stack' : \/ i \in DOMAIN stack /\ stack'[i] = stack[i]
                                \/ stack'[i] = [account |-> a, old |-> Get(a)]
    BY <1>0, <1>2 DEF TypeOK
  <2> QED
    BY <2>1, <1>3 DEF UndoInv
<1> QED
  BY <1>4, <1>5, <1>6 DEF UndoInv

\* Pushing the present fields of an account keeps what a rollback would restore.
LEMMA PushKeeps ==
  ASSUME UndoInv, NEW a \in Accounts, PushBalanceChange(a)
  PROVE  UndoInv'
<1>0. TypeOK /\ RollbackRestores
  BY DEF UndoInv
<1>1. /\ balances' = balances /\ base' = base /\ a \in DOMAIN balances
      /\ stack' = Append(stack, [account |-> a, old |-> balances[a]])
  BY DEF PushBalanceChange
<1>2. balances[a] \in Amounts
  BY <1>0, <1>1 DEF TypeOK
<1>3. TypeOK'
  <2>1. stack' \in Seq([account: Accounts, old: Amounts])
    BY <1>0, <1>1, <1>2 DEF TypeOK
  <2> QED
    BY <2>1, <1>0, <1>1 DEF TypeOK
<1>4. RollbackRestores'
  <2> SUFFICES ASSUME NEW x \in DOMAIN balances
               PROVE  Undone'[x] = IF x \in DOMAIN base THEN base[x] ELSE Zero
    BY <1>1 DEF RollbackRestores
  <2>1. Undone'[x] = IF RecordsOf(x)' = {} THEN balances[x] ELSE stack'[LastWritten(x)'].old
    BY <1>1, Zenon DEF Undone
  <2>2. PICK r \in [account: Accounts, old: Amounts] :
          r = [account |-> a, old |-> balances[a]] /\ stack' = Append(stack, r)
    BY <1>1, <1>2
  <2>3. /\ RecordsOf(x) # {} =>
              RecordsOf(x)' # {} /\ stack'[LastWritten(x)'].old = stack[LastWritten(x)].old
        /\ RecordsOf(x) = {} /\ x = r.account =>
              RecordsOf(x)' # {} /\ stack'[LastWritten(x)'].old = r.old
        /\ RecordsOf(x) = {} /\ x # r.account => RecordsOf(x)' = {}
    BY <2>2, <1>0, <1>3, PushKeepsOldest, Zenon
  <2>4. /\ Undone[x] = IF x \in DOMAIN base THEN base[x] ELSE Zero
        /\ Undone[x] = IF RecordsOf(x) = {} THEN balances[x] ELSE stack[LastWritten(x)].old
    BY <1>0, UndoneAt DEF RollbackRestores
  <2> QED
    BY <2>1, <2>2, <2>3, <2>4, Zenon
<1>5. \A i \in DOMAIN stack' : stack'[i].account \in DOMAIN balances'
  <2>1. \A i \in DOMAIN stack' : \/ i \in DOMAIN stack /\ stack'[i] = stack[i]
                                \/ stack'[i] = [account |-> a, old |-> balances[a]]
    BY <1>0, <1>1 DEF TypeOK
  <2> QED
    BY <2>1, <1>1 DEF UndoInv
<1> QED
  BY <1>3, <1>4, <1>5 DEF UndoInv

\* A direct write touches only an account whose oldest record is kept.
LEMMA WriteKeeps ==
  ASSUME UndoInv, NEW a \in Accounts, NEW d \in Deltas, Write(a, d)
  PROVE  UndoInv'
<1> DEFINE b == Moved(Get(a), d)
<1>0. TypeOK /\ RollbackRestores
  BY DEF UndoInv
<1>1. b \in Amounts
  BY <1>0, GetAmounts, MovedAmounts
<1>2. balances' = Set(a, b) /\ base' = base /\ stack' = stack /\ RecordsOf(a) # {}
  BY DEF Write
<1>3. a \in DOMAIN balances
  BY <1>2 DEF UndoInv, RecordsOf
<1> HIDE DEF b
<1>4. /\ DOMAIN balances' = DOMAIN balances
      /\ balances' \in [DOMAIN balances' -> Amounts]
      /\ \A x \in DOMAIN balances : x # a => balances'[x] = balances[x]
  <2>1. /\ DOMAIN Set(a, b) = DOMAIN balances \cup {a}
        /\ Set(a, b) \in [DOMAIN Set(a, b) -> Amounts]
        /\ \A x \in DOMAIN balances : x # a => Set(a, b)[x] = balances[x]
    BY <1>0, <1>1, SetPuts
  <2> QED
    BY <2>1, <1>2, <1>3
<1>5. TypeOK'
  BY <1>0, <1>2, <1>4 DEF TypeOK
<1>6. RollbackRestores'
  <2> SUFFICES ASSUME NEW x \in DOMAIN balances
               PROVE  Undone'[x] = IF x \in DOMAIN base THEN base[x] ELSE Zero
    BY <1>2, <1>4 DEF RollbackRestores
  <2>1. RecordsOf(x)' = RecordsOf(x) /\ LastWritten(x)' = LastWritten(x)
    BY <1>2 DEF RecordsOf, LastWritten
  <2>2. Undone'[x] = IF RecordsOf(x) = {} THEN balances'[x] ELSE stack[LastWritten(x)].old
    BY <2>1, <1>2, <1>4 DEF Undone
  <2>3. /\ Undone[x] = IF x \in DOMAIN base THEN base[x] ELSE Zero
        /\ Undone[x] = IF RecordsOf(x) = {} THEN balances[x] ELSE stack[LastWritten(x)].old
    BY <1>0, UndoneAt DEF RollbackRestores
  <2> QED
    BY <2>2, <2>3, <1>2, <1>4
<1> QED
  BY <1>2, <1>4, <1>5, <1>6 DEF UndoInv

\* A new session, on any map, has nothing to undo.
LEMMA FreshInv ==
  ASSUME DOMAIN balances \subseteq Accounts, balances \in [DOMAIN balances -> Amounts],
         stack = << >>, base = balances
  PROVE  UndoInv
<1>1. \A a : RecordsOf(a) = {}
  BY FreshSession
<1>2. RollbackRestores
  BY <1>1 DEF RollbackRestores, Undone
<1>3. TypeOK
  BY DEF TypeOK
<1> QED
  BY <1>2, <1>3 DEF UndoInv

\* The same after a step that begins a session.
LEMMA FreshInvNext ==
  ASSUME (DOMAIN balances)' \subseteq Accounts, balances' \in [(DOMAIN balances)' -> Amounts],
         stack' = << >>, base' = balances'
  PROVE  UndoInv'
<1>1. \A a : RecordsOf(a)' = {}
  BY DEF RecordsOf
<1>2. RollbackRestores'
  BY <1>1 DEF RollbackRestores, Undone
<1>3. TypeOK'
  BY DEF TypeOK
<1> QED
  BY <1>2, <1>3 DEF UndoInv

\* Every step preserves the invariant.
LEMMA StepKeeps == UndoInv /\ [Next]_vars => UndoInv'
<1> SUFFICES ASSUME UndoInv, [Next]_vars
             PROVE  UndoInv'
  OBVIOUS
<1>0. TypeOK
  BY DEF UndoInv
<1>1. CASE Rollback
  <2>1. DOMAIN balances' = DOMAIN balances /\ balances' \in [DOMAIN balances -> Amounts]
    BY <1>0, <1>1, UndoneAmounts DEF Rollback
  <2>2. stack' = << >> /\ base' = balances' /\ DOMAIN balances \subseteq Accounts
    BY <1>0, <1>1 DEF Rollback, TypeOK
  <2>3. balances' \in [DOMAIN balances' -> Amounts] /\ DOMAIN balances' \subseteq Accounts
    BY <2>1, <2>2
  <2> QED
    BY <2>2, <2>3, FreshInvNext
<1>2. CASE Commit
  BY <1>0, <1>2, FreshInvNext DEF Commit, TypeOK
<1>3. CASE UNCHANGED vars
  <2>1. balances' = balances /\ stack' = stack /\ base' = base
    BY <1>3 DEF vars
  <2>2. Undone' = Undone
    BY <2>1 DEF Undone, RecordsOf, LastWritten
  <2>3. TypeOK' /\ RollbackRestores'
    BY <2>1, <2>2 DEF UndoInv, TypeOK, RollbackRestores
  <2> QED
    BY <2>1, <2>3 DEF UndoInv
<1> QED
  BY <1>1, <1>2, <1>3, AdjustKeeps, PushKeeps, WriteKeeps DEF Next

\* At any point of any session a rollback returns every account to the balance
\* it had when the session began.
THEOREM UndoRestores == Spec => []RollbackRestores
<1>1. Init => UndoInv
  <2> SUFFICES ASSUME Init
               PROVE  UndoInv
    OBVIOUS
  <2>1. PICK S \in SUBSET Accounts : balances \in [S -> {Zero}]
    BY DEF Init
  <2>2. Zero \in Amounts
    BY DEF Zero, Amounts
  <2>3. DOMAIN balances \subseteq Accounts /\ balances \in [DOMAIN balances -> Amounts]
    BY <2>1, <2>2
  <2> QED
    BY <2>3, FreshInv DEF Init
<1>2. UndoInv => RollbackRestores
  BY DEF UndoInv
<1> QED
  BY <1>1, <1>2, StepKeeps, PTL DEF Spec

----------------------------------------------------------------------------
(***************************************************************************)
(* The known-transaction set: the filter in front of the exact set is right *)
(* for every size, every number of hashes and all hash functions.          *)
(***************************************************************************)
\* The cell of a hash is inside the words of the filter.
LEMMA CellInside ==
  ASSUME NEW i \in Seeds, NEW x \in Txids
  PROVE  Cell(i, x) \in [word: Words, bit: 0..(WordBits - 1)]
<1> DEFINE h == Hash(i, x) % bits
<1>1. h \in Nat /\ h < bits
  BY FilterAssumption
<1> HIDE DEF h
<1>2. h % WordBits \in 0..(WordBits - 1)
  BY <1>1, FilterAssumption
<1>3. h \div WordBits \in Words
  <2> DEFINE q == h \div WordBits  n == (bits + WordBits - 1) \div WordBits
  <2>1. /\ q \in Int /\ q * WordBits <= h /\ h < (q + 1) * WordBits
    BY <1>1, FilterAssumption, Z3
  <2>2. /\ n \in Int /\ n * WordBits <= bits + WordBits - 1
        /\ bits + WordBits - 1 < (n + 1) * WordBits
    BY FilterAssumption, Z3
  <2> HIDE DEF q, n
  <2>3. q >= 0
    BY <2>1, <1>1, FilterAssumption, Z3
  <2>4. q < n
    BY <2>1, <2>2, <1>1, FilterAssumption, Z3
  <2> QED
    BY <2>1, <2>2, <2>3, <2>4 DEF Words, q, n
<1> QED
  BY <1>2, <1>3 DEF Cell, h

\* Adding sets the cells of x and keeps those set before; nothing else is set.
LEMMA AddSets ==
  ASSUME FilterTypeOK, NEW x \in Txids
  PROVE  /\ bloom_add(data, x) \in [Words -> SUBSET (0..(WordBits - 1))]
         /\ \A w \in Words : data[w] \subseteq bloom_add(data, x)[w]
         /\ \A i \in Seeds : Cell(i, x).bit \in bloom_add(data, x)[Cell(i, x).word]
         /\ \A w \in Words : \A b \in bloom_add(data, x)[w] \ data[w] :
              \E i \in Seeds : Cell(i, x) = [word |-> w, bit |-> b]
<1>1. \A i \in Seeds : Cell(i, x) \in [word: Words, bit: 0..(WordBits - 1)]
  BY CellInside
<1>2. \A w \in Words : bloom_add(data, x)[w]
        = data[w] \cup {Cell(i, x).bit : i \in {j \in Seeds : Cell(j, x).word = w}}
  BY DEF bloom_add
<1>3. bloom_add(data, x) \in [Words -> SUBSET (0..(WordBits - 1))]
  BY <1>1 DEF bloom_add, FilterTypeOK
<1>4. \A i \in Seeds : Cell(i, x).bit \in bloom_add(data, x)[Cell(i, x).word]
  BY <1>1, <1>2
<1>5. ASSUME NEW w \in Words, NEW b \in bloom_add(data, x)[w] \ data[w]
      PROVE  \E i \in Seeds : Cell(i, x) = [word |-> w, bit |-> b]
  <2>1. PICK i \in Seeds : Cell(i, x).word = w /\ Cell(i, x).bit = b
    BY <1>2, <1>5
  <2> QED
    BY <2>1, <1>1
<1> QED
  BY <1>2, <1>3, <1>4, <1>5

\* The empty filter and the empty set satisfy the invariant.
LEMMA EmptyInv == FilterInit => FilterInv
BY DEF FilterInit, FilterInv, FilterTypeOK, NoFalseNegatives, BitsExplained, Empty, definitely_seen

\* Every step preserves the invariant.
LEMMA StepInv == FilterInv /\ [FilterNext]_filterVars => FilterInv'
<1> SUFFICES ASSUME FilterInv, [FilterNext]_filterVars
             PROVE  FilterInv'
  OBVIOUS
<1> USE DEF FilterInv
<1>0. \A i \in Seeds, x \in Txids : Cell(i, x) \in [word: Words, bit: 0..(WordBits - 1)]
  BY CellInside
<1>1. ASSUME NEW x \in Txids, Add(x), x \notin exact
      PROVE  FilterInv'
  <2>1. exact' = exact \cup {x} /\ data' = bloom_add(data, x)
    BY <1>1 DEF Add
  <2>2. /\ data' \in [Words -> SUBSET (0..(WordBits - 1))]
        /\ \A w \in Words : data[w] \subseteq data'[w]
        /\ \A i \in Seeds : Cell(i, x).bit \in data'[Cell(i, x).word]
        /\ \A w \in Words : \A b \in data'[w] \ data[w] :
             \E i \in Seeds : Cell(i, x) = [word |-> w, bit |-> b]
    BY <2>1, AddSets
  <2>3. FilterTypeOK'
    BY <2>1, <2>2 DEF FilterTypeOK
  <2>4. NoFalseNegatives'
    BY <2>1, <2>2, <1>0 DEF NoFalseNegatives, definitely_seen, maybe_seen
  <2>5. BitsExplained'
    <3> SUFFICES ASSUME NEW w \in Words, NEW b \in data'[w]
                 PROVE  \E y \in exact', i \in Seeds : Cell(i, y) = [word |-> w, bit |-> b]
      BY DEF BitsExplained
    <3>1. CASE b \in data[w]
      BY <3>1, <2>1 DEF BitsExplained
    <3>2. CASE b \notin data[w]
      BY <3>2, <2>1, <2>2
    <3> QED
      BY <3>1, <3>2
  <2> QED
    BY <2>3, <2>4, <2>5
<1>2. ASSUME NEW x \in Txids, Add(x), x \in exact
      PROVE  FilterInv'
  <2>1. exact' = exact /\ data' = data
    BY <1>2 DEF Add
  <2> QED
    BY <2>1 DEF FilterTypeOK, NoFalseNegatives, BitsExplained, definitely_seen, maybe_seen
<1>3. CASE Clear
  BY <1>3 DEF Clear, Empty, FilterTypeOK, NoFalseNegatives, BitsExplained, definitely_seen
<1>4. CASE UNCHANGED filterVars
  BY <1>4 DEF filterVars, FilterTypeOK, NoFalseNegatives, BitsExplained, definitely_seen, maybe_seen
<1> QED
  BY <1>1, <1>2, <1>3, <1>4 DEF FilterNext

\* maybe_seen never denies a transaction that was added since the last clear:
\* a caller may stop at its negative answer.
THEOREM FilterHasNoFalseNegatives == FilterSpec => []NoFalseNegatives
<1>1. FilterInv => NoFalseNegatives
  BY DEF FilterInv
<1> QED
  BY <1>1, EmptyInv, StepInv, PTL DEF FilterSpec

\* Every set bit belongs to a transaction in the exact set; clear leaves none.
THEOREM FilterBitsExplained == FilterSpec => []BitsExplained
<1>1. FilterInv => BitsExplained
  BY DEF FilterInv
<1> QED
  BY <1>1, EmptyInv, StepInv, PTL DEF FilterSpec

----------------------------------------------------------------------------
(***************************************************************************)
(* The arena: allocations are aligned, inside their chunks and disjoint, for *)
(* every size of a chunk and every request.                                *)
(***************************************************************************)
\* The pad takes an offset to the next multiple of the alignment.
LEMMA PadAligns ==
  ASSUME NEW off \in Nat, NEW align \in Nat \ {0}
  PROVE  /\ Pad(off, align) \in 0..(align - 1)
         /\ (off + Pad(off, align)) % align = 0
         /\ Pad(0, align) = 0
<1> DEFINE r == off % align  q == off \div align
<1>1. /\ r \in 0..(align - 1) /\ q \in Nat
      /\ off = align * q + r
  BY Z3
<1> HIDE DEF r, q
<1>2. Pad(off, align) = (align - r) % align
  BY DEF Pad, r
<1>3. CASE r = 0
  <2>1. Pad(off, align) = 0
    BY <1>2, <1>3, Z3
  <2>2. off % align = 0
    BY <1>3 DEF r
  <2>3. off + 0 = off
    OBVIOUS
  <2> QED
    BY <2>1, <2>2, <2>3, Z3 DEF Pad
<1>4. CASE r # 0
  <2>1. Pad(off, align) = align - r
    BY <1>1, <1>2, <1>4, Z3
  <2>2. off + (align - r) = align * (q + 1)
    BY <1>1, Z3
  <2>3. (align * (q + 1)) % align = 0
    BY <1>1, Z3
  <2>4. Pad(off, align) \in 0..(align - 1)
    BY <1>1, <1>4, <2>1
  <2>5. Pad(0, align) = 0
    BY Z3 DEF Pad
  <2> QED
    BY <2>1, <2>2, <2>3, <2>4, <2>5
<1> QED
  BY <1>1, <1>3, <1>4

\* The fields of an allocation.
LEMMA LiveTyped ==
  ASSUME ArenaInv, NEW a \in live
  PROVE  /\ a.chunk \in 1..Len(chunks) /\ a.start \in Nat /\ a.len \in Nat
         /\ a.start + a.len <= chunks[a.chunk]
         /\ a.chunk = Len(chunks) => a.start + a.len <= offset
<1>1. a \in [chunk: DOMAIN chunks, start: Nat, len: Sizes, align: Aligns] /\ DOMAIN chunks = 1..Len(chunks)
  BY DEF ArenaInv
<1>2. a.chunk \in 1..Len(chunks) /\ a.start \in Nat /\ a.len \in Nat
  BY <1>1, ArenaAssumption, Zenon
<1> QED
  BY <1>2 DEF ArenaInv

\* An allocation cut behind everything the last chunk has handed out.
LEMMA HandedSound ==
  ASSUME ArenaInv, NEW n \in Sizes, NEW align \in Aligns, NEW start \in Nat,
         start % align = 0,
         NEW k \in DOMAIN chunks', start + n <= chunks'[k],
         \A a \in live : /\ a.chunk \in DOMAIN chunks' /\ chunks'[a.chunk] = chunks[a.chunk]
                         /\ a.chunk = k => a.start + a.len <= start
                         /\ k = Len(chunks') /\ a.chunk <= k,
         offset' = start + n, live' = Handed(k, start, n, align)
  PROVE  /\ live' \subseteq [chunk: DOMAIN chunks', start: Nat, len: Sizes, align: Aligns]
         /\ \A a \in live' : /\ a.start + a.len <= chunks'[a.chunk]
                             /\ a.start % a.align = 0
                             /\ a.chunk = Len(chunks') => a.start + a.len <= offset'
         /\ \A a, b \in live' : a # b /\ a.chunk = b.chunk
                                  => a.start + a.len <= b.start \/ b.start + b.len <= a.start
<1> USE ArenaAssumption
<1>1. PICK new : new = [chunk |-> k, start |-> start, len |-> n, align |-> align]
  BY Zenon
<1>2. live' = live \cup {new} /\ n \in Nat
  BY <1>1 DEF Handed
<1>3. /\ new \in [chunk: DOMAIN chunks', start: Nat, len: Sizes, align: Aligns]
      /\ new.chunk = k /\ new.start = start /\ new.len = n /\ new.align = align
  BY <1>1
<1>4. \A a \in live : /\ a \in [chunk: DOMAIN chunks, start: Nat, len: Sizes, align: Aligns]
                      /\ a.start \in Nat /\ a.len \in Nat
                      /\ a.start + a.len <= chunks[a.chunk] /\ a.start % a.align = 0
  BY Zenon DEF ArenaInv
<1>5. live' \subseteq [chunk: DOMAIN chunks', start: Nat, len: Sizes, align: Aligns]
  BY <1>2, <1>3, <1>4
<1>6. \A a \in live' : /\ a.start + a.len <= chunks'[a.chunk]
                       /\ a.start % a.align = 0
                       /\ a.chunk = Len(chunks') => a.start + a.len <= offset'
  BY <1>2, <1>3, <1>4
<1>7. \A a, b \in live' : a # b /\ a.chunk = b.chunk
                            => a.start + a.len <= b.start \/ b.start + b.len <= a.start
  BY <1>2, <1>3, Zenon DEF ArenaInv
<1> QED
  BY <1>5, <1>6, <1>7

\* Every step keeps the arena sound.
LEMMA ArenaNextInv == ArenaInv /\ [ArenaNext]_arenaVars => ArenaInv'
<1> SUFFICES ASSUME ArenaInv, [ArenaNext]_arenaVars PROVE ArenaInv'
  OBVIOUS
<1> USE ArenaAssumption
<1>0. /\ chunk_size \in Nat /\ chunks \in Seq(0..chunk_size) /\ chunks # << >>
      /\ Len(chunks) \in DOMAIN chunks /\ chunks[Len(chunks)] \in 0..chunk_size
      /\ offset \in Nat /\ offset <= chunks[Len(chunks)]
  <2>1. Len(chunks) \in DOMAIN chunks
    BY DEF ArenaInv
  <2> QED
    BY <2>1 DEF ArenaInv
<1>1. ASSUME NEW n \in Sizes, NEW align \in Aligns, AllocateBack(n, align)
      PROVE  ArenaInv'
  <2> DEFINE start == offset + Pad(offset, align)
  <2>1. start \in Nat /\ start >= offset /\ start % align = 0 /\ n \in Nat
    <3>1. Pad(offset, align) \in 0..(align - 1) /\ (offset + Pad(offset, align)) % align = 0
      BY <1>0, PadAligns
    <3>2. Pad(offset, align) \in Nat
      BY <3>1
    <3> QED
      BY <1>0, <3>1, <3>2
  <2>2. /\ offset' = start + n /\ start + n <= chunks[Len(chunks)]
        /\ live' = Handed(Len(chunks), start, n, align)
        /\ UNCHANGED <<chunk_size, chunks>>
    BY <1>1 DEF AllocateBack, FitsBack
  <2> HIDE DEF start
  <2>3. PICK st : st = start
    OBVIOUS
  <2>4. PICK k : k = Len(chunks)
    BY Zenon
  <2>5. \A a \in live : /\ a.chunk \in DOMAIN chunks' /\ chunks'[a.chunk] = chunks[a.chunk]
                        /\ a.chunk = k => a.start + a.len <= st
                        /\ k = Len(chunks') /\ a.chunk <= k
    BY <1>0, <2>1, <2>2, <2>3, <2>4, LiveTyped
  <2>6. /\ live' \subseteq [chunk: DOMAIN chunks', start: Nat, len: Sizes, align: Aligns]
        /\ \A a \in live' : /\ a.start + a.len <= chunks'[a.chunk]
                            /\ a.start % a.align = 0
                            /\ a.chunk = Len(chunks') => a.start + a.len <= offset'
        /\ \A a, b \in live' : a # b /\ a.chunk = b.chunk
                                 => a.start + a.len <= b.start \/ b.start + b.len <= a.start
    BY <1>0, <2>1, <2>2, <2>3, <2>4, <2>5, HandedSound, Zenon
  <2>7. offset' \in 0..chunks'[Len(chunks')]
    BY <1>0, <2>1, <2>2
  <2> QED
    BY <1>0, <2>2, <2>6, <2>7 DEF ArenaInv
<1>2. ASSUME NEW n \in Sizes, NEW align \in Aligns, AllocateGrown(n, align)
      PROVE  ArenaInv'
  <2>1. PICK size : size = chunk_size'
    OBVIOUS
  <2>2. size \in Nat /\ n + align <= size /\ chunk_size <= size /\ n \in Nat /\ align \in Nat \ {0}
    BY <1>0, <1>2, <2>1 DEF AllocateGrown, Needed
  <2>3. GrownPad(align) = 0
    BY <2>2, PadAligns DEF GrownPad
  <2>4. /\ chunks' = Append(chunks, size) /\ offset' = 0 + n
        /\ live' = Handed(Len(chunks'), 0, n, align)
    BY <1>2, <2>1, <2>3 DEF AllocateGrown
  <2>5. /\ chunks \in Seq(0..size) /\ size \in 0..size
    <3>1. 0..chunk_size \subseteq 0..size
      BY <1>0, <2>2
    <3>2. \A j \in DOMAIN chunks : chunks[j] \in 0..size
      BY <1>0, <3>1
    <3> QED
      BY <1>0, <2>2, <3>2
  <2>6. /\ chunks' \in Seq(0..size) /\ chunks' # << >>
        /\ DOMAIN chunks' = 1..(Len(chunks) + 1) /\ Len(chunks') = Len(chunks) + 1
        /\ chunks'[Len(chunks')] = size
        /\ \A j \in DOMAIN chunks : chunks'[j] = chunks[j]
    BY <2>4, <2>5
  <2>7. PICK k : k = Len(chunks')
    BY Zenon
  <2>8. /\ k \in DOMAIN chunks' /\ 0 + n <= chunks'[k]
        /\ \A a \in live : /\ a.chunk \in DOMAIN chunks' /\ chunks'[a.chunk] = chunks[a.chunk]
                           /\ a.chunk = k => a.start + a.len <= 0
                           /\ k = Len(chunks') /\ a.chunk <= k
    <3>1. k \in DOMAIN chunks' /\ 0 + n <= chunks'[k]
      BY <1>0, <2>2, <2>6, <2>7
    <3>2. \A a \in live : a.chunk \in 1..Len(chunks)
      BY <1>0 DEF ArenaInv
    <3> QED
      BY <1>0, <2>6, <2>7, <3>1, <3>2
  <2>9. 0 % align = 0
    BY <2>2, Z3
  <2>10. /\ live' \subseteq [chunk: DOMAIN chunks', start: Nat, len: Sizes, align: Aligns]
         /\ \A a \in live' : /\ a.start + a.len <= chunks'[a.chunk]
                             /\ a.start % a.align = 0
                             /\ a.chunk = Len(chunks') => a.start + a.len <= offset'
         /\ \A a, b \in live' : a # b /\ a.chunk = b.chunk
                                  => a.start + a.len <= b.start \/ b.start + b.len <= a.start
    BY <2>4, <2>7, <2>8, <2>9, HandedSound
  <2>11. offset' \in 0..chunks'[Len(chunks')]
    BY <2>2, <2>4, <2>6
  <2> QED
    BY <2>1, <2>2, <2>6, <2>10, <2>11 DEF ArenaInv
<1>3. CASE Reset
  <2>1. /\ chunks' = <<chunks[1]>> /\ chunks[1] \in 0..chunk_size
        /\ offset' = 0 /\ live' = {} /\ chunk_size' = chunk_size
    BY <1>0, <1>3 DEF Reset
  <2>2. chunks' \in Seq(0..chunk_size') /\ chunks' # << >> /\ offset' \in 0..chunks'[Len(chunks')]
    BY <1>0, <2>1
  <2> QED
    BY <1>0, <2>1, <2>2 DEF ArenaInv
<1>4. CASE UNCHANGED arenaVars
  BY <1>4 DEF arenaVars, ArenaInv
<1> QED
  BY <1>1, <1>2, <1>3, <1>4 DEF ArenaNext

\* The bytes handed out are among those that bytes_used counts.
LEMMA BytesBounded ==
  ASSUME ArenaInv
  PROVE  Cardinality(BytesHanded) <= bytes_used
<1> USE ArenaAssumption
<1>1. PICK k, cs, off : k = Len(chunks) /\ cs = chunk_size /\ off = offset
  BY Zenon
<1>2. k \in Nat \ {0} /\ cs \in Nat /\ off \in Nat /\ \A j \in 1..k : chunks[j] \in 0..cs
  <2>1. k \in Nat \ {0} /\ \A j \in 1..k : chunks[j] \in 0..cs
    BY <1>1 DEF ArenaInv
  <2> QED
    BY <1>1, <2>1 DEF ArenaInv
<1> DEFINE Full == (1..(k - 1)) \X (0..(cs - 1))
           Last == {k} \X (0..(off - 1))
<1>3. IsFiniteSet(Full) /\ Cardinality(Full) = (k - 1) * cs
  <2>1. IsFiniteSet(1..(k - 1)) /\ Cardinality(1..(k - 1)) = k - 1
    BY <1>2, FS_Interval
  <2>2. IsFiniteSet(0..(cs - 1)) /\ Cardinality(0..(cs - 1)) = cs
    BY <1>2, FS_Interval
  <2>3. IsFiniteSet(Full) /\ Cardinality(Full) = Cardinality(1..(k - 1)) * Cardinality(0..(cs - 1))
    BY <2>1, <2>2, FS_Product, Zenon
  <2> QED
    BY <2>1, <2>2, <2>3
<1>4. IsFiniteSet(Last) /\ Cardinality(Last) = off
  <2>1. IsFiniteSet({k}) /\ Cardinality({k}) = 1
    BY FS_Singleton, Zenon
  <2>2. IsFiniteSet(0..(off - 1)) /\ Cardinality(0..(off - 1)) = off
    BY <1>2, FS_Interval
  <2>3. IsFiniteSet(Last) /\ Cardinality(Last) = Cardinality({k}) * Cardinality(0..(off - 1))
    BY <2>1, <2>2, FS_Product, Zenon
  <2> QED
    BY <1>2, <2>1, <2>2, <2>3
<1>5. Full \cap Last = {}
  BY <1>2
<1>6. BytesHanded \subseteq Full \cup Last
  <2> SUFFICES ASSUME NEW a \in live, NEW b \in a.start..(a.start + a.len - 1)
               PROVE  <<a.chunk, b>> \in Full \cup Last
    BY DEF BytesHanded
  <2>1. /\ a.chunk \in 1..k /\ a.start \in Nat /\ a.len \in Nat
        /\ a.start + a.len <= chunks[a.chunk]
        /\ a.chunk = k => a.start + a.len <= off
    BY <1>1, LiveTyped
  <2>2. CASE a.chunk = k
    BY <1>2, <2>1, <2>2
  <2>3. CASE a.chunk # k
    BY <1>2, <2>1, <2>3
  <2> QED
    BY <2>2, <2>3
<1> HIDE DEF Full, Last
<1>7. /\ IsFiniteSet(Full \cup Last)
      /\ Cardinality(Full \cup Last) = Cardinality(Full) + Cardinality(Last) - Cardinality(Full \cap Last)
  BY <1>3, <1>4, FS_Union
<1>8. Cardinality(Full \cap Last) = 0
  BY <1>5, FS_EmptySet
<1>9. (k - 1) * cs \in Nat
  BY <1>2, Z3
<1>10. Cardinality(Full \cup Last) = (k - 1) * cs + off
  BY <1>2, <1>3, <1>4, <1>7, <1>8, <1>9
<1>11. Cardinality(BytesHanded) <= Cardinality(Full \cup Last)
  BY <1>6, <1>7, FS_Subset, Zenon
<1> QED
  BY <1>1, <1>10, <1>11 DEF bytes_used

\* No sequence of allocations, growth and resets makes two allocations overlap,
\* run out of a chunk or miss an alignment, and bytes_used covers them all.
THEOREM ArenaSound == ArenaSpec => []LiveSound
<1>1. ArenaInit => ArenaInv
  BY ArenaAssumption DEF ArenaInit, ArenaInv
<1>2. ArenaInv => LiveSound
  <2> SUFFICES ASSUME ArenaInv PROVE LiveSound
    OBVIOUS
  <2>1. \A a \in live : a.chunk \in DOMAIN chunks
    BY DEF ArenaInv
  <2> QED
    BY <2>1, BytesBounded DEF ArenaInv, LiveSound
<1> QED
  BY <1>1, <1>2, ArenaNextInv, PTL DEF ArenaSpec

----------------------------------------------------------------------------
(***************************************************************************)
(* Compact blocks: what is announced is rebuilt, for bodies of any length  *)
(* and any short ids.                                                      *)
(***************************************************************************)
\* How many members of S are not above i.
Upto(S, i) == {j \in S : j <= i}
Rank(S, i) == Cardinality(Upto(S, i))

\* Ranks grow with the members.
LEMMA RankGrows ==
  ASSUME NEW S \in SUBSET Nat, IsFiniteSet(S), NEW i \in S, NEW j \in S, i < j
  PROVE  Rank(S, i) < Rank(S, j)
<1>1. IsFiniteSet(Upto(S, j)) /\ Upto(S, i) \in SUBSET Upto(S, j)
  <2>1. Upto(S, j) \in SUBSET S
    BY DEF Upto
  <2>2. IsFiniteSet(Upto(S, j))
    BY <2>1, FS_Subset
  <2>3. \A x \in S : x <= i => x <= j
    OBVIOUS
  <2> QED
    BY <2>2, <2>3, Zenon DEF Upto
<1>2. j \in Upto(S, j) /\ j \notin Upto(S, i)
  BY DEF Upto
<1>3. /\ IsFiniteSet(Upto(S, i)) /\ Cardinality(Upto(S, i)) <= Cardinality(Upto(S, j))
      /\ Cardinality(Upto(S, i)) # Cardinality(Upto(S, j))
  BY <1>1, <1>2, FS_Subset
<1>4. Cardinality(Upto(S, i)) \in Nat /\ Cardinality(Upto(S, j)) \in Nat
  BY <1>1, <1>3, FS_CardinalityType
<1> QED
  BY <1>3, <1>4 DEF Rank

\* The ranks of the members of S are the numbers up to its size, each once.
LEMMA RanksOnce ==
  ASSUME NEW S \in SUBSET Nat, IsFiniteSet(S)
  PROVE  /\ \A i \in S : Rank(S, i) \in 1..Cardinality(S)
         /\ \A i, j \in S : Rank(S, i) = Rank(S, j) => i = j
         /\ \A k \in 1..Cardinality(S) : \E i \in S : Rank(S, i) = k
<1> DEFINE n == Cardinality(S)  f == [i \in S |-> Rank(S, i)]
<1>0. n \in Nat
  BY FS_CardinalityType
<1>1. ASSUME NEW i \in S
      PROVE  Rank(S, i) \in 1..n
  <2>1. Upto(S, i) \in SUBSET S /\ i \in Upto(S, i)
    BY DEF Upto
  <2>2. IsFiniteSet(Upto(S, i)) /\ Cardinality(Upto(S, i)) <= n
    BY <2>1, FS_Subset
  <2>3. Cardinality(Upto(S, i)) \in Nat /\ Cardinality(Upto(S, i)) # 0
    BY <2>1, <2>2, FS_CardinalityType, FS_EmptySet
  <2> QED
    BY <1>0, <2>2, <2>3 DEF Rank
<1>2. ASSUME NEW i \in S, NEW j \in S, Rank(S, i) = Rank(S, j)
      PROVE  i = j
  <2>1. Rank(S, i) \in Int
    BY <1>0, <1>1
  <2>2. ~(i < j) /\ ~(j < i)
    BY <1>2, <2>1, RankGrows
  <2> QED
    BY <2>2
<1>3. f \in Injection(S, 1..n)
  BY <1>1, <1>2 DEF Injection, IsInjective
<1>4. IsFiniteSet(1..n) /\ Cardinality(1..n) = n
  BY <1>0, FS_Interval
<1>5. f \in Surjection(S, 1..n)
  BY <1>3, <1>4, FS_Injection
<1> QED
  BY <1>1, <1>2, <1>5, Zenon DEF Surjection

\* Pick lists the elements at the positions in S: each at the rank of its
\* position.
LEMMA PickRanks ==
  ASSUME NEW s, NEW S \in SUBSET Nat, IsFiniteSet(S)
  PROVE  /\ Cardinality(S) \in Nat
         /\ DOMAIN Pick(s, S) = 1..Cardinality(S)
         /\ Pick(s, S) = [k \in 1..Cardinality(S) |-> Pick(s, S)[k]]
         /\ Len(Pick(s, S)) = Cardinality(S)
         /\ \A i \in S : Rank(S, i) \in 1..Cardinality(S) /\ Pick(s, S)[Rank(S, i)] = s[i]
         /\ \A k \in 1..Cardinality(S) : \E i \in S : Rank(S, i) = k /\ Pick(s, S)[k] = s[i]
<1>1. Cardinality(S) \in Nat
  BY FS_CardinalityType
<1>2. Pick(s, S) = [k \in 1..Cardinality(S) |-> s[CHOOSE i \in S : Rank(S, i) = k]]
  BY DEF Pick, Rank, Upto
<1>3. ASSUME NEW i \in S
      PROVE  Rank(S, i) \in 1..Cardinality(S) /\ Pick(s, S)[Rank(S, i)] = s[i]
  <2>1. Rank(S, i) \in 1..Cardinality(S)
    BY RanksOnce
  <2>2. (CHOOSE j \in S : Rank(S, j) = Rank(S, i)) = i
    BY RanksOnce
  <2> QED
    BY <1>2, <2>1, <2>2
<1>4. \A k \in 1..Cardinality(S) : \E i \in S : Rank(S, i) = k
  BY RanksOnce
<1>5. DOMAIN Pick(s, S) = 1..Cardinality(S) /\ Pick(s, S) = [k \in 1..Cardinality(S) |-> Pick(s, S)[k]]
  BY <1>2
<1>6. Len(Pick(s, S)) = Cardinality(S)
  BY <1>1, <1>5
<1> QED
  BY <1>1, <1>3, <1>4, <1>5, <1>6, Zenon

----------------------------------------------------------------------------
\* An announcement as it can arrive.
Announcement(c) ==
  /\ c.short_ids \in Seq(ShortIds)
  /\ c.prefilled \in Seq([index: Nat, tx: Txs])

Inline(c) == {i \in 1..tx_count(c) : IsInline(c, i)}

\* The parts of an announcement.
LEMMA Parts ==
  ASSUME NEW c, Announcement(c)
  PROVE  /\ Len(c.short_ids) \in Nat /\ DOMAIN c.short_ids = 1..Len(c.short_ids)
         /\ Len(c.prefilled) \in Nat /\ DOMAIN c.prefilled = 1..Len(c.prefilled)
         /\ tx_count(c) \in Nat /\ tx_count(c) = Len(c.short_ids) + Len(c.prefilled)
         /\ \A p \in DOMAIN c.prefilled : c.prefilled[p].index \in Nat
<1>1. PICK pre, ids : pre = c.prefilled /\ ids = c.short_ids
  OBVIOUS
<1>2. pre \in Seq([index: Nat, tx: Txs]) /\ ids \in Seq(ShortIds)
  BY <1>1, Zenon DEF Announcement
<1>3. /\ Len(pre) \in Nat /\ DOMAIN pre = 1..Len(pre)
      /\ Len(ids) \in Nat /\ DOMAIN ids = 1..Len(ids)
  BY <1>2
<1>4. \A p \in DOMAIN pre : pre[p] \in [index: Nat, tx: Txs]
  <2>1. PICK R : R = [index: Nat, tx: Txs]
    BY Zenon
  <2>2. pre \in Seq(R)
    BY <1>2, <2>1
  <2>3. \A p \in DOMAIN pre : pre[p] \in R
    BY <2>2
  <2> QED
    BY <2>1, <2>3
<1>5. \A p \in DOMAIN pre : pre[p].index \in Nat
  BY <1>4
<1>6. tx_count(c) = Len(ids) + Len(pre)
  BY <1>1, Zenon DEF tx_count
<1>7. Len(ids) + Len(pre) \in Nat
  BY <1>3
<1> QED
  BY <1>1, <1>3, <1>5, <1>6, <1>7, Zenon

\* What the checks on prefilled admit.
LEMMA Checked ==
  ASSUME NEW c, Announcement(c), ~Malformed(c), NEW p \in DOMAIN c.prefilled
  PROVE  /\ c.prefilled[p].index < tx_count(c)
         /\ p > 1 => c.prefilled[p - 1].index < c.prefilled[p].index
<1>1. PICK x : x = [k \in DOMAIN c.prefilled |-> c.prefilled[k].index]
  BY Zenon
<1>2. PICK n, m : n = tx_count(c) /\ m = Len(c.prefilled)
  BY Zenon
<1>3. n \in Nat /\ m \in Nat /\ x \in [1..m -> Nat] /\ p \in 1..m
  BY <1>1, <1>2, Parts, Zenon
<1>4. ~(x[p] >= n)
  BY <1>1, <1>2, Zenon DEF Malformed
<1>5. ASSUME p > 1
      PROVE  ~(x[p] <= x[p - 1])
  <2>1. p - 1 \in 1..m
    BY <1>3, <1>5
  <2>2. p - 1 \in DOMAIN c.prefilled
    BY <1>2, <2>1, Parts
  <2>3. ~(c.prefilled[p].index <= c.prefilled[p - 1].index)
    BY <1>5, Zenon DEF Malformed
  <2> QED
    BY <1>1, <2>2, <2>3, Zenon
<1>6. x[p] < n /\ (p > 1 => x[p - 1] < x[p])
  BY <1>3, <1>4, <1>5
<1>7. p > 1 => p - 1 \in DOMAIN c.prefilled
  BY <1>2, <1>3, Parts
<1> QED
  BY <1>1, <1>2, <1>6, <1>7, Zenon

\* If each index is above the one before, it is above all before it.
LEMMA IndexesGrow ==
  ASSUME NEW c, Announcement(c), ~Malformed(c),
         NEW p \in DOMAIN c.prefilled, NEW q \in DOMAIN c.prefilled, p < q
  PROVE  c.prefilled[p].index < c.prefilled[q].index
<1>1. PICK x : x = [k \in DOMAIN c.prefilled |-> c.prefilled[k].index]
  BY Zenon
<1>2. PICK m : m = Len(c.prefilled)
  BY Zenon
<1>3. m \in Nat /\ x \in [1..m -> Nat] /\ p \in 1..m /\ q \in 1..m /\ DOMAIN c.prefilled = 1..m
  BY <1>1, <1>2, Parts, Zenon
<1>4. ASSUME NEW k \in 1..m, k > 1
      PROVE  x[k - 1] < x[k]
  <2>1. k \in DOMAIN c.prefilled /\ k - 1 \in DOMAIN c.prefilled
    BY <1>3, <1>4
  <2>2. c.prefilled[k - 1].index < c.prefilled[k].index
    BY <1>4, <2>1, Checked, Zenon
  <2> QED
    BY <1>1, <2>1, <2>2, Zenon
<1> DEFINE Bad == {k \in 1..m : p < k /\ ~(x[p] < x[k])}
<1>5. Bad = {}
  <2> SUFFICES ASSUME Bad # {} PROVE FALSE
    OBVIOUS
  <2>1. Bad \in SUBSET Nat
    BY <1>3
  <2>2. PICK k \in Bad : \A j \in Bad : k <= j
    BY <2>1, LeastOf, Zenon
  <2>3. k \in 1..m /\ p < k /\ ~(x[p] < x[k]) /\ k > 1
    BY <1>3, <2>2
  <2>4. k - 1 \in 1..m /\ k - 1 \notin Bad
    BY <1>3, <2>1, <2>2, <2>3
  <2>5. x[k - 1] < x[k] /\ x[k - 1] \in Nat /\ x[k] \in Nat /\ x[p] \in Nat
    BY <1>3, <1>4, <2>3, <2>4, Zenon
  <2>6. CASE k - 1 = p
    BY <2>3, <2>5, <2>6, Zenon
  <2>7. CASE p < k - 1
    BY <2>3, <2>4, <2>5, <2>7
  <2> QED
    BY <1>3, <2>3, <2>6, <2>7
<1>6. x[p] < x[q]
  BY <1>3, <1>5
<1> QED
  BY <1>1, <1>6, Zenon

\* The checks leave one position for each inline transaction, so the positions
\* left for short ids are as many as the short ids.
LEMMA SlotsOfSound ==
  ASSUME NEW c, Announcement(c), ~Malformed(c)
  PROVE  Cardinality({i \in 1..tx_count(c) : ~IsInline(c, i)}) = Len(c.short_ids)
<1>1. PICK x : x = [k \in DOMAIN c.prefilled |-> c.prefilled[k].index]
  BY Zenon
<1>2. PICK n, m, l : n = tx_count(c) /\ m = Len(c.prefilled) /\ l = Len(c.short_ids)
  BY Zenon
<1>3. /\ n \in Nat /\ m \in Nat /\ l \in Nat /\ n = l + m
      /\ x \in [1..m -> Nat] /\ DOMAIN c.prefilled = 1..m
  BY <1>1, <1>2, Parts, Zenon
<1>4. \A p \in 1..m : x[p] < n
  BY <1>1, <1>2, <1>3, Checked, Zenon
<1>5. \A i : IsInline(c, i) <=> \E p \in 1..m : x[p] = i - 1
  BY <1>1, <1>3, Zenon DEF IsInline
<1> DEFINE I == {i \in 1..n : IsInline(c, i)}  f == [p \in 1..m |-> x[p] + 1]
<1>6. f \in [1..m -> I]
  <2> SUFFICES ASSUME NEW p \in 1..m PROVE x[p] + 1 \in I
    OBVIOUS
  <2>1. x[p] + 1 \in 1..n /\ x[p] = (x[p] + 1) - 1
    BY <1>3, <1>4
  <2> QED
    BY <1>5, <2>1
<1>7. \A i \in I : \E p \in 1..m : f[p] = i
  <2> TAKE i \in I
  <2>1. PICK p \in 1..m : x[p] = i - 1
    BY <1>5, Zenon
  <2> QED
    BY <1>3, <2>1
<1>8. \A p, q \in 1..m : f[p] = f[q] => p = q
  <2>1. ASSUME NEW p \in 1..m, NEW q \in 1..m, p < q
        PROVE  x[p] < x[q]
    <3>1. c.prefilled[p].index < c.prefilled[q].index
      BY <1>3, <2>1, IndexesGrow
    <3> QED
      BY <1>1, <1>3, <3>1, Zenon
  <2> QED
    BY <1>3, <2>1
<1>9. f \in Bijection(1..m, I)
  <2> HIDE DEF f, I
  <2> QED
    BY <1>6, <1>7, <1>8 DEF Bijection, Injection, Surjection, IsInjective
<1>10. IsFiniteSet(1..m) /\ Cardinality(1..m) = m /\ IsFiniteSet(1..n) /\ Cardinality(1..n) = n
  BY <1>3, FS_Interval
<1>11. IsFiniteSet(I) /\ Cardinality(I) = m
  <2> HIDE DEF f, I
  <2>1. ExistsBijection(1..m, I)
    BY <1>9 DEF ExistsBijection
  <2> QED
    BY <1>10, <2>1, FS_Bijection
<1>12. (1..n) \cap I = I /\ {i \in 1..n : ~IsInline(c, i)} = (1..n) \ I
  OBVIOUS
<1> HIDE DEF I
<1>13. Cardinality((1..n) \ I) = Cardinality(1..n) - Cardinality((1..n) \cap I)
  BY <1>10, FS_Difference, Zenon
<1>14. Cardinality((1..n) \cap I) = m
  BY <1>11, <1>12
<1>15. Cardinality((1..n) \ I) = n - m
  BY <1>10, <1>13, <1>14
<1>16. Cardinality({i \in 1..n : ~IsInline(c, i)}) = l
  <2>1. n - m = l
    BY <1>3
  <2> QED
    BY <1>12, <1>15, <2>1, Zenon
<1> QED
  BY <1>2, <1>16, Zenon

----------------------------------------------------------------------------
\* c announces the body txs of n transactions.
Made(c, n, txs, prefill) ==
  n \in Nat /\ txs \in [1..n -> Txs] /\ c = make_compact_block(txs, prefill)

\* The positions that are sent inline and the others, the entry each position
\* would have and the id each would have.
Inlined(n, prefill) == {i \in 1..n : i - 1 \in prefill}
Others(n, prefill) == (1..n) \ Inlined(n, prefill)
Entries(n, txs) == [i \in 1..n |-> [index |-> i - 1, tx |-> txs[i]]]
Ids(n, txs) == [i \in 1..n |-> short_id[txs[i]]]

\* What make_compact_block makes of a body: the inline transactions in order,
\* and the short ids of the others in order.
LEMMA MadeParts ==
  ASSUME NEW c, NEW n, NEW txs, NEW prefill, Made(c, n, txs, prefill)
  PROVE  /\ Inlined(n, prefill) \in SUBSET Nat /\ IsFiniteSet(Inlined(n, prefill))
         /\ Others(n, prefill) \in SUBSET Nat /\ IsFiniteSet(Others(n, prefill))
         /\ c.prefilled = Pick(Entries(n, txs), Inlined(n, prefill))
         /\ c.short_ids = Pick(Ids(n, txs), Others(n, prefill))
         /\ Cardinality(Inlined(n, prefill)) \in Nat
         /\ tx_count(c) = n
<1>1. n \in Nat /\ txs \in [1..n -> Txs] /\ c = make_compact_block(txs, prefill)
  BY DEF Made
<1>2. PICK I, R : I = Inlined(n, prefill) /\ R = Others(n, prefill)
  OBVIOUS
<1>3. IsFiniteSet(1..n) /\ Cardinality(1..n) = n
  BY <1>1, FS_Interval
<1>4. I \in SUBSET (1..n) /\ R = (1..n) \ I
  BY <1>2 DEF Inlined, Others
<1>5. IsFiniteSet(I) /\ IsFiniteSet(R)
  BY <1>3, <1>4, FS_Subset, Zenon
<1>6. Cardinality(I) \in Nat /\ Cardinality(R) \in Nat
  BY <1>5, FS_CardinalityType
<1>7. Cardinality(R) = n - Cardinality(I)
  <2>1. (1..n) \cap I = I
    BY <1>4, Zenon
  <2>2. Cardinality((1..n) \ I) = Cardinality(1..n) - Cardinality((1..n) \cap I)
    BY <1>3, FS_Difference, Zenon
  <2> QED
    BY <1>3, <1>4, <2>1, <2>2, Zenon
<1>8. /\ c.prefilled = Pick(Entries(n, txs), I)
      /\ c.short_ids = Pick(Ids(n, txs), R)
  <2>1. DOMAIN txs = 1..n
    BY <1>1
  <2> QED
    BY <1>1, <1>2, <2>1 DEF make_compact_block, Inlined, Others, Entries, Ids
<1>9. I \in SUBSET Nat /\ R \in SUBSET Nat
  BY <1>1, <1>4
<1>10. Len(c.prefilled) = Cardinality(I) /\ Len(c.short_ids) = Cardinality(R)
  BY <1>5, <1>8, <1>9, PickRanks
<1>11. tx_count(c) = Cardinality(R) + Cardinality(I)
  BY <1>10, Zenon DEF tx_count
<1>12. tx_count(c) = n
  BY <1>1, <1>6, <1>7, <1>11, SMTT(20)
<1> QED
  BY <1>2, <1>5, <1>6, <1>8, <1>9, <1>12, Zenon

\* Entry p of prefilled is the inline position of rank p.
LEMMA MadeInline ==
  ASSUME NEW c, NEW n, NEW txs, NEW prefill, Made(c, n, txs, prefill),
         NEW I, I = Inlined(n, prefill), NEW P, P = c.prefilled
  PROVE  /\ DOMAIN P = 1..Cardinality(I)
         /\ \A p \in DOMAIN P : \E i \in I :
              Rank(I, i) = p /\ P[p].index = i - 1 /\ P[p].tx = txs[i] /\ i \in 1..n
         /\ \A i \in I : \E p \in DOMAIN P : P[p].index = i - 1
<1>1. PICK s : s = Entries(n, txs)
  OBVIOUS
<1>2. I \in SUBSET Nat /\ IsFiniteSet(I) /\ P = Pick(s, I)
  BY <1>1, MadeParts, Zenon
<1>3. /\ DOMAIN P = 1..Cardinality(I)
      /\ \A i \in I : Rank(I, i) \in 1..Cardinality(I) /\ P[Rank(I, i)] = s[i]
      /\ \A k \in 1..Cardinality(I) : \E i \in I : Rank(I, i) = k /\ P[k] = s[i]
  BY <1>2, PickRanks
<1>4. \A i \in I : s[i].index = i - 1 /\ s[i].tx = txs[i] /\ i \in 1..n
  BY <1>1, Zenon DEF Inlined, Entries
<1>5. ASSUME NEW p \in DOMAIN P
      PROVE  \E i \in I : Rank(I, i) = p /\ P[p].index = i - 1 /\ P[p].tx = txs[i] /\ i \in 1..n
  <2>1. PICK i \in I : Rank(I, i) = p /\ P[p] = s[i]
    BY <1>3, Zenon
  <2> QED
    BY <1>4, <2>1, Zenon
<1>6. ASSUME NEW i \in I
      PROVE  \E p \in DOMAIN P : P[p].index = i - 1
  <2>1. PICK p : p = Rank(I, i)
    BY Zenon
  <2>2. p \in DOMAIN P /\ P[p] = s[i]
    BY <1>3, <2>1
  <2> QED
    BY <1>4, <2>2
<1> QED
  BY <1>3, <1>5, <1>6

\* So a position is inline exactly if it was prefilled, with its transaction.
LEMMA InlineKept ==
  ASSUME NEW c, NEW n, NEW txs, NEW prefill, Made(c, n, txs, prefill), NEW i \in 1..n
  PROVE  /\ IsInline(c, i) <=> i \in Inlined(n, prefill)
         /\ IsInline(c, i) => InlineTx(c, i) = txs[i]
<1>1. PICK I, P : I = Inlined(n, prefill) /\ P = c.prefilled
  OBVIOUS
<1>2. n \in Nat
  BY Zenon DEF Made
<1>3. /\ DOMAIN P = 1..Cardinality(I)
      /\ \A p \in DOMAIN P : \E j \in I :
           Rank(I, j) = p /\ P[p].index = j - 1 /\ P[p].tx = txs[j] /\ j \in 1..n
  BY <1>1, MadeInline, SMTT(20)
<1>8. i \in I => \E p \in DOMAIN P : P[p].index = i - 1
  BY <1>1, MadeInline
<1>4. ASSUME NEW p \in DOMAIN P, P[p].index = i - 1
      PROVE  i \in I /\ P[p].tx = txs[i]
  <2>1. PICK j \in I : P[p].index = j - 1 /\ P[p].tx = txs[j] /\ j \in 1..n
    BY <1>3
  <2>2. j = i
    BY <1>2, <1>4, <2>1
  <2> QED
    BY <2>1, <2>2, Zenon
<1>5. i \in I <=> \E p \in DOMAIN P : P[p].index = i - 1
  BY <1>4, <1>8
<1>6. IsInline(c, i) <=> \E p \in DOMAIN P : P[p].index = i - 1
  BY <1>1, Zenon DEF IsInline
<1>7. ASSUME IsInline(c, i) PROVE InlineTx(c, i) = txs[i]
  <2>1. PICK q : q = CHOOSE p \in DOMAIN P : P[p].index = i - 1
    OBVIOUS
  <2>2. q \in DOMAIN P /\ P[q].index = i - 1
    BY <1>6, <1>7, <2>1, Zenon
  <2>3. P[q].tx = txs[i]
    BY <1>4, <2>2, Zenon
  <2> QED
    BY <1>1, <2>1, <2>3, Zenon DEF InlineTx
<1> QED
  BY <1>1, <1>5, <1>6, <1>7, Zenon

\* What make_compact_block makes passes the checks of reconstruct.
LEMMA MadeSound ==
  ASSUME NEW c, NEW n, NEW txs, NEW prefill, Made(c, n, txs, prefill)
  PROVE  ~Malformed(c)
<1>1. PICK I, m, P : I = Inlined(n, prefill) /\ m = Cardinality(I) /\ P = c.prefilled
  OBVIOUS
<1>2. I \in SUBSET Nat /\ IsFiniteSet(I) /\ m \in Nat /\ tx_count(c) = n
  BY <1>1, MadeParts, Zenon
<1>3. /\ DOMAIN P = 1..m
      /\ \A p \in DOMAIN P : \E i \in I :
           Rank(I, i) = p /\ P[p].index = i - 1 /\ P[p].tx = txs[i] /\ i \in 1..n
  BY <1>1, MadeInline
<1>4. n \in Nat
  BY DEF Made
<1>5. PICK x : x = [p \in 1..m |-> P[p].index]
  BY Zenon
<1>6. ASSUME NEW p \in 1..m
      PROVE  \E i \in I : Rank(I, i) = p /\ x[p] = i - 1 /\ i \in 1..n
  BY <1>3, <1>5
<1>7. \A p \in 1..m : x[p] \in Nat /\ x[p] < n
  BY <1>4, <1>6
<1>8. ASSUME NEW p \in 1..m, p > 1
      PROVE  x[p - 1] < x[p]
  <2>1. p - 1 \in 1..m
    BY <1>2, <1>8
  <2>2. PICK i \in I : Rank(I, i) = p /\ x[p] = i - 1 /\ i \in 1..n
    BY <1>6
  <2>3. PICK j \in I : Rank(I, j) = p - 1 /\ x[p - 1] = j - 1 /\ j \in 1..n
    BY <1>6, <2>1
  <2>4. ASSUME i < j PROVE Rank(I, i) < Rank(I, j)
    BY <1>2, <2>4, RankGrows, Zenon
  <2>5. j < i
    BY <1>2, <1>4, <2>2, <2>3, <2>4
  <2> QED
    BY <1>4, <2>2, <2>3, <2>5
<1>9. \A p \in 1..m : ~(x[p] >= n) /\ ~(p > 1 /\ x[p] <= x[p - 1])
  <2> TAKE p \in 1..m
  <2>1. CASE p > 1
    <3>1. p - 1 \in 1..m
      BY <1>2, <2>1
    <3> QED
      BY <1>4, <1>7, <1>8, <2>1, <3>1
  <2>2. CASE ~(p > 1)
    BY <1>4, <1>7, <2>2
  <2> QED
    BY <2>1, <2>2
<1>10. \A p \in 1..m : x[p] = P[p].index /\ (p > 1 => x[p - 1] = P[p - 1].index)
  BY <1>2, <1>5
<1> QED
  <2>1. ASSUME Malformed(c)
        PROVE  \E p \in DOMAIN P : P[p].index >= n \/ (p > 1 /\ P[p].index <= P[p - 1].index)
    <3>1. PICK p \in DOMAIN c.prefilled :
             \/ c.prefilled[p].index >= tx_count(c)
             \/ p > 1 /\ c.prefilled[p].index <= c.prefilled[p - 1].index
      BY <2>1, Zenon DEF Malformed
    <3>2. p \in DOMAIN P /\ (P[p].index >= n \/ (p > 1 /\ P[p].index <= P[p - 1].index))
      BY <1>1, <1>2, <3>1, Zenon
    <3> QED
      BY <3>2, Zenon
  <2>2. \A p \in DOMAIN P : ~(P[p].index >= n) /\ ~(p > 1 /\ P[p].index <= P[p - 1].index)
    BY <1>3, <1>9, <1>10, Zenon
  <2> QED
    BY <2>1, <2>2

\* At a position that is not inline the walk stands at the id of its
\* transaction, and every id belongs to such a position.
LEMMA ShortKept ==
  ASSUME NEW c, NEW n, NEW txs, NEW prefill, Made(c, n, txs, prefill)
  PROVE  /\ \A i \in 1..n : ~IsInline(c, i) =>
              /\ ShortAt(c, i) = short_id[txs[i]]
              /\ \E k \in DOMAIN c.short_ids : c.short_ids[k] = short_id[txs[i]]
         /\ \A k \in DOMAIN c.short_ids : \E i \in 1..n : c.short_ids[k] = short_id[txs[i]]
<1>1. PICK R, s : R = Others(n, prefill) /\ s = Ids(n, txs)
  OBVIOUS
<1>2. R \in SUBSET Nat /\ IsFiniteSet(R) /\ c.short_ids = Pick(s, R)
  BY <1>1, MadeParts, Zenon
<1>3. /\ DOMAIN Pick(s, R) = 1..Cardinality(R)
      /\ \A i \in R : Rank(R, i) \in 1..Cardinality(R) /\ Pick(s, R)[Rank(R, i)] = s[i]
      /\ \A k \in 1..Cardinality(R) : \E i \in R : Rank(R, i) = k /\ Pick(s, R)[k] = s[i]
  BY <1>2, PickRanks
<1>4. \A i \in 1..n : IsInline(c, i) <=> i \notin R
  BY <1>1, InlineKept, Zenon DEF Others
<1>5. R \subseteq 1..n /\ \A i \in 1..n : s[i] = short_id[txs[i]]
  BY <1>1 DEF Others, Ids
<1>6. n \in Nat
  BY DEF Made
<1>7. ASSUME NEW i \in 1..n, ~IsInline(c, i)
      PROVE  /\ ShortAt(c, i) = short_id[txs[i]]
             /\ \E k \in DOMAIN c.short_ids : c.short_ids[k] = short_id[txs[i]]
  <2>1. i \in R /\ s[i] = short_id[txs[i]]
    BY <1>4, <1>5, <1>7
  <2>2. {j \in 1..i : ~IsInline(c, j)} = Upto(R, i)
    <3>1. \A j \in 1..i : j \in 1..n
      BY <1>6
    <3>2. \A j \in 1..i : j \in R <=> ~IsInline(c, j)
      BY <1>4, <3>1, Zenon
    <3>3. \A j \in R : j <= i <=> j \in 1..i
      BY <1>5, <1>6
    <3> QED
      BY <3>2, <3>3 DEF Upto
  <2>3. ShortAt(c, i) = c.short_ids[Rank(R, i)]
    BY <2>2, Zenon DEF ShortAt, Rank
  <2>4. Rank(R, i) \in DOMAIN c.short_ids /\ c.short_ids[Rank(R, i)] = s[i]
    BY <1>2, <1>3, <2>1, Zenon
  <2> QED
    BY <2>1, <2>3, <2>4, Zenon
<1>8. ASSUME NEW k \in DOMAIN c.short_ids
      PROVE  \E i \in 1..n : c.short_ids[k] = short_id[txs[i]]
  <2>1. PICK S : S = c.short_ids
    BY Zenon
  <2>2. PICK i \in R : S[k] = s[i]
    BY <1>2, <1>3, <1>8, <2>1, Zenon
  <2>3. i \in 1..n /\ S[k] = short_id[txs[i]]
    BY <1>5, <2>2
  <2> QED
    BY <2>1, <2>3, Zenon
<1> QED
  BY <1>7, <1>8

\* It is an announcement.
LEMMA MadeAnnounces ==
  ASSUME NEW c, NEW n, NEW txs, NEW prefill, Made(c, n, txs, prefill)
  PROVE  Announcement(c)
<1>1. PICK I, R, pre, ids : /\ I = Inlined(n, prefill) /\ R = Others(n, prefill)
                            /\ pre = c.prefilled /\ ids = c.short_ids
  OBVIOUS
<1>2. PICK e, s : e = Entries(n, txs) /\ s = Ids(n, txs)
  OBVIOUS
<1>3. /\ I \in SUBSET Nat /\ IsFiniteSet(I) /\ pre = Pick(e, I)
      /\ R \in SUBSET Nat /\ IsFiniteSet(R) /\ ids = Pick(s, R)
  BY <1>1, <1>2, MadeParts, Zenon
<1>4. PICK X, Y : X = [index: Nat, tx: Txs] /\ Y = ShortIds
  BY Zenon
<1>5. n \in Nat /\ txs \in [1..n -> Txs]
  BY DEF Made
<1>6. \A i \in I : e[i] \in X
  BY <1>1, <1>2, <1>4, <1>5 DEF Inlined, Entries
<1>7. \A i \in R : s[i] \in Y
  BY <1>1, <1>2, <1>4, <1>5, CompactAssumption DEF Others, Ids
<1>8. pre \in [1..Cardinality(I) -> X]
  <2>1. /\ \A k \in 1..Cardinality(I) : \E i \in I : Rank(I, i) = k /\ Pick(e, I)[k] = e[i]
        /\ DOMAIN Pick(e, I) = 1..Cardinality(I)
    BY <1>3, PickRanks, Zenon
  <2>2. \A k \in 1..Cardinality(I) : pre[k] \in X
    BY <1>3, <1>6, <2>1
  <2> QED
    BY <1>3, <2>1, <2>2, Zenon DEF Pick
<1>9. ids \in [1..Cardinality(R) -> Y]
  <2>1. /\ \A k \in 1..Cardinality(R) : \E i \in R : Rank(R, i) = k /\ Pick(s, R)[k] = s[i]
        /\ DOMAIN Pick(s, R) = 1..Cardinality(R)
    BY <1>3, PickRanks, Zenon
  <2>2. \A k \in 1..Cardinality(R) : ids[k] \in Y
    BY <1>3, <1>7, <2>1, Zenon
  <2> QED
    BY <1>3, <2>1, <2>2, Zenon DEF Pick
<1>10. Cardinality(I) \in Nat /\ Cardinality(R) \in Nat
  BY <1>3, FS_CardinalityType
<1>11. pre \in Seq(X) /\ ids \in Seq(Y)
  BY <1>8, <1>9, <1>10
<1> QED
  BY <1>1, <1>4, <1>11, Zenon DEF Announcement

\* The positions of the ids that a pool lacks, and what Missing makes of them.
Absent(c, pool) == {k \in DOMAIN c.short_ids : c.short_ids[k] \notin DOMAIN pool}

LEMMA MissingNames ==
  ASSUME NEW c, Announcement(c), NEW pool
  PROVE  /\ Missing(c, pool) = << >> <=> Absent(c, pool) = {}
         /\ Seqs(Missing(c, pool)) = {c.short_ids[k] : k \in Absent(c, pool)}
<1>1. PICK A, ids, l : A = Absent(c, pool) /\ ids = c.short_ids /\ l = Len(c.short_ids)
  BY Zenon
<1>2. l \in Nat /\ DOMAIN ids = 1..l
  BY <1>1, Parts, Zenon
<1>3. A \subseteq 1..l
  BY <1>1, <1>2 DEF Absent
<1>4. A \in SUBSET Nat /\ IsFiniteSet(A)
  <2>1. IsFiniteSet(1..l)
    BY <1>2, FS_Interval
  <2>2. IsFiniteSet(A)
    BY <1>3, <2>1, FS_Subset, Zenon
  <2> QED
    BY <1>2, <1>3, <2>2
<1>5. PICK q : q = Pick(ids, A)
  OBVIOUS
<1>6. Missing(c, pool) = q
  BY <1>1, <1>5, Zenon DEF Missing, Absent
<1>7. /\ DOMAIN q = 1..Cardinality(A) /\ Len(q) = Cardinality(A)
      /\ \A i \in A : Rank(A, i) \in 1..Cardinality(A) /\ q[Rank(A, i)] = ids[i]
      /\ \A k \in 1..Cardinality(A) : \E i \in A : Rank(A, i) = k /\ q[k] = ids[i]
  BY <1>4, <1>5, PickRanks
<1>8. Cardinality(A) \in Nat /\ (Cardinality(A) = 0 <=> A = {})
  BY <1>4, FS_CardinalityType, FS_EmptySet, Zenon
<1>9. q = << >> <=> A = {}
  <2>1. q = << >> => Cardinality(A) = 0
    BY <1>7
  <2>2. ASSUME A = {} PROVE q = << >>
    <3>1. q = [k \in 1..0 |-> ids[CHOOSE i \in A : Cardinality({j \in A : j <= i}) = k]]
      BY <1>5, <1>8, <2>2, Zenon DEF Pick
    <3> QED
      BY <3>1
  <2> QED
    BY <1>8, <2>1, <2>2, Zenon
<1>10. Seqs(q) = {ids[k] : k \in A}
  <2>1. \A k \in DOMAIN q : q[k] \in {ids[i] : i \in A}
    BY <1>7, Zenon
  <2>2. \A i \in A : ids[i] \in Seqs(q)
    BY <1>7 DEF Seqs
  <2> QED
    BY <2>1, <2>2, Zenon DEF Seqs
<1> QED
  BY <1>1, <1>6, <1>9, <1>10, Zenon

\* Each transaction of a pool is under its own short id.
Fit(pool) == \A s \in DOMAIN pool : short_id[pool[s]] = s

\* r is the body txs up to collisions of short ids.
Recovers(c, n, txs, r) ==
  /\ DOMAIN r = 1..n
  /\ \A i \in 1..n : IF IsInline(c, i) THEN r[i] = txs[i]
                       ELSE short_id[r[i]] = short_id[txs[i]]

\* With nothing missing, reconstruct rebuilds the body.
LEMMA FullPoolRecovers ==
  ASSUME NEW c, NEW n, NEW txs, NEW prefill, Made(c, n, txs, prefill),
         NEW pool, Fit(pool), Missing(c, pool) = << >>
  PROVE  /\ reconstruct(c, pool).missing = << >>
         /\ Recovers(c, n, txs, reconstruct(c, pool).txs)
<1>1. ~Malformed(c) /\ tx_count(c) = n /\ Announcement(c)
  BY MadeSound, MadeParts, MadeAnnounces, Zenon
<1>2. PICK r : r = [i \in 1..n |-> IF IsInline(c, i) THEN InlineTx(c, i) ELSE pool[ShortAt(c, i)]]
  BY Zenon
<1>3. reconstruct(c, pool) = [txs |-> r, missing |-> << >>]
  BY <1>1, <1>2, Zenon DEF reconstruct
<1>4. ASSUME NEW i \in 1..n, IsInline(c, i)
      PROVE  r[i] = txs[i]
  <2>1. InlineTx(c, i) = txs[i]
    BY <1>4, InlineKept, ZenonT(30)
  <2> QED
    BY <1>2, <1>4, <2>1
<1>5. ASSUME NEW i \in 1..n, ~IsInline(c, i)
      PROVE  short_id[r[i]] = short_id[txs[i]]
  <2>1. PICK x : x = short_id[txs[i]]
    OBVIOUS
  <2>2. ShortAt(c, i) = x /\ \E k \in DOMAIN c.short_ids : c.short_ids[k] = x
    <3>1. \A j \in 1..n : ~IsInline(c, j) =>
            /\ ShortAt(c, j) = short_id[txs[j]]
            /\ \E k \in DOMAIN c.short_ids : c.short_ids[k] = short_id[txs[j]]
      BY ShortKept
    <3> QED
      BY <1>5, <2>1, <3>1, Zenon
  <2>3. Absent(c, pool) = {}
    BY <1>1, MissingNames, Zenon
  <2>4. x \in DOMAIN pool
    BY <2>2, <2>3, ZenonT(30) DEF Absent
  <2>5. r[i] = pool[x]
    BY <1>2, <1>5, <2>2
  <2> QED
    BY <2>1, <2>4, <2>5, Zenon DEF Fit
<1>6. DOMAIN r = 1..n
  BY <1>2
<1>7. Recovers(c, n, txs, r)
  BY <1>4, <1>5, <1>6, Zenon DEF Recovers
<1> QED
  BY <1>3, <1>7

\* The pool after the transactions of the ids asked for were added.
Filled(pool, asked, txs) ==
  [s \in DOMAIN pool \cup asked |->
     IF s \in DOMAIN pool THEN pool[s] ELSE CHOOSE tx \in Seqs(txs) : short_id[tx] = s]

\* The pool after the fill: it lacks nothing and each transaction is under its id.
LEMMA FillFits ==
  ASSUME NEW c, NEW n, NEW txs, NEW prefill, Made(c, n, txs, prefill),
         NEW pool, Fit(pool), NEW asked, asked = Seqs(Missing(c, pool)),
         NEW filled, filled = Filled(pool, asked, txs)
  PROVE  Fit(filled) /\ Missing(c, filled) = << >> /\ asked \cap DOMAIN pool = {}
<1>1. Announcement(c)
  BY MadeAnnounces, Zenon
<1>2. PICK ids : ids = c.short_ids
  OBVIOUS
<1>3. asked = {ids[k] : k \in Absent(c, pool)}
  BY <1>1, <1>2, MissingNames, ZenonT(30)
<1>4. \A k \in Absent(c, pool) : k \in DOMAIN ids /\ ids[k] \notin DOMAIN pool
  BY <1>2, Zenon DEF Absent
<1>5. \A k \in DOMAIN ids : ids[k] \in DOMAIN pool \/ ids[k] \in asked
  BY <1>2, <1>3, Zenon DEF Absent
<1>6. DOMAIN filled = DOMAIN pool \cup asked
  BY DEF Filled
<1>7. Absent(c, filled) = {}
  BY <1>2, <1>5, <1>6, Zenon DEF Absent
<1>8. ASSUME NEW s \in asked
      PROVE  \E tx \in Seqs(txs) : short_id[tx] = s
  <2>1. PICK k \in DOMAIN ids : ids[k] = s
    BY <1>3, <1>4, <1>8, ZenonT(30)
  <2>2. PICK i \in 1..n : ids[k] = short_id[txs[i]]
    BY <1>2, ShortKept
  <2>3. txs[i] \in Seqs(txs)
    BY DEF Seqs, Made
  <2> QED
    BY <2>1, <2>2, <2>3, Zenon
<1>9. ASSUME NEW s \in DOMAIN filled
      PROVE  short_id[filled[s]] = s
  <2>1. CASE s \in DOMAIN pool
    <3>1. filled[s] = pool[s]
      BY <1>9, <2>1 DEF Filled
    <3> QED
      BY <2>1, <3>1 DEF Fit
  <2>2. CASE s \notin DOMAIN pool
    <3>1. filled[s] = CHOOSE tx \in Seqs(txs) : short_id[tx] = s
      BY <1>9, <2>2, Zenon DEF Filled
    <3>2. s \in asked
      BY <1>6, <1>9, <2>2
    <3> QED
      BY <1>8, <3>1, <3>2, Zenon
  <2> QED
    BY <2>1, <2>2, Zenon
<1>10. Missing(c, filled) = << >>
  BY <1>1, <1>7, MissingNames, Zenon
<1>11. asked \cap DOMAIN pool = {}
  BY <1>3, <1>4
<1> QED
  BY <1>9, <1>10, <1>11 DEF Fit

----------------------------------------------------------------------------
\* Inductive: the announcement is one that can arrive, it announces the body
\* that is remembered, and the mempool holds each transaction under its id.
CompactInv ==
  /\ Announcement(cb)
  /\ Fit(mempool)
  /\ body # NoBody => \E n \in 0..MaxBody, prefill \in SUBSET (0..MaxBody) :
                        Made(cb, n, body, prefill)

LEMMA CompactInitInv == CompactInit => CompactInv
<1> SUFFICES ASSUME CompactInit PROVE CompactInv
  OBVIOUS
<1>1. << >> \in [1..0 -> Txs]
  OBVIOUS
<1>2. Made(cb, 0, body, {})
  BY <1>1 DEF CompactInit, Made
<1>3. Announcement(cb)
  BY <1>2, MadeAnnounces
<1>4. Fit(mempool)
  BY DEF CompactInit, Fit
<1>5. 0 \in 0..MaxBody /\ {} \in SUBSET (0..MaxBody)
  BY CompactAssumption
<1> QED
  BY <1>2, <1>3, <1>4, <1>5, Zenon DEF CompactInv

LEMMA CompactNextInv == CompactInv /\ [CompactNext]_compactVars => CompactInv'
<1> SUFFICES ASSUME CompactInv, [CompactNext]_compactVars PROVE CompactInv'
  OBVIOUS
<1>1. ASSUME NEW txs \in Bodies, NEW prefill \in SUBSET (0..MaxBody), Announce(txs, prefill)
      PROVE  CompactInv'
  <2>1. PICK n \in 0..MaxBody : txs \in [1..n -> Txs]
    BY DEF Bodies
  <2>2. n \in Nat
    BY CompactAssumption
  <2>3. cb' = make_compact_block(txs, prefill) /\ body' = txs /\ mempool' = mempool
    BY <1>1 DEF Announce
  <2>4. Made(cb', n, body', prefill)
    BY <2>1, <2>2, <2>3 DEF Made
  <2>5. PICK c : c = cb'
    OBVIOUS
  <2>6. Announcement(c)
    BY <2>4, <2>5, MadeAnnounces
  <2>7. Announcement(cb)'
    BY <2>5, <2>6, Zenon DEF Announcement
  <2>8. Fit(mempool)'
    BY <2>3 DEF CompactInv, Fit
  <2> QED
    BY <2>4, <2>7, <2>8, Zenon DEF CompactInv
<1>2. ASSUME NEW c \in RawBlocks, AnnounceRaw(c)
      PROVE  CompactInv'
  <2>1. cb' = c /\ body' = NoBody /\ mempool' = mempool
    BY <1>2 DEF AnnounceRaw
  <2>2. Announcement(c)
    BY CompactAssumption, Zenon DEF Announcement
  <2>3. Announcement(cb)'
    BY <2>1, <2>2, Zenon DEF Announcement
  <2>4. Fit(mempool)'
    BY <2>1 DEF CompactInv, Fit
  <2> QED
    BY <2>1, <2>3, <2>4, Zenon DEF CompactInv, NoBody
<1>3. ASSUME NEW tx \in Txs, Hear(tx)
      PROVE  CompactInv'
  <2>1. cb' = cb /\ body' = body
    BY <1>3, Zenon DEF Hear
  <2>2. Fit(mempool)'
    BY <1>3 DEF CompactInv, Fit, Hear
  <2> QED
    BY <2>1, <2>2, Zenon DEF CompactInv, Announcement, Made, NoBody
<1>4. ASSUME NEW s \in DOMAIN mempool, Evict(s)
      PROVE  CompactInv'
  <2>1. cb' = cb /\ body' = body
    BY <1>4, Zenon DEF Evict
  <2>2. Fit(mempool)'
    BY <1>4 DEF CompactInv, Fit, Evict
  <2> QED
    BY <2>1, <2>2, Zenon DEF CompactInv, Announcement, Made, NoBody
<1>5. CASE UNCHANGED compactVars
  <2>1. cb' = cb /\ body' = body /\ mempool' = mempool
    BY <1>5 DEF compactVars
  <2> QED
    BY <2>1, Zenon DEF CompactInv, Announcement, Made, NoBody, Fit
<1> QED
  BY <1>1, <1>2, <1>3, <1>4, <1>5 DEF CompactNext

LEMMA CompactInvHolds == CompactSpec => []CompactInv
BY CompactInitInv, CompactNextInv, PTL DEF CompactSpec

\* Once the announcement passed the checks, a foreign one included, the walk of
\* reconstruct runs out neither of ids nor of slots.
THEOREM SlotsAlwaysMatch == CompactSpec => []SlotsMatchIds
<1>1. CompactInv => SlotsMatchIds
  <2> SUFFICES ASSUME Announcement(cb), ~Malformed(cb)
               PROVE  Cardinality({i \in 1..tx_count(cb) : ~IsInline(cb, i)}) = Len(cb.short_ids)
    BY Zenon DEF CompactInv, SlotsMatchIds
  <2> QED
    BY SlotsOfSound
<1> QED
  BY <1>1, CompactInvHolds, PTL

\* A body announced by make_compact_block is rebuilt, up to collisions of short
\* ids, or is complete after one fill, for every number of transactions.
THEOREM OneFill == CompactSpec => []OneFillCompletes
<1>1. CompactInv => OneFillCompletes
  <2> SUFFICES ASSUME CompactInv, body # NoBody PROVE OneFillCompletes
    BY Zenon DEF OneFillCompletes
  <2>1. PICK c, txs, pool : c = cb /\ txs = body /\ pool = mempool
    OBVIOUS
  <2>2. PICK n, prefill : Made(c, n, txs, prefill)
    BY <2>1, Zenon DEF CompactInv
  <2>3. Fit(pool)
    BY <2>1 DEF CompactInv
  <2>4. PICK asked : asked = Seqs(reconstruct(c, pool).missing)
    OBVIOUS
  <2>5. PICK filled : filled = Filled(pool, asked, txs)
    BY Zenon
  <2>6. reconstruct(c, pool).missing = Missing(c, pool)
    <3>1. ~Malformed(c)
      BY <2>2, MadeSound, Zenon
    <3> QED
      BY <3>1 DEF reconstruct
  <2>7. /\ Fit(filled) /\ Missing(c, filled) = << >> /\ asked \cap DOMAIN pool = {}
    BY <2>2, <2>3, <2>4, <2>5, <2>6, FillFits, Zenon
  <2>8. /\ reconstruct(c, filled).missing = << >>
        /\ Recovers(c, n, txs, reconstruct(c, filled).txs)
    BY <2>2, <2>7, FullPoolRecovers, Zenon
  <2>9. reconstruct(c, pool).missing = << >> => Recovers(c, n, txs, reconstruct(c, pool).txs)
    BY <2>2, <2>3, <2>6, FullPoolRecovers, Zenon
  <2>10. DOMAIN txs = 1..n
    BY <2>2 DEF Made
  <2>11. \A r : Recovers(c, n, txs, r) => Rebuilt(r)
    BY <2>1, <2>10, Zenon DEF Recovers, Rebuilt
  <2>12. Outcome = reconstruct(c, pool)
    BY <2>1, Zenon DEF Outcome
  <2>13. /\ Outcome.missing = << >> => Rebuilt(Outcome.txs)
         /\ asked = Seqs(Outcome.missing)
         /\ reconstruct(c, filled).missing = << >> /\ Rebuilt(reconstruct(c, filled).txs)
    BY <2>4, <2>8, <2>9, <2>11, <2>12, Zenon
  <2> QED
    <3>1. filled = Filled(mempool, Seqs(Outcome.missing), body)
      BY <2>1, <2>5, <2>13, Zenon
    <3>2. /\ Outcome.missing = << >> => Rebuilt(Outcome.txs)
          /\ Seqs(Outcome.missing) \cap DOMAIN mempool = {}
          /\ reconstruct(cb, filled).missing = << >> /\ Rebuilt(reconstruct(cb, filled).txs)
      BY <2>1, <2>7, <2>13, Zenon
    <3> QED
      BY <3>1, <3>2, Zenon DEF OneFillCompletes, Filled
<1> QED
  BY <1>1, CompactInvHolds, PTL
============================================================================
