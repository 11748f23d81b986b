--------------------------- MODULE SelectiveUndo ---------------------------
(***************************************************************************)
(* Field-level undo of balances: a session records the fields of an        *)
(* account before each change, and rollback writes them back, newest       *)
(* record first.                                                           *)
(***************************************************************************)
EXTENDS Integers, Sequences

CONSTANTS Accounts, Deltas,
          Limit,     \* bound: amounts stay within -Limit .. Limit
          MaxStack   \* bound: records in a session

ASSUME UndoAssumption ==
  /\ Deltas \subseteq [hive: Int, hbd: Int]
  /\ Limit \in Nat /\ MaxStack \in Nat

VARIABLES balances,  \* account in the map -> hive and hbd, possibly negative
          stack,     \* records of the open session
          base       \* history: balances when the session began

vars == <<balances, stack, base>>

Zero    == [hive |-> 0, hbd |-> 0]
Amounts == [hive: Int, hbd: Int]

\* balances[account] inserts a zero balance for an account not in the map.
Get(account) == IF account \in DOMAIN balances THEN balances[account] ELSE Zero

Set(account, b) ==
  [a \in DOMAIN balances \cup {account} |-> IF a = account THEN b ELSE balances[a]]

Moved(b, d) == [hive |-> b.hive + d.hive, hbd |-> b.hbd + d.hbd]

InRange(b) == b.hive \in (-Limit)..Limit /\ b.hbd \in (-Limit)..Limit

----------------------------------------------------------------------------
Recorded(account) == [account |-> account, old |-> Get(account)]

\* adjust_balance: push the fields, then change them.
Adjust(account, d) ==
  /\ Len(stack) < MaxStack /\ InRange(Moved(Get(account), d))
  /\ stack' = Append(stack, Recorded(account))
  /\ balances' = Set(account, Moved(Get(account), d))
  /\ UNCHANGED base

\* A caller pushes the fields of an account it is going to change itself.
PushBalanceChange(account) ==
  /\ Len(stack) < MaxStack /\ account \in DOMAIN balances
  /\ stack' = Append(stack, [account |-> account, old |-> balances[account]])
  /\ UNCHANGED <<balances, base>>

RecordsOf(account) == {i \in DOMAIN stack : stack[i].account = account}

\* ... and then writes it, as often as it likes.
Write(account, d) ==
  /\ RecordsOf(account) # {} /\ InRange(Moved(Get(account), d))
  /\ balances' = Set(account, Moved(Get(account), d))
  /\ UNCHANGED <<stack, base>>

\* Mutant: records are written back oldest first.
LastWrittenFifo(account) == CHOOSE i \in RecordsOf(account) : \A j \in RecordsOf(account) : j <= i

\* Newest first means that the oldest record of an account is written last.
LastWritten(account) == CHOOSE i \in RecordsOf(account) : \A j \in RecordsOf(account) : i <= j

Undone ==
  [a \in DOMAIN balances |->
     IF RecordsOf(a) = {} THEN balances[a] ELSE stack[LastWritten(a)].old]

Rollback ==
  /\ balances' = Undone
  /\ stack' = << >>
  /\ base' = balances'

Commit ==
  /\ stack' = << >>
  /\ base' = balances
  /\ UNCHANGED balances

----------------------------------------------------------------------------
\* The map may hold any accounts before the session opens.
Init ==
  /\ balances \in UNION {[S -> {Zero}] : S \in SUBSET Accounts}
  /\ stack = << >>
  /\ base = balances

Next ==
  \/ \E a \in Accounts, d \in Deltas : Adjust(a, d) \/ Write(a, d)
  \/ \E a \in Accounts : PushBalanceChange(a)
  \/ Rollback
  \/ Commit

Spec == Init /\ [][Next]_vars

----------------------------------------------------------------------------
TypeOK ==
  /\ DOMAIN balances \subseteq Accounts /\ balances \in [DOMAIN balances -> Amounts]
  /\ stack \in Seq([account: Accounts, old: Amounts])
  /\ DOMAIN base \subseteq DOMAIN balances /\ base \in [DOMAIN base -> Amounts]

\* At any point of a session, after any mix of adjustments and direct writes, a
\* rollback gives every account the balance it had when the session began, and
\* zero to the accounts that came since.
RollbackRestores ==
  \A a \in DOMAIN balances : Undone[a] = IF a \in DOMAIN base THEN base[a] ELSE Zero

\* The inductive invariant: besides, no record is about an account outside the
\* map, so none of them can bring one back.
UndoInv ==
  /\ TypeOK
  /\ RollbackRestores
  /\ \A i \in DOMAIN stack : stack[i].account \in DOMAIN balances
============================================================================
