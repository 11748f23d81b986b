------------------------------ MODULE BlockRun ------------------------------
(***************************************************************************)
(* The apply scheduler over a database: a block is applied operation after *)
(* operation in the order of the layers, until one of them throws.  What an*)
(* operation does to the tables is a parameter; module BlockApply has the  *)
(* evaluators.                                                             *)
(***************************************************************************)
EXTENDS ApplyScheduler, Functions

CONSTANTS Start,         \* the tables the block finds
          effect(_, _)   \* what an operation makes of tables, and whether it throws

TableNames == {"balances", "nfts", "htlcs", "contract_storage"}

ASSUME StartAssumption ==
  /\ DOMAIN Start = TableNames \cup {"pending_virtual_ops"}
  /\ \A f \in TableNames : Start[f] = [x \in DOMAIN Start[f] |-> Start[f][x]]
  /\ Start.pending_virtual_ops \in Seq(Range(Start.pending_virtual_ops))

VARIABLE tables        \* the tables the scheduled operations write

allVars == <<vars, tables>>

----------------------------------------------------------------------------
\* The next operation is applied, or its exception leaves apply_scheduled; what
\* was applied stays applied.
ApplyOrThrow ==
  /\ status = "apply"
  /\ LET res == effect(tables, block[Current])
     IN  /\ \/ ~res.throws /\ ApplyOne
            \/ res.throws /\ Throw
         /\ tables' = res.tables

----------------------------------------------------------------------------
BlockInit == Init /\ tables = Start

BlockNext == ((Place \/ Planned) /\ UNCHANGED tables) \/ ApplyOrThrow

BlockSpec == BlockInit /\ [][BlockNext]_allVars

----------------------------------------------------------------------------
\* The operations with the given indices applied one after the other, up to the
\* first that throws.
Outcome(t, indices) ==
  LET out[k \in 0..Len(indices)] ==
        IF k = 0 THEN [throws |-> FALSE, tables |-> t]
        ELSE IF out[k - 1].throws THEN out[k - 1]
        ELSE effect(out[k - 1].tables, block[indices[k]])
  IN  out[Len(indices)]

\* Two outcomes agree if both throw, or leave the same tables and the same
\* virtual operations in some order.
Agree(x, y) ==
  /\ x.throws = y.throws
  /\ ~x.throws =>
       LET p == x.tables.pending_virtual_ops  q == y.tables.pending_virtual_ops
       IN  /\ \A f \in TableNames : x.tables[f] = y.tables[f]
           /\ \E f \in Bijection(DOMAIN p, DOMAIN p) : q = [k \in DOMAIN p |-> p[f[k]]]

\* "parallel_width records how many could run concurrently": when a layer is
\* due, its operations may be applied in any order with one and the same result,
\* also when one of them throws.
LayerOrderFree ==
  status = "apply" /\ at.pos = 1 =>
    \A f \in Bijection(DOMAIN layers[at.layer], DOMAIN layers[at.layer]) :
      Agree(Outcome(tables, layers[at.layer]),
            Outcome(tables, [k \in DOMAIN layers[at.layer] |-> layers[at.layer][f[k]]]))

\* What operations are classified by is enough: unless the schedule lets an
\* operation overtake one it conflicts with, the block ends as it does in block
\* order: with the same tables, or with an exception in both.
ScheduledAsSerial ==
  status \in {"done", "threw"} /\ ConflictsInOrder =>
    Agree([throws |-> status = "threw", tables |-> tables],
          Outcome(Start, [i \in DOMAIN block |-> i]))

----------------------------------------------------------------------------
\* What the order of operations depends on: the tables are read and written by
\* key, and each key belongs to one account or object.
Queue(p) == \E S : p \in Seq(S)

Fields == {"balances", "nfts", "htlcs", "contract_storage", "pending_virtual_ops"}

\* Tables with the rows the block found: no scheduled operation adds or removes one.
Shape(t) ==
  /\ DOMAIN t = Fields
  /\ \A f \in TableNames : t[f] = [x \in DOMAIN Start[f] |-> t[f][x]]
  /\ Queue(t.pending_virtual_ops)

\* The keys of the tables, as operations are classified by them.
Keys ==
  {<<"account", a>> : a \in DOMAIN Start.balances} \cup {<<"nft", n>> : n \in DOMAIN Start.nfts}
    \cup {<<"htlc", h>> : h \in DOMAIN Start.htlcs}
    \cup {<<"contract", c>> : c \in DOMAIN Start.contract_storage}

\* What the tables hold under each.
View(t) ==
  [key \in Keys |-> CASE key[1] = "account"  -> t.balances[key[2]]
                      [] key[1] = "nft"      -> t.nfts[key[2]]
                      [] key[1] = "htlc"     -> t.htlcs[key[2]]
                      [] key[1] = "contract" -> t.contract_storage[key[2]]]

\* Under the keys of K both hold the same.
SameOn(t, u, K) == \A key \in Keys : key \in K => View(t)[key] = View(u)[key]

\* An operation changes at most what is under the keys it is classified by.
Frames(t, r, op) == Shape(r) /\ SameOn(r, t, Keys \ classify(op))

\* x and y are what one operation makes of t and of u: it throws in both or in
\* neither, leaves the same under the keys it is classified by, and reports the same.
Reported(t, u, x, y) ==
  \E v : /\ x.tables.pending_virtual_ops = Append(t.pending_virtual_ops, v)
         /\ y.tables.pending_virtual_ops = Append(u.pending_virtual_ops, v)

Answers(t, u, op, x, y) ==
  /\ x.throws = y.throws
  /\ SameOn(x.tables, y.tables, classify(op))
  /\ ~x.throws => Reported(t, u, x, y)

\* What is asked of an effect: under the keys an operation is classified by it
\* reads all it depends on and writes all it changes, beside the queue of virtual
\* operations; and the keys are all there is to the tables.
LocalEffects ==
  /\ \A t : \A op \in scheduled_op : Shape(t) =>
       effect(t, op).throws \in BOOLEAN /\ Frames(t, effect(t, op).tables, op)
  /\ \A t, u : \A op \in scheduled_op : Shape(t) /\ Shape(u) /\ SameOn(t, u, classify(op)) =>
       Answers(t, u, op, effect(t, op), effect(u, op))
  /\ \A t, u : Shape(t) /\ Shape(u) /\ SameOn(t, u, Keys) => \A f \in TableNames : t[f] = u[f]
=============================================================================
