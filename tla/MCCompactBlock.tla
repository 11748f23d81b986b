--------------------------- MODULE MCCompactBlock ---------------------------
\* Small instances of compact blocks.
EXTENDS CompactBlock

\* No transaction has the last one.
SomeIds == {<<"t">>, <<"v">>, <<"w">>}

\* The short ids of t and u collide; the others tell their transactions apart.
Colliding == [tx \in Txs |-> IF tx = "u" THEN <<"t">> ELSE <<tx>>]

\* Every announcement with up to two short ids and two inline transactions.
AnyBlocks ==
  [short_ids: UNION {[1..n -> ShortIds] : n \in 0..2},
   prefilled: UNION {[1..n -> [index: 0..3, tx: {CHOOSE tx \in Txs : TRUE}]] : n \in 0..2}]
============================================================================
