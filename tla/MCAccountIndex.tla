--------------------------- MODULE MCAccountIndex ---------------------------
\* Small instances of the account index: colliding names, a table small enough
\* to fill up and grow.
EXTENDS AccountIndex

Collide == [a \in Accounts |-> CASE a = "ann" -> 3 [] a = "bob" -> 3 [] OTHER -> 0]

OnePenny == {[s \in Symbols |-> IF s = "HIVE" THEN 1 ELSE 0]}

PennyUpOrDown == {<<-1, "HIVE">>, <<1, "HIVE">>}
============================================================================
