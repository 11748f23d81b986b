-------------------------- MODULE MCSelectiveUndo --------------------------
\* Small instance of selective undo.
EXTENDS SelectiveUndo

Payments == {[hive |-> 1, hbd |-> 0], [hive |-> -1, hbd |-> 0], [hive |-> 0, hbd |-> 1]}
============================================================================
