---------------------------- MODULE MCContainers ----------------------------
\* The arena and the known-transaction set, each on a small instance and
\* independent of the other.  The filter has ten bits in words of four and two
\* hashes that collide often.
EXTENDS Arena, KnownTxSet

SmallHash(i, x) == IF i = 1 THEN 3 * x ELSE x * x + 1

Init == ArenaInit /\ FilterInit

Next == (ArenaNext /\ UNCHANGED filterVars) \/ (FilterNext /\ UNCHANGED arenaVars)

Spec == Init /\ [][Next]_<<arenaVars, filterVars>>
============================================================================
