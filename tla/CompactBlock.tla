---------------------------- MODULE CompactBlock ----------------------------
(***************************************************************************)
(* Compact blocks: a block body is announced as short transaction ids plus *)
(* a few full transactions, and the receiver rebuilds the body from its    *)
(* mempool, which changes while announcements arrive.  A transaction is an *)
(* atom; its short id is a function of it.                                 *)
(***************************************************************************)
EXTENDS Integers, Sequences, FiniteSets

CONSTANTS Txs,
          ShortIds,
          short_id,     \* transaction -> short id: the first bytes of its hash
          RawBlocks,    \* announcements of peers that do not use make_compact_block
          MaxBody       \* bound: transactions in a body

ASSUME CompactAssumption ==
  /\ short_id \in [Txs -> ShortIds]
  /\ \A c \in RawBlocks : /\ c.short_ids \in Seq(ShortIds)
                          /\ c.prefilled \in Seq([index: Nat, tx: Txs])
  /\ MaxBody \in Nat

VARIABLES cb,       \* the last announcement
          body,     \* the body it was made from, or NoBody
          mempool   \* short id -> transaction

compactVars == <<cb, body, mempool>>

NoBody == <<"none">>
Bodies == UNION {[1..n -> Txs] : n \in 0..MaxBody}

tx_count(c) == Len(c.short_ids) + Len(c.prefilled)

----------------------------------------------------------------------------
\* The elements of a sequence at the positions in S, in order.
Pick(s, S) ==
  LET Nth(k) == CHOOSE i \in S : Cardinality({j \in S : j <= i}) = k
  IN  [k \in 1..Cardinality(S) |-> s[Nth(k)]]

\* Positions are counted from 1 here, indexes of prefilled from 0 as in the code.
make_compact_block(txs, prefill) ==
  LET inline == {i \in DOMAIN txs : i - 1 \in prefill}
  IN  [prefilled |-> Pick([i \in DOMAIN txs |-> [index |-> i - 1, tx |-> txs[i]]], inline),
       short_ids |-> Pick([i \in DOMAIN txs |-> short_id[txs[i]]], DOMAIN txs \ inline)]

\* Mutant: repeated and descending indexes pass.
MalformedRangeOnly(c) == \E p \in DOMAIN c.prefilled : c.prefilled[p].index >= tx_count(c)

\* The checks on prefilled: each index in range and above the one before.
Malformed(c) ==
  \E p \in DOMAIN c.prefilled :
    \/ c.prefilled[p].index >= tx_count(c)
    \/ p > 1 /\ c.prefilled[p].index <= c.prefilled[p - 1].index

IsInline(c, i) == \E p \in DOMAIN c.prefilled : c.prefilled[p].index = i - 1

InlineTx(c, i) == c.prefilled[CHOOSE p \in DOMAIN c.prefilled : c.prefilled[p].index = i - 1].tx

\* The short id of position i: the cursor moves at every position not inline.
ShortAt(c, i) == c.short_ids[Cardinality({j \in 1..i : ~IsInline(c, j)})]

\* Mutant: the fill request names one id only.
MissingFirst(c, pool) ==
  LET absent == {k \in DOMAIN c.short_ids : c.short_ids[k] \notin DOMAIN pool}
  IN  Pick(c.short_ids, {k \in absent : \A j \in absent : k <= j})

Missing(c, pool) ==
  Pick(c.short_ids, {k \in DOMAIN c.short_ids : c.short_ids[k] \notin DOMAIN pool})

\* The branches for left-over slots or ids after the walk are not here: see
\* SlotsMatchIds.
reconstruct(c, pool) ==
  IF Malformed(c) THEN [txs |-> << >>, missing |-> c.short_ids]
  ELSE IF Missing(c, pool) # << >> THEN [txs |-> << >>, missing |-> Missing(c, pool)]
  ELSE [txs |-> [i \in 1..tx_count(c) |->
                   IF IsInline(c, i) THEN InlineTx(c, i) ELSE pool[ShortAt(c, i)]],
        missing |-> << >>]

----------------------------------------------------------------------------
CompactInit == cb = make_compact_block(<< >>, {}) /\ body = << >> /\ mempool = [s \in {} |-> 0]

Announce(txs, prefill) ==
  /\ cb' = make_compact_block(txs, prefill)
  /\ body' = txs
  /\ UNCHANGED mempool

AnnounceRaw(c) ==
  /\ cb' = c
  /\ body' = NoBody
  /\ UNCHANGED mempool

\* A transaction enters or leaves the receiver's mempool.
Hear(tx) ==
  /\ mempool' = [s \in DOMAIN mempool \cup {short_id[tx]} |->
                   IF s = short_id[tx] THEN tx ELSE mempool[s]]
  /\ UNCHANGED <<cb, body>>

Evict(s) ==
  /\ mempool' = [t \in DOMAIN mempool \ {s} |-> mempool[t]]
  /\ UNCHANGED <<cb, body>>

CompactNext ==
  \/ \E txs \in Bodies, prefill \in SUBSET (0..MaxBody) : Announce(txs, prefill)
  \/ \E c \in RawBlocks : AnnounceRaw(c)
  \/ \E tx \in Txs : Hear(tx)
  \/ \E s \in DOMAIN mempool : Evict(s)

CompactSpec == CompactInit /\ [][CompactNext]_compactVars

----------------------------------------------------------------------------
Outcome == reconstruct(cb, mempool)

Seqs(s) == {s[i] : i \in DOMAIN s}

\* The body the announcement was made from, up to collisions of short ids: a
\* position is exact if it came inline or if no other transaction has its id.
Rebuilt(txs) ==
  /\ DOMAIN txs = DOMAIN body
  /\ \A i \in DOMAIN txs : IF IsInline(cb, i) THEN txs[i] = body[i]
                          ELSE short_id[txs[i]] = short_id[body[i]]

\* Whatever the receiver holds, an announcement made from a body is rebuilt to
\* that body or reported incomplete, and the transactions of the missing ids,
\* once added, complete it in one round.  A collision of short ids changes no
\* other position.
OneFillCompletes ==
  body # NoBody =>
    LET asked  == Seqs(Outcome.missing)
        filled == [s \in DOMAIN mempool \cup asked |->
                     IF s \in DOMAIN mempool THEN mempool[s]
                     ELSE CHOOSE tx \in Seqs(body) : short_id[tx] = s]
        after  == reconstruct(cb, filled)
    IN  /\ Outcome.missing = << >> => Rebuilt(Outcome.txs)
        /\ asked \cap DOMAIN mempool = {}
        /\ after.missing = << >> /\ Rebuilt(after.txs)

\* In an announcement that passes the checks, also of a foreign peer, there are
\* as many positions without an inline transaction as there are short ids: the
\* walk runs out of neither, and the code's later malformed branches are dead.
SlotsMatchIds ==
  ~Malformed(cb) =>
    Cardinality({i \in 1..tx_count(cb) : ~IsInline(cb, i)}) = Len(cb.short_ids)
============================================================================
