------------------------------- MODULE Arena -------------------------------
(***************************************************************************)
(* The bump-pointer arena: allocations are cut from the last chunk, a      *)
(* chunk that is too small is followed by a new one, and reset keeps only  *)
(* the first.  An address is a chunk and an offset in it.                  *)
(***************************************************************************)
EXTENDS Integers, Sequences, FiniteSets

CONSTANTS ChunkSizes,  \* sizes an arena may be constructed with, 0 included
          Sizes, Aligns,
          MaxLive      \* bound: allocations between two resets

ASSUME ArenaAssumption ==
  /\ ChunkSizes \subseteq Nat /\ Sizes \subseteq Nat \ {0} /\ Aligns \subseteq Nat \ {0}
  /\ MaxLive \in Nat

VARIABLES chunk_size, offset,
          chunks,   \* sizes of the chunks
          live      \* history: the allocations since the last reset

arenaVars == <<chunk_size, offset, chunks, live>>

Pad(off, align) == (align - (off % align)) % align

\* Mutant: the pad is left out of the check.
FitsBackUnpadded(n, align) == offset + n <= chunks[Len(chunks)]

FitsBack(n, align) == offset + Pad(offset, align) + n <= chunks[Len(chunks)]

\* The size of the chunk that grow adds for n bytes.
Needed(n, align) == IF n + align > chunk_size THEN n + align ELSE chunk_size

\* The pad in the new chunk, whose offset is 0.
GrownPad(align) == Pad(0, align)

Handed(k, start, n, align) ==
  live \cup {[chunk |-> k, start |-> start, len |-> n, align |-> align]}

\* allocate from the last chunk
AllocateBack(n, align) ==
  LET start == offset + Pad(offset, align)
  IN  /\ FitsBack(n, align)
      /\ offset' = start + n
      /\ live' = Handed(Len(chunks), start, n, align)
      /\ UNCHANGED <<chunk_size, chunks>>

\* allocate from a new chunk
AllocateGrown(n, align) ==
  /\ ~FitsBack(n, align)
  /\ chunk_size' = Needed(n, align)
  /\ chunks' = Append(chunks, chunk_size')
  /\ offset' = GrownPad(align) + n
  /\ live' = Handed(Len(chunks'), GrownPad(align), n, align)

Reset ==
  /\ chunks' = <<chunks[1]>>
  /\ offset' = 0
  /\ live' = {}
  /\ UNCHANGED chunk_size

bytes_used == (Len(chunks) - 1) * chunk_size + offset

ArenaInit ==
  /\ chunk_size \in ChunkSizes
  /\ offset = 0 /\ chunks = <<chunk_size>> /\ live = {}

ArenaNext ==
  \/ \E n \in Sizes, align \in Aligns :
       Cardinality(live) < MaxLive /\ (AllocateBack(n, align) \/ AllocateGrown(n, align))
  \/ Reset

ArenaSpec == ArenaInit /\ [][ArenaNext]_arenaVars

----------------------------------------------------------------------------
\* The addresses handed out since the last reset.
BytesHanded == UNION {{a.chunk} \X (a.start..(a.start + a.len - 1)) : a \in live}

\* The allocations since the last reset are sound, through growth, oversized
\* requests and reuse of the first chunk: each lies inside its chunk at a
\* multiple of its alignment, no two share a byte, and bytes_used, which takes
\* every chunk to be as large as the newest, is not less than what they hold.
LiveSound ==
  /\ \A a \in live : /\ a.chunk \in DOMAIN chunks /\ a.start + a.len <= chunks[a.chunk]
                     /\ a.start % a.align = 0
  /\ \A a, b \in live :
       a # b /\ a.chunk = b.chunk => a.start + a.len <= b.start \/ b.start + b.len <= a.start
  /\ Cardinality(BytesHanded) <= bytes_used

\* The inductive invariant behind it: no chunk is larger than the newest size,
\* and what was cut from the last chunk lies below the offset.
ArenaInv ==
  /\ chunk_size \in Nat /\ chunks \in Seq(0..chunk_size) /\ chunks # << >>
  /\ offset \in 0..chunks[Len(chunks)]
  /\ live \subseteq [chunk: DOMAIN chunks, start: Nat, len: Sizes, align: Aligns]
  /\ \A a \in live : /\ a.start + a.len <= chunks[a.chunk]
                     /\ a.start % a.align = 0
                     /\ a.chunk = Len(chunks) => a.start + a.len <= offset
  /\ \A a, b \in live :
       a # b /\ a.chunk = b.chunk => a.start + a.len <= b.start \/ b.start + b.len <= a.start
============================================================================
