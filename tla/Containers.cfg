CONSTANTS
  ChunkSizes = {0, 8}
  Sizes = {1, 3, 9}
  Aligns = {1, 4}
  MaxLive = 3
  Txids = {1, 2, 3, 4, 5}
  Seeds = {1, 2}
  Hash <- SmallHash
  bits = 10
  WordBits = 4
SPECIFICATION Spec
INVARIANTS LiveSound NoFalseNegatives BitsExplained
